-------------------------- MODULE CourseCompletion --------------------------
(* One student's completion of courses and of one career path: who recomputes  *)
(* course_enrollments.status, grants the completion award, latches the stages  *)
(* and completes the path, in transactions that do not see each other's work   *)
(* (features/enrollments/services/completion.py, career_paths/services).       *)
(*                                                                             *)
(* A unit is a lesson, quiz or interview of the curriculum.  It counts as done *)
(* or not; a unit withdrawn from the curriculum counts as done, one added as   *)
(* not done.  Courses stay published.  Transactions read what is committed and *)
(* what they wrote; an UPDATE locks its row until the end.                     *)
EXTENDS Naturals, FiniteSets

CONSTANTS Units, Courses, Stages,
          Interviews, \* the units that are interviews
          CourseOf,   \* the course of a unit
          StageOf,    \* the stage of a course, required in it
          Requests,   \* requests and jobs of the student running at the same time
          MaxEvents   \* bound: changes of units and enrollments, and faults

VARIABLES done,       \* units done, as committed
          enrollment, \* course_enrollments.status
          award,      \* courses with a course_completion_awards row
          latch,      \* stages with a student_stage_progress row
          career,     \* student_career_enrollments.status
          tx,         \* transactions
          events

vars == <<done, enrollment, award, latch, career, tx, events>>

\* The student's requests, the drift sweep of 02:00, the readiness snapshot of 02:30.
Txs == Requests \cup {"sweep", "snapshot"}

Statuses == {"active", "completed", "dropped"}
UnitsOf(c) == {u \in Units : CourseOf[u] = c}
CoursesOf(s) == {c \in Courses : StageOf[c] = s}

\* todo: courses still to recompute; course: the one in hand, read its status as loaded;
\* the rest is what the transaction wrote: the units it did or undid, statuses, awards,
\* latches and whether it completed the path; stages: those it found complete.
Idle == [pc |-> "idle", todo |-> {}, course |-> "none", read |-> "none",
         did |-> {}, undid |-> {}, status |-> [c \in Courses |-> "none"],
         awards |-> {}, stages |-> {}, latched |-> {}, prepared |-> FALSE]

\* Lazy enrollment: a student may have done units before any enrollment of the course.
Init ==
    /\ done \in SUBSET Units
    /\ enrollment = [c \in Courses |-> "active"]
    /\ award = {} /\ latch = {}
    /\ career = "active"
    /\ tx = [t \in Txs |-> Idle]
    /\ events = 0

-----------------------------------------------------------------------------
(* What a transaction sees, and what it waits for *)

Seen(t) == (done \cup tx[t].did) \ tx[t].undid
Status(t, c) == IF tx[t].status[c] = "none" THEN enrollment[c] ELSE tx[t].status[c]
Satisfied(t, c) == c \in award \cup tx[t].awards \/ Status(t, c) = "completed"
Complete(t, s) == \A c \in CoursesOf(s) : Satisfied(t, c)

Others(t) == Txs \ {t}
HoldsEnrollment(t, c) == tx[t].status[c] # "none"
UnitFree(u) == \A t \in Txs : u \notin tx[t].did \cup tx[t].undid
EnrollmentFree(c) == \A t \in Txs : ~HoldsEnrollment(t, c)

Set(t, record) == tx' = [tx EXCEPT ![t] = record]
Event == events < MaxEvents /\ events' = events + 1

-----------------------------------------------------------------------------
(* The student, the manager and the author *)

\* mark_lesson_complete, update_lesson_progress, upsert_grade: the unit is flushed, and
\* the course recomputed in the same transaction.
Do(t, u) ==
    /\ t \in Requests /\ tx[t].pc = "idle"
    /\ u \notin done \cup Interviews /\ UnitFree(u)
    /\ Event
    /\ Set(t, [Idle EXCEPT !.pc = "load", !.course = CourseOf[u], !.did = {u}])
    /\ UNCHANGED <<done, enrollment, award, latch, career>>

\* unmark_lesson_complete, a regrade.
Undo(t, u) ==
    /\ t \in Requests /\ tx[t].pc = "idle"
    /\ u \in done \ Interviews /\ UnitFree(u)
    /\ Event
    /\ Set(t, [Idle EXCEPT !.pc = "load", !.course = CourseOf[u], !.undid = {u}])
    /\ UNCHANGED <<done, enrollment, award, latch, career>>

\* An interview's verdict is committed before the course is recomputed.
Verdict(t, u) ==
    /\ t \in Requests /\ tx[t].pc = "idle"
    /\ u \in Interviews \ done
    /\ Event
    /\ done' = done \cup {u}
    /\ Set(t, [Idle EXCEPT !.pc = "load", !.course = CourseOf[u]])
    /\ UNCHANGED <<enrollment, award, latch, career>>

\* A unit is published or withdrawn: nothing is recomputed.
Curriculum(u) ==
    /\ UnitFree(u)
    /\ Event
    /\ done' = IF u \in done THEN done \ {u} ELSE done \cup {u}
    /\ UNCHANGED <<enrollment, award, latch, career, tx>>

\* unenroll_student, enroll_student.
Manage(c) ==
    /\ EnrollmentFree(c)
    /\ Event
    /\ enrollment' = [enrollment EXCEPT ![c] = IF @ = "dropped" THEN "active" ELSE "dropped"]
    /\ UNCHANGED <<done, award, latch, career, tx>>

-----------------------------------------------------------------------------
(* sync_course_completion *)

\* The transaction goes on after its course: a request commits, the sweep takes its
\* next pair, and commits after the last.
NextCourse(record) ==
    IF record.todo = {} THEN [record EXCEPT !.pc = "commit"]
    ELSE LET c == CHOOSE d \in record.todo : TRUE
         IN [record EXCEPT !.pc = "load", !.course = c, !.todo = @ \ {c}, !.read = "none",
                           !.stages = {}]

\* find_enrollment: only the active/completed pair participates.
Load(t) ==
    /\ tx[t].pc = "load"
    /\ LET status == Status(t, tx[t].course)
       IN Set(t, IF status = "dropped" THEN NextCourse(tx[t])
                 ELSE [tx[t] EXCEPT !.pc = "tally", !.read = status])
    /\ UNCHANGED <<done, enrollment, award, latch, career, events>>

\* get_course_unit_tally, and the decision.
Tally(t) ==
    /\ tx[t].pc = "tally"
    /\ LET complete == UnitsOf(tx[t].course) \subseteq Seen(t)
       IN Set(t, CASE complete /\ tx[t].read = "active" -> [tx[t] EXCEPT !.pc = "promote"]
                   [] ~complete /\ tx[t].read = "completed" -> [tx[t] EXCEPT !.pc = "demote"]
                   [] OTHER -> NextCourse(tx[t]))
    /\ UNCHANGED <<done, enrollment, award, latch, career, events>>

\* Mutant: the status is not flushed before the award.
PromoteUnflushed(t) ==
    /\ tx[t].pc = "promote"
    /\ Set(t, [tx[t] EXCEPT !.pc = "award"])
    /\ UNCHANGED <<done, enrollment, award, latch, career, events>>

\* The UPDATE is flushed, whatever the row says by now.
Promote(t) ==
    /\ tx[t].pc = "promote"
    /\ \A o \in Others(t) : ~HoldsEnrollment(o, tx[t].course)
    /\ Set(t, [tx[t] EXCEPT !.pc = "award", !.status[tx[t].course] = "completed"])
    /\ UNCHANGED <<done, enrollment, award, latch, career, events>>

Demote(t) ==
    /\ tx[t].pc = "demote"
    /\ \A o \in Others(t) : ~HoldsEnrollment(o, tx[t].course)
    /\ Set(t, NextCourse([tx[t] EXCEPT !.status[tx[t].course] = "active"]))
    /\ UNCHANGED <<done, enrollment, award, latch, career, events>>

\* ensure_completion_award: the SELECT.
LookForAward(t) ==
    /\ tx[t].pc = "award"
    /\ Set(t, [tx[t] EXCEPT !.pc = IF tx[t].course \in award \cup tx[t].awards
                                   THEN "paths" ELSE "insert"])
    /\ UNCHANGED <<done, enrollment, award, latch, career, events>>

\* The INSERT waits for the same row of another transaction; refused, it takes the
\* whole transaction with it (flush_or_conflict).
InsertAward(t) ==
    /\ tx[t].pc = "insert"
    /\ \A o \in Others(t) : tx[t].course \notin tx[o].awards
    /\ Set(t, IF tx[t].course \in award THEN Idle
              ELSE [tx[t] EXCEPT !.pc = "paths", !.awards = @ \cup {tx[t].course}])
    /\ UNCHANGED <<done, enrollment, award, latch, career, events>>

\* sync_paths_after_course_completion: an active path's stages are evaluated.
Evaluate(t) ==
    /\ tx[t].pc = "paths"
    /\ Set(t, IF career # "active" THEN NextCourse(tx[t])
              ELSE [tx[t] EXCEPT !.pc = "latch", !.stages = {s \in Stages : Complete(t, s)}])
    /\ UNCHANGED <<done, enrollment, award, latch, career, events>>

\* latch_completed_stages: ON CONFLICT DO NOTHING, after the other writer's end; then
\* sync_enrollment_completion reads the career enrollment.
Latch(t) ==
    /\ tx[t].pc = "latch"
    /\ \A o \in Others(t) : tx[t].stages \cap tx[o].latched = {}
    /\ LET latched == [tx[t] EXCEPT !.latched = @ \cup (tx[t].stages \ latch)]
       IN Set(t, IF /\ Stages \subseteq latch \cup tx[t].latched \cup tx[t].stages
                    /\ career = "active" /\ ~tx[t].prepared
                 THEN [latched EXCEPT !.pc = "prepare"] ELSE NextCourse(latched))
    /\ UNCHANGED <<done, enrollment, award, latch, career, events>>

\* The career enrollment completed.
Prepare(t) ==
    /\ tx[t].pc = "prepare"
    /\ \A o \in Others(t) : ~tx[o].prepared
    /\ Set(t, NextCourse([tx[t] EXCEPT !.prepared = TRUE]))
    /\ UNCHANGED <<done, enrollment, award, latch, career, events>>

Commit(t) ==
    /\ tx[t].pc = "commit"
    /\ done' = Seen(t)
    /\ enrollment' = [c \in Courses |-> Status(t, c)]
    /\ award' = award \cup tx[t].awards
    /\ latch' = latch \cup tx[t].latched
    /\ career' = IF tx[t].prepared THEN "completed" ELSE career
    /\ Set(t, Idle)
    /\ UNCHANGED events

-----------------------------------------------------------------------------
(* The crons *)

\* Mutant: completed enrollments are not looked at again.
SweepBeginActive ==
    /\ tx["sweep"].pc = "idle"
    /\ LET eligible == {c \in Courses : enrollment[c] = "active"}
       IN eligible # {} /\ Set("sweep", NextCourse([Idle EXCEPT !.todo = eligible]))
    /\ UNCHANGED <<done, enrollment, award, latch, career, events>>

\* resync_stale_course_completions: every eligible enrollment, each in a savepoint,
\* in the order of the courses; one commit.
SweepBegin ==
    /\ tx["sweep"].pc = "idle"
    /\ LET eligible == {c \in Courses : enrollment[c] # "dropped"}
       IN eligible # {} /\ Set("sweep", NextCourse([Idle EXCEPT !.todo = eligible]))
    /\ UNCHANGED <<done, enrollment, award, latch, career, events>>

\* Mutant: the snapshot reads the progress without latching.
SnapshotBeginReads ==
    /\ tx["snapshot"].pc = "idle"
    /\ career = "active"
    /\ Set("snapshot", [Idle EXCEPT !.pc = "commit"])
    /\ UNCHANGED <<done, enrollment, award, latch, career, events>>

\* snapshot_all_active_enrollments.
SnapshotBegin ==
    /\ tx["snapshot"].pc = "idle"
    /\ career = "active"
    /\ Set("snapshot", [Idle EXCEPT !.pc = "paths"])
    /\ UNCHANGED <<done, enrollment, award, latch, career, events>>

-----------------------------------------------------------------------------
(* Faults *)

\* The recomputation raises while it reads: swallowed, the rest goes on.
SyncRaises(t) ==
    /\ tx[t].pc \in {"load", "tally"}
    /\ Event
    /\ Set(t, NextCourse(tx[t]))
    /\ UNCHANGED <<done, enrollment, award, latch, career>>

\* The process dies or the database fails it: rolled back.
Dies(t) ==
    /\ tx[t].pc # "idle"
    /\ Event
    /\ Set(t, Idle)
    /\ UNCHANGED <<done, enrollment, award, latch, career>>

-----------------------------------------------------------------------------
Sync(t) == \/ Load(t)
           \/ Tally(t)
           \/ Promote(t)
           \/ Demote(t)
           \/ LookForAward(t)
           \/ InsertAward(t)
           \/ Evaluate(t)
           \/ Latch(t)
           \/ Prepare(t)
           \/ Commit(t)

People == \/ \E t \in Requests, u \in Units : Do(t, u) \/ Undo(t, u) \/ Verdict(t, u)
          \/ \E u \in Units : Curriculum(u)
          \/ \E c \in Courses : Manage(c)

Next == \/ People
        \/ \E t \in Txs : Sync(t) \/ SyncRaises(t) \/ Dies(t)
        \/ SweepBegin
        \/ SnapshotBegin

\* A transaction under way goes on, and the crons run every night; nobody has to study.
Fairness == /\ \A t \in Txs : WF_vars(Sync(t))
            /\ WF_vars(SweepBegin)
            /\ WF_vars(SnapshotBegin)

Spec == Init /\ [][Next]_vars /\ Fairness

-----------------------------------------------------------------------------
(* Properties *)

TypeOK ==
    /\ done \subseteq Units
    /\ enrollment \in [Courses -> Statuses]
    /\ award \subseteq Courses /\ latch \subseteq Stages
    /\ career \in Statuses
    /\ \A t \in Txs :
         /\ tx[t].todo \subseteq Courses /\ tx[t].awards \subseteq Courses
         /\ tx[t].did \cup tx[t].undid \subseteq Units

\* The award's unique index never refuses a promotion: two promotions of one course
\* are serialised by the enrollment's row, so no mark or grade of the student is
\* rolled back with it ("must not fail because a downstream completion side-effect").
AwardNeverRefused == \A t \in Txs : tx[t].pc = "insert" => tx[t].course \notin award

AllDone(c) == UnitsOf(c) \subseteq done

\* What a tally of the committed rows would change.
Drifted(c) == \/ enrollment[c] = "active" /\ AllDone(c)
              \/ enrollment[c] = "completed" /\ ~AllDone(c)

\* A promotion or a demotion that two transactions missed, or that was lost, is made
\* good ("The backstop repairs any miss").
DriftRepaired == (\E c \in Courses : Drifted(c)) ~> \A c \in Courses : ~Drifted(c)

\* What an evaluation of the committed rows would change.
Owed == /\ career = "active"
        /\ \/ \E s \in Stages \ latch : CoursesOf(s) \subseteq award
           \/ Courses \subseteq award

\* A stage whose courses all have their awards is latched, and the path completed after
\* the last, even when the transactions that finished them did not see each other.
StagesSettle == Owed ~> ~Owed
=============================================================================

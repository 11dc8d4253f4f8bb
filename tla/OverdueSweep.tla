---------------------------- MODULE OverdueSweep ----------------------------
(* The minute cron that closes overdue quiz attempts of all students in one    *)
(* transaction (features/quizzes/services/sweep.py, workers/timing.py).        *)
(* QuizAttempt follows one student's rows in detail; here an attempt is a      *)
(* status, and what matters is the batch: which attempts it takes, and what    *)
(* becomes of them when one of them fails.  Every attempt has its own student  *)
(* and attempts are numbered by started_at.                                    *)
EXTENDS Naturals, FiniteSets, FiniteSetsExt

CONSTANTS MaxAttempts,  \* bound: attempts ever started
          BatchLimit    \* limit of list_overdue_candidates

VARIABLES status,   \* quiz_attempts.status, committed
          timed,    \* attempts whose snapshot has a time limit or a closing date
          overdue,  \* attempts past their deadline
          graded,   \* attempts whose student has a whole-quiz row in quiz_grades
          sweep     \* the sweep's transaction

vars == <<status, timed, overdue, graded, sweep>>

Attempts == 1 .. MaxAttempts

\* todo: the attempts of the batch still to look at; due: those overdue at the sweep's
\* now; closing: the one whose grade is
\* being recorded; flushed: those finalized but not committed; fresh: those for which
\* the transaction found no grade row.
NoSweep == [pc |-> "idle", todo |-> {}, due |-> {}, closing |-> 0, flushed |-> {}, fresh |-> {}]

Init ==
    /\ status = [n \in Attempts |-> "absent"]
    /\ timed = {} /\ overdue = {} /\ graded = {}
    /\ sweep = NoSweep

Started == {n \in Attempts : status[n] # "absent"}
Locked(n) == n \in sweep.flushed

-----------------------------------------------------------------------------
(* Students and teachers *)

\* start_attempt freezes the timing of every attempt, timed or not.
Start(n, limit) ==
    /\ status[n] = "absent" /\ \A m \in Attempts : m < n => status[m] # "absent"
    /\ status' = [status EXCEPT ![n] = "in_progress"]
    /\ timed' = IF limit THEN timed \cup {n} ELSE timed
    /\ UNCHANGED <<overdue, graded, sweep>>

DeadlinePasses(n) ==
    /\ n \in timed \ overdue /\ status[n] = "in_progress"
    /\ overdue' = overdue \cup {n}
    /\ UNCHANGED <<status, timed, graded, sweep>>

Submit(n) ==
    /\ status[n] = "in_progress" /\ ~Locked(n)
    /\ status' = [status EXCEPT ![n] = "submitted"]
    /\ graded' = graded \cup {n}
    /\ UNCHANGED <<timed, overdue, sweep>>

\* A teacher's mark on another attempt of the same student records the first grade;
\* the unique index makes it wait for a row the sweep has inserted.
FirstGrade(n) ==
    /\ n \in Started \ graded
    /\ n \in sweep.flushed => n = sweep.closing
    /\ graded' = graded \cup {n}
    /\ UNCHANGED <<status, timed, overdue, sweep>>

-----------------------------------------------------------------------------
(* sweep_overdue *)

\* list_overdue_candidates: every attempt in progress has a timing snapshot; the
\* oldest BatchLimit of them are the batch.
Candidates ==
    LET active == {n \in Attempts : status[n] = "in_progress"}
    IN {n \in active : Cardinality({m \in active : m < n}) < BatchLimit}

SweepBegin ==
    /\ sweep.pc = "idle" /\ Candidates # {}
    /\ sweep' = [NoSweep EXCEPT !.pc = "running", !.todo = Candidates, !.due = overdue]
    /\ UNCHANGED <<status, timed, overdue, graded>>

Looking(n) == sweep.pc = "running" /\ sweep.closing = 0 /\ sweep.todo # {} /\ n = Min(sweep.todo)

\* Mutant: the first attempt that is not overdue ends the batch.
SweepSkipBreaks(n) ==
    /\ Looking(n) /\ n \notin sweep.due
    /\ sweep' = [sweep EXCEPT !.todo = {}]
    /\ UNCHANGED <<status, timed, overdue, graded>>

SweepSkip(n) ==
    /\ Looking(n) /\ n \notin sweep.due
    /\ sweep' = [sweep EXCEPT !.todo = @ \ {n}]
    /\ UNCHANGED <<status, timed, overdue, graded>>

\* _finalize_attempt flushes the attempt and reads the student's grade row.
SweepFinalize(n) ==
    /\ Looking(n) /\ n \in sweep.due
    /\ sweep' = [sweep EXCEPT !.todo = @ \ {n}, !.closing = n, !.flushed = @ \cup {n},
                              !.fresh = IF n \in graded THEN @ ELSE @ \cup {n}]
    /\ UNCHANGED <<status, timed, overdue, graded>>

SweepRecord ==
    /\ sweep.closing # 0
    /\ ~(sweep.closing \in sweep.fresh /\ sweep.closing \in graded)
    /\ sweep' = [sweep EXCEPT !.closing = 0]
    /\ UNCHANGED <<status, timed, overdue, graded>>

\* uq_quiz_grades_wholequiz refuses the INSERT: flush_or_conflict rolls the session
\* back and the exception leaves sweep_overdue.
SweepConflict ==
    /\ sweep.closing \in sweep.fresh /\ sweep.closing \in graded
    /\ sweep' = NoSweep
    /\ UNCHANGED <<status, timed, overdue, graded>>

SweepCommit ==
    /\ sweep.pc = "running" /\ sweep.closing = 0 /\ sweep.todo = {}
    /\ status' = [n \in Attempts |-> IF n \in sweep.flushed THEN "submitted" ELSE status[n]]
    /\ graded' = graded \cup sweep.flushed
    /\ sweep' = NoSweep
    /\ UNCHANGED <<timed, overdue>>

-----------------------------------------------------------------------------
Sweep == \/ SweepBegin
         \/ \E n \in Attempts : SweepSkip(n) \/ SweepFinalize(n)
         \/ SweepRecord \/ SweepConflict \/ SweepCommit

Next == \/ \E n \in Attempts, limit \in BOOLEAN : Start(n, limit)
        \/ \E n \in Attempts : DeadlinePasses(n) \/ Submit(n) \/ FirstGrade(n)
        \/ Sweep

\* Cron runs the task every minute and a running task goes on; students, teachers
\* and clocks owe nothing.
Spec == Init /\ [][Next]_vars /\ WF_vars(Sweep)

-----------------------------------------------------------------------------
(* Properties *)

\* "so a timed quiz closes even if the student never hits submit": whatever else is
\* in progress, and whichever batches fail, an overdue attempt is closed.
OverdueCloses == \A n \in Attempts : n \in overdue ~> status[n] = "submitted"
=============================================================================

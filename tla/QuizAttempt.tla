----------------------------- MODULE QuizAttempt -----------------------------
(* One student's attempts at one published quiz: starting, saving answers,     *)
(* submitting, the overdue sweep, manual marking and the grade of record       *)
(* (features/quizzes: taking, sweep, manual_grading, gradebook).  Every handler *)
(* is one transaction that loads rows, computes, flushes and commits.          *)
(*                                                                             *)
(* Database conventions the actions follow.  A transaction reads committed     *)
(* rows (READ COMMITTED), keeps each row it loaded in its identity map, and    *)
(* flushes by primary key the attributes whose value differs from the loaded   *)
(* one; no UPDATE tests the row's status.  A flushed row stays locked until    *)
(* commit.  A flush and the read that follows it are one step: whoever commits *)
(* between them cannot touch the locked row, so the flush may as well happen   *)
(* at the time of the read.  A final flush and the commit are one step too.    *)
EXTENDS Integers, FiniteSets, FiniteSetsExt

CONSTANTS MaxRows,         \* bound: attempt rows
          AttemptLimit,    \* effective_max: max_attempts, 1 without retakes
          Autoabandon,     \* overdue_handling = 'autoabandon'
          GradingMethod,   \* highest, first, last or average
          Questions,
          OpenQuestions,   \* short_answer and fill_blank
          CodeQuestions,
          Options, NoOption,
          RightOptions,    \* what the auto-grader accepts
          Marks,           \* what a teacher awards
          Sessions,        \* the student's requests running at the same time
          Graders,         \* teacher marking requests
          Sweepers         \* the sweep cron: at most one

ASSUME ConstantsAssumption ==
    /\ MaxRows \in Nat /\ AttemptLimit \in Nat \ {0}
    /\ Autoabandon \in BOOLEAN
    /\ GradingMethod \in {"highest", "first", "last", "average"}
    /\ IsFiniteSet(Questions)
    /\ OpenQuestions \subseteq Questions /\ CodeQuestions \subseteq Questions
    /\ NoOption \notin Options /\ RightOptions \subseteq Options
    /\ Marks \subseteq Nat
    /\ Sessions \cap Graders = {} /\ Sessions \cap Sweepers = {} /\ Graders \cap Sweepers = {}

VARIABLES attempt,   \* quiz_attempts
          answer,    \* quiz_attempt_answers
          grade,     \* the student's whole-quiz row of quiz_grades
          overdue,   \* attempts past their grace-extended deadline
          tx         \* transaction of each request, of the sweep and of each grader

vars == <<attempt, answer, grade, overdue, tx>>

Attempts == 1 .. MaxRows
Processes == Sessions \cup Graders \cup Sweepers
Null == -1
AttemptStatus == {"absent", "in_progress", "submitted", "graded", "expired"}

NoAttempt == [status |-> "absent", score |-> Null]
Unanswered == [choice |-> NoOption, points |-> 0, pending |-> FALSE, mark |-> Null]
NoGrade == [value |-> Null, based |-> 0, counted |-> 0]
Idle == [pc |-> "idle", n |-> 0, loaded |-> NoAttempt, new |-> NoAttempt,
         question |-> NoOption, row |-> Unanswered, newRow |-> Unanswered,
         grade |-> NoGrade, final |-> NoGrade]

Init ==
    /\ attempt = [n \in Attempts |-> NoAttempt]
    /\ answer = [n \in Attempts |-> [q \in Questions |-> Unanswered]]
    /\ grade = NoGrade
    /\ overdue = {}
    /\ tx = [p \in Processes |-> Idle]

-----------------------------------------------------------------------------
(* Rows and locks *)

\* What the UPDATE of a row loaded as old and now holding new leaves in the table.
Updated(row, old, new) ==
    [f \in DOMAIN row |-> IF new[f] # old[f] THEN new[f] ELSE row[f]]

Used == {n \in Attempts : attempt[n].status # "absent"}
Active == {n \in Attempts : attempt[n].status = "in_progress"}

\* Mutant: the quiz row is read without FOR UPDATE.
QuizLockedNever == FALSE

\* get_published_quiz(for_update=True): starts hold the quiz row.
QuizLocked == \E p \in Processes : tx[p].pc = "gated"

AttemptLocked(n) == \E p \in Processes : tx[p].pc = "recording" /\ tx[p].n = n

Marking(p) == p \in Graders /\ tx[p].pc \in {"closing", "recording"}
AnswerLocked(n, q) == \E p \in Processes : Marking(p) /\ tx[p].n = n /\ tx[p].question = q

Points(q, c) == IF c \in RightOptions /\ q \notin CodeQuestions THEN 1 ELSE 0
NeedsManualGrade(q, c) == q \in CodeQuestions \/ (q \in OpenQuestions /\ c \notin RightOptions)

\* _recompute_attempt_score, as a sum of points over the served questions.
Total(rows) == MapThenSumSet(LAMBDA q : rows[q].points, Questions)
Pending(rows) == {q \in Questions : rows[q].pending}

\* _compute_final_grade over the attempts in S; an average is its numerator, over
\* counted.
FinalGrade(S, score) ==
    LET based == CASE GradingMethod = "first" -> Min(S)
                   [] GradingMethod = "last" -> Max(S)
                   [] GradingMethod = "highest" ->
                        Min({n \in S : \A m \in S : score[m] <= score[n]})
                   [] OTHER -> 0
    IN IF S = {} THEN NoGrade
       ELSE [value |-> IF based = 0 THEN MapThenSumSet(LAMBDA n : score[n], S) ELSE score[based],
             based |-> based, counted |-> Cardinality(S)]

Counted(rows) == {n \in Attempts : rows[n].status \in {"submitted", "graded"} /\ rows[n].score # Null}

Step(p, t) == tx' = [tx EXCEPT ![p] = t]
At(p, pc) == tx[p].pc = pc

-----------------------------------------------------------------------------
(* Starting an attempt *)

\* get_quiz_for_taking: lock the quiz row, then count the attempts.
StartGate(p) ==
    /\ At(p, "idle") /\ ~QuizLocked
    /\ Cardinality(Used) < AttemptLimit
    /\ Step(p, [Idle EXCEPT !.pc = "gated"])
    /\ UNCHANGED <<attempt, answer, grade, overdue>>

\* The INSERT under uq_quiz_attempts_active, up to the router's commit.
StartInsert(p, n) ==
    /\ At(p, "gated")
    /\ Active = {}
    /\ n = Cardinality(Used) + 1
    /\ attempt' = [attempt EXCEPT ![n] = [status |-> "in_progress", score |-> Null]]
    /\ Step(p, Idle)
    /\ UNCHANGED <<answer, grade, overdue>>

\* An active attempt, a cooldown, or a session claim that Redis refuses.
StartRefused(p) ==
    /\ At(p, "gated")
    /\ Step(p, Idle)
    /\ UNCHANGED <<attempt, answer, grade, overdue>>

-----------------------------------------------------------------------------
(* Saving an answer *)

AnswerLoad(p, n, q, c) ==
    /\ At(p, "idle")
    /\ attempt[n].status = "in_progress"
    /\ Step(p, [Idle EXCEPT !.pc = "answering", !.n = n, !.question = q,
                            !.newRow = [Unanswered EXCEPT !.choice = c]])
    /\ UNCHANGED <<attempt, answer, grade, overdue>>

\* Grade the choice, then look for a stored row.
AnswerRead(p) ==
    LET t == tx[p]
        c == t.newRow.choice
        stored == answer[t.n][t.question]
    IN /\ At(p, "answering")
       /\ Step(p, [t EXCEPT !.pc = "saving", !.row = stored,
                            !.newRow = [stored EXCEPT !.choice = c,
                                                      !.points = Points(t.question, c),
                                                      !.pending = NeedsManualGrade(t.question, c)]])
       /\ UNCHANGED <<attempt, answer, grade, overdue>>

\* Mutant: the save writes back the status of the attempt it loaded.
AnswerSaveTouches(p) ==
    LET t == tx[p]
        stored == answer[t.n][t.question]
        refused == t.row = Unanswered /\ stored # Unanswered
    IN /\ At(p, "saving")
       /\ ~AnswerLocked(t.n, t.question)
       /\ answer' = IF refused THEN answer
                    ELSE [answer EXCEPT ![t.n][t.question] = Updated(stored, t.row, t.newRow)]
       /\ attempt' = IF refused THEN attempt ELSE [attempt EXCEPT ![t.n].status = "in_progress"]
       /\ Step(p, Idle)
       /\ UNCHANGED <<grade, overdue>>

\* INSERT, which uq_quiz_attempt_answers_question may refuse, or UPDATE; commit.
AnswerSave(p) ==
    LET t == tx[p]
        stored == answer[t.n][t.question]
        refused == t.row = Unanswered /\ stored # Unanswered
    IN /\ At(p, "saving")
       /\ ~AnswerLocked(t.n, t.question)
       /\ answer' = IF refused THEN answer
                    ELSE [answer EXCEPT ![t.n][t.question] = Updated(stored, t.row, t.newRow)]
       /\ Step(p, Idle)
       /\ UNCHANGED <<attempt, grade, overdue>>

-----------------------------------------------------------------------------
(* Closing an attempt: submit_attempt and sweep_overdue *)

DeadlinePasses(n) ==
    /\ attempt[n].status = "in_progress" /\ n \notin overdue
    /\ overdue' = overdue \cup {n}
    /\ UNCHANGED <<attempt, answer, grade, tx>>

CloseLoad(p, n) ==
    /\ At(p, "idle")
    /\ attempt[n].status = "in_progress"
    /\ Step(p, [Idle EXCEPT !.pc = "loaded", !.n = n, !.loaded = attempt[n]])
    /\ UNCHANGED <<attempt, answer, grade, overdue>>

SubmitLoad(p, n) == CloseLoad(p, n)
SweepLoad(p, n) == n \in overdue /\ CloseLoad(p, n)

\* Mutant: an attempt with answers to mark is left for the grader to close.
CloseReadMarkedOnly(p) ==
    LET t == tx[p]
        rows == answer[t.n]
    IN /\ At(p, "loaded")
       /\ Step(p, IF Pending(rows) # {} THEN Idle
                  ELSE [t EXCEPT !.pc = "closing",
                                 !.new = [status |-> "submitted", score |-> Total(rows)]])
       /\ UNCHANGED <<attempt, answer, grade, overdue>>

\* _expire_attempt keeps the score it loaded; _finalize_attempt reads the pending
\* answers and, when there is none, the points.
CloseRead(p) ==
    LET t == tx[p]
        rows == answer[t.n]
        new == IF t.n \in overdue /\ Autoabandon
               THEN [t.loaded EXCEPT !.status = "expired"]
               ELSE [status |-> "submitted",
                     score |-> IF Pending(rows) = {} THEN Total(rows) ELSE Null]
    IN /\ At(p, "loaded")
       /\ Step(p, [t EXCEPT !.pc = "closing", !.new = new])
       /\ UNCHANGED <<attempt, answer, grade, overdue>>

\* The attempt's row with what p flushed into it; p's answer row likewise.
Flushed(p) == [attempt EXCEPT ![tx[p].n] = Updated(@, tx[p].loaded, tx[p].new)]
FlushedAnswer(p) ==
    IF Marking(p)
    THEN [answer EXCEPT ![tx[p].n][tx[p].question] = Updated(@, tx[p].row, tx[p].newRow)]
    ELSE answer

Records(p) == tx[p].new.status # "expired" /\ tx[p].new.score # Null

\* Nothing to record in the gradebook: flush and commit.
CloseUngraded(p) ==
    LET t == tx[p] IN
    /\ At(p, "closing") /\ ~Records(p)
    /\ t.new # t.loaded => ~AttemptLocked(t.n)
    /\ attempt' = Flushed(p)
    /\ answer' = FlushedAnswer(p)
    /\ Step(p, Idle)
    /\ UNCHANGED <<grade, overdue>>

\* Mutant: the attempts are read before the flush (autoflush is off).
CloseFlushLate(p) ==
    LET t == tx[p] IN
    /\ At(p, "closing") /\ Records(p)
    /\ ~AttemptLocked(t.n)
    /\ Step(p, [t EXCEPT !.pc = "recording", !.grade = grade,
                         !.final = FinalGrade(Counted(attempt),
                                              [n \in Attempts |-> attempt[n].score])])
    /\ UNCHANGED <<attempt, answer, grade, overdue>>

\* Flush, then recompute_final_grade reads the attempts and the stored grade; the
\* attempt of this transaction keeps the score it has in memory.
CloseFlush(p) ==
    LET t == tx[p]
        rows == Flushed(p)
        scores == [n \in Attempts |-> IF n = t.n THEN t.new.score ELSE rows[n].score]
    IN /\ At(p, "closing") /\ Records(p)
       /\ ~AttemptLocked(t.n)
       /\ Step(p, [t EXCEPT !.pc = "recording", !.grade = grade,
                            !.final = FinalGrade(Counted(rows), scores)])
       /\ UNCHANGED <<attempt, answer, grade, overdue>>

\* The gradebook's INSERT, which uq_quiz_grades_wholequiz may refuse, or UPDATE;
\* commit.
Record(p) ==
    LET t == tx[p]
        refused == t.grade = NoGrade /\ grade # NoGrade
    IN /\ At(p, "recording")
       /\ IF refused THEN UNCHANGED <<attempt, answer, grade>>
          ELSE /\ attempt' = Flushed(p)
               /\ answer' = FlushedAnswer(p)
               /\ grade' = Updated(grade, t.grade, t.final)
       /\ Step(p, Idle)
       /\ UNCHANGED overdue

-----------------------------------------------------------------------------
(* Marking: grade_answer_manually, for answers of the teacher's queue *)

InQueue(n, q) ==
    /\ attempt[n].status \in {"submitted", "graded"}
    /\ answer[n][q].pending \/ answer[n][q].mark # Null

MarkLoad(p, n, q, k) ==
    /\ At(p, "idle")
    /\ InQueue(n, q)
    /\ Step(p, [Idle EXCEPT !.pc = "marking", !.n = n, !.question = q, !.row = answer[n][q],
                            !.newRow = [answer[n][q] EXCEPT !.mark = k, !.points = k,
                                                            !.pending = FALSE]])
    /\ UNCHANGED <<attempt, answer, grade, overdue>>

\* Mutant: the queries run before the mark is flushed (autoflush is off).
MarkFlushLate(p) ==
    LET t == tx[p]
        rows == answer[t.n]
        row == attempt[t.n]
    IN /\ At(p, "marking")
       /\ ~AnswerLocked(t.n, t.question)
       /\ Step(p, [t EXCEPT !.pc = "closing", !.loaded = row,
                            !.new = IF Pending(rows) = {}
                                    THEN [status |-> "graded", score |-> Total(rows)]
                                    ELSE [row EXCEPT !.score = Null]])
       /\ UNCHANGED <<attempt, answer, grade, overdue>>

\* Mutant: the sum is taken over answers read before the mark.
MarkFlushStaleSum(p) ==
    LET t == tx[p]
        rows == [answer[t.n] EXCEPT ![t.question] = Updated(@, t.row, t.newRow)]
        row == attempt[t.n]
    IN /\ At(p, "marking")
       /\ ~AnswerLocked(t.n, t.question)
       /\ Step(p, [t EXCEPT !.pc = "closing", !.loaded = row,
                            !.new = IF Pending(rows) = {}
                                    THEN [status |-> "graded", score |-> Total(answer[t.n])]
                                    ELSE [row EXCEPT !.score = Null]])
       /\ UNCHANGED <<attempt, answer, grade, overdue>>

\* Flush the answer, load the attempt, look for answers still pending.
MarkFlush(p) ==
    LET t == tx[p]
        stored == Updated(answer[t.n][t.question], t.row, t.newRow)
        rows == [answer[t.n] EXCEPT ![t.question] = stored]
        seen == [rows EXCEPT ![t.question] = t.newRow]
        row == attempt[t.n]
    IN /\ At(p, "marking")
       /\ ~AnswerLocked(t.n, t.question)
       /\ Step(p, [t EXCEPT !.pc = "closing", !.loaded = row,
                            !.new = IF Pending(rows) = {}
                                    THEN [status |-> "graded", score |-> Total(seen)]
                                    ELSE [row EXCEPT !.score = Null]])
       /\ UNCHANGED <<attempt, answer, grade, overdue>>

-----------------------------------------------------------------------------
Begin(p) ==
    \/ p \in Sessions /\ \/ StartGate(p)
                         \/ \E n \in Attempts : SubmitLoad(p, n)
                         \/ \E n \in Attempts, q \in Questions, c \in Options : AnswerLoad(p, n, q, c)
    \/ p \in Sweepers /\ \E n \in Attempts : SweepLoad(p, n)
    \/ p \in Graders /\ \E n \in Attempts, q \in Questions, k \in Marks : MarkLoad(p, n, q, k)

\* What a running handler goes on to do.
Continue(p) ==
    \/ \E n \in Attempts : StartInsert(p, n)
    \/ StartRefused(p)
    \/ AnswerRead(p) \/ AnswerSave(p)
    \/ CloseRead(p) \/ CloseUngraded(p) \/ CloseFlush(p) \/ Record(p)
    \/ MarkFlush(p)

Next == \/ \E p \in Processes : Begin(p) \/ Continue(p)
        \/ \E n \in Attempts : DeadlinePasses(n)

Spec == Init /\ [][Next]_vars

\* Running handlers go on, PostgreSQL grants a row lock to its waiters in turn, and
\* cron runs the sweep every minute.
Fairness ==
    /\ \A p \in Processes : SF_vars(Continue(p))
    /\ \A p \in Sweepers, n \in Attempts : WF_vars(SweepLoad(p, n))

FairSpec == Spec /\ Fairness

-----------------------------------------------------------------------------
(* Properties *)

\* Concurrent starts, whatever is submitted, swept or marked between their steps,
\* never open more attempts than the limit, nor a second one beside an active one.
AttemptsWithinLimit == Cardinality(Used) <= AttemptLimit /\ Cardinality(Active) <= 1

Phase(n) == CASE attempt[n].status = "absent" -> "none"
              [] attempt[n].status = "in_progress" -> "open"
              [] OTHER -> "closed"

\* The ledger the rows of a student's attempts are read as.
Ledger == INSTANCE AttemptLedger WITH
    Rows <- Attempts, Limit <- AttemptLimit, phase <- [n \in Attempts |-> Phase(n)]

\* Whatever starts, saves, submissions, sweeps and marks interleave, and whatever row
\* each of them had loaded, attempts are opened in order and a closed one, be it
\* submitted, graded or expired, is never in progress again.
AttemptsSpec == Ledger!Spec

Quiet == \A p \in Processes : tx[p].pc \in {"idle", "gated"}
AllMarked(n) == Pending(answer[n]) = {}
Closed(n) == attempt[n].status \in {"submitted", "graded"}

\* Once no handler is running and nothing is left to mark, a closed attempt has
\* its score ("flip the attempt status to graded" when nothing needs grading).
ScoredOnceMarked ==
    Quiet => \A n \in Attempts : Closed(n) /\ AllMarked(n) => attempt[n].score # Null

\* Once no handler is running and nothing is left to mark, the gradebook row is
\* what the attempts reduce to ("never drifts from the underlying attempts").
GradebookMatchesAttempts ==
    Quiet /\ (\A n \in Attempts : AllMarked(n)) =>
        grade = FinalGrade(Counted(attempt), [n \in Attempts |-> attempt[n].score])

\* The score of a closed attempt is the sum of the points of its stored answers.
ScoreMatchesAnswers ==
    Quiet => \A n \in Attempts :
        Closed(n) /\ attempt[n].score # Null => attempt[n].score = Total(answer[n])

\* A timed attempt past its deadline is closed even if the student never submits.
OverdueCloses ==
    \A n \in Attempts : n \in overdue ~> attempt[n].status # "in_progress"
=============================================================================

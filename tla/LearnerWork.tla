----------------------------- MODULE LearnerWork -----------------------------
(* What becomes of a learner's work: the requests that take the sessions of an *)
(* interview, what judges one that has ended, and the marking of quiz           *)
(* attempts.  They share no row but the status of a session; a behaviour is     *)
(* one of the three, part, and the others' variables keep their initial values. *)
EXTENDS InterviewEvaluation

\* InterviewSession.
CONSTANTS Tabs, Starts, Requests, NoTab, LastQuestion, LastStage, MaxAttempts, MaxFollowUps,
          MaxSessions, MaxKeys, MaxFailures

\* QuizAttempt; its Sweepers are Crons.
CONSTANTS AttemptLimit, Autoabandon, GradingMethod, Questions, OpenQuestions, CodeQuestions,
          Options, RightOptions, NoOption, Marks, Sessions, Graders, Crons, MaxRows

ASSUME TakingAssumption ==
    /\ LastQuestion \in Nat /\ LastStage \in Nat /\ MaxAttempts \in Nat
    /\ MaxSessions \in Nat /\ MaxKeys \in Nat

\* QuizAttempt's ConstantsAssumption.
ASSUME MarkingAssumption ==
    /\ MaxRows \in Nat /\ AttemptLimit \in Nat \ {0}
    /\ Autoabandon \in BOOLEAN
    /\ GradingMethod \in {"highest", "first", "last", "average"}
    /\ IsFiniteSet(Questions)
    /\ OpenQuestions \subseteq Questions /\ CodeQuestions \subseteq Questions
    /\ NoOption \notin Options /\ RightOptions \subseteq Options
    /\ Marks \subseteq Nat
    /\ Sessions \cap Graders = {} /\ Sessions \cap Crons = {} /\ Graders \cap Crons = {}

VARIABLES part, sessions, start, request, tab, keys, failures,
          attempt, answer, grade, overdue, tx

takingVars == <<sessions, start, request, tab, keys, failures>>
markingVars == <<attempt, answer, grade, overdue, tx>>
allVars == <<part, vars, takingVars, markingVars>>

Taking == INSTANCE InterviewSession WITH
    session <- sessions, faults <- failures, MaxFaults <- MaxFailures

Marking == INSTANCE QuizAttempt WITH Sweepers <- Crons

WorkInit ==
    /\ part \in {"taking", "judging", "marking"}
    /\ Init /\ Taking!Init /\ Marking!Init

WorkNext ==
    \/ part = "judging" /\ Next /\ UNCHANGED <<part, takingVars, markingVars>>
    \/ part = "taking" /\ Taking!Next /\ UNCHANGED <<part, vars, markingVars>>
    \/ part = "marking" /\ Marking!Next /\ UNCHANGED <<part, vars, takingVars>>

WorkSpec == WorkInit /\ [][WorkNext]_allVars

OneLive == Taking!OneLive
NoQuestionSkipped == Taking!NoQuestionSkipped
OnboardingForward == Taking!OnboardingForward
ScoredOnceMarked == Marking!ScoredOnceMarked
ScoreMatchesAnswers == Marking!ScoreMatchesAnswers
=============================================================================

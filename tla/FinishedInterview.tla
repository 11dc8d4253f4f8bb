-------------------------- MODULE FinishedInterview --------------------------
(* What follows the end of an interview session: the fate of its recording and *)
(* its evaluation.  They share no row but the session's status, which each     *)
(* moves by itself; a behaviour is one of the two, part, and the other's       *)
(* variables keep their initial values.                                        *)
EXTENDS InterviewRecording

CONSTANTS MaxRecovery, MaxTries, MaxJobs, Finishers, Sweepers, Receipts,
          JudgeFaults, MaxJudgeFaults, LeaseOutlivesJob

VARIABLES part, session, applied, late, graded, arq, tries, accepted, run, sweep, finish, failures

evaluationVars ==
    <<session, applied, late, graded, arq, tries, accepted, run, sweep, finish, failures>>
allVars == <<part, vars, evaluationVars>>

Evaluation == INSTANCE InterviewEvaluation WITH
    faults <- failures, Faults <- JudgeFaults, MaxFaults <- MaxJudgeFaults

\* InterviewEvaluation's ConstantsAssumption.
ASSUME EvaluationAssumption ==
    /\ MaxRecovery \in Nat /\ MaxTries \in Nat \ {0} /\ MaxJobs \in Nat
    /\ JudgeFaults \subseteq Evaluation!FaultKinds /\ MaxJudgeFaults \in Nat
    /\ LeaseOutlivesJob \in BOOLEAN

Taping(A) == part = "recording" /\ A /\ UNCHANGED <<part, evaluationVars>>
Evaluating(A) == part = "evaluation" /\ A /\ UNCHANGED <<part, vars>>

FinishedInit ==
    /\ part \in {"recording", "evaluation"}
    /\ Init /\ Evaluation!Init
    /\ part = "evaluation" => consent = "declined"

\* The fairness of the two.
FinishedSpec ==
    /\ FinishedInit /\ [][Taping(Next) \/ Evaluating(Evaluation!Next)]_allVars
    /\ WF_allVars(Taping(Reconcile))
    /\ WF_allVars(Taping(Retain))
    /\ \A e \in Egresses : WF_allVars(Taping(EgressEnds(e)))
    /\ \A f \in Finishers :
         WF_allVars(Evaluating(\/ Evaluation!DispatchJob(f) \/ Evaluation!RecordMissing(f)
                               \/ Evaluation!StampRedriven(f)))
    /\ \A j \in Evaluation!JobIds : WF_allVars(Evaluating(Evaluation!JobStep(j)))
    /\ WF_allVars(Evaluating(Evaluation!LeaseLapses))
    /\ \A s \in Sweepers : WF_allVars(Evaluating(Evaluation!SweepStep(s)))

OneGrader == Evaluation!OneGrader
BudgetSpentOnJobs == Evaluation!BudgetSpentOnJobs
Settles == Evaluation!Settles
=============================================================================

------------------------- MODULE InterviewEvaluation -------------------------
(* The evaluation of one finished interview session (features/interviews:      *)
(* services/taking, lifecycle, evaluation; queries/evaluation_recovery): the   *)
(* finishing requests that dispatch it, the ARQ jobs that judge it under a     *)
(* lease, and the five-minute sweep that re-drives it when no verdict came.    *)
(* A step is one transaction, or one call to Redis.                            *)
EXTENDS Integers, FiniteSets

CONSTANTS MaxRecovery,       \* MAX_EVALUATION_RECOVERY_ATTEMPTS
          MaxTries,          \* EVALUATION_MAX_TRIES
          MaxJobs,           \* bound: recovery job ids
          Finishers,         \* requests that finish the session
          Sweepers,          \* runs of the sweep that may overlap
          Receipts,          \* answers of the student
          Faults,            \* kinds of failure that may happen
          MaxFaults,         \* bound: how many failures
          LeaseOutlivesJob   \* EVALUATION_LEASE_SECONDS > WorkerSettings.job_timeout

FaultKinds == {"provider", "killed", "shutdown", "timeout",
               "dispatch", "lost", "enqueue", "sweep crash"}

ASSUME ConstantsAssumption ==
    /\ MaxRecovery \in Nat /\ MaxTries \in Nat \ {0} /\ MaxJobs \in Nat
    /\ Faults \subseteq FaultKinds /\ MaxFaults \in Nat
    /\ LeaseOutlivesJob \in BOOLEAN

VARIABLES session,   \* the row of interview_sessions, with its recovery record
          applied,   \* receipts in state applied
          late,      \* those applied after evaluated_at
          graded,    \* those the published verdict was judged on
          arq,       \* ARQ's state of each job id
          tries,     \* ARQ's job_try of each job id
          accepted,  \* history: job ids ARQ ever accepted
          run,       \* execution of each job
          sweep,     \* each run of the sweep, at its candidate
          finish,    \* each finishing request
          faults     \* failures so far

vars == <<session, applied, late, graded, arq, tries, accepted, run, sweep, finish, faults>>

JobIds == 0 .. MaxJobs       \* evaluation_job_id: 0, or recover-1, recover-2 ...
NoJob == -1
NoClaim == -1
Orphan == -2                 \* the unexpired claim of an execution that died
Owners == JobIds \cup {NoClaim, Orphan}

Status == {"in_progress", "completed", "timed_out", "abandoned", "failed"}
Gradeable == {"completed", "timed_out", "failed"}
ActivePhases == {"dispatching", "queued", "running", "retrying"}
Phases == ActivePhases \cup {"none", "succeeded", "failed", "missing"}

\* evaluation_recovery.current
Dispatch(j, phase) == [job |-> j, phase |-> phase]
NoDispatch == Dispatch(NoJob, "none")
NewSession == [status |-> "in_progress", verdict |-> "none", claim |-> NoClaim,
               attempts |-> 0, current |-> NoDispatch]
\* What an execution and the sweep use of the row as they loaded it.
Snapshot(row) == [status |-> row.status, attempts |-> row.attempts, current |-> row.current]
NoRun == [pc |-> "idle", loaded |-> Snapshot(NewSession), answers |-> {}, outcome |-> "none"]
Ended(outcome) == [NoRun EXCEPT !.pc = "settling", !.outcome = outcome]
NoCandidate == [pc |-> "idle", seen |-> 0, attempt |-> 0]

Init ==
    /\ session = NewSession
    /\ applied = {} /\ late = {} /\ graded = {}
    /\ arq = [j \in JobIds |-> "none"] /\ tries = [j \in JobIds |-> 0] /\ accepted = {}
    /\ run = [j \in JobIds |-> NoRun]
    /\ sweep = [s \in Sweepers |-> NoCandidate]
    /\ finish = [f \in Finishers |-> "idle"]
    /\ faults = 0

-----------------------------------------------------------------------------
(* The row and its guards *)

\* A verdict is absent, or was retired for a late answer (pass_verdict NULL, the
\* evaluated_at of the retired one kept).
Ungraded == session.verdict # "given"

Claimable == Ungraded /\ session.claim = NoClaim
InFlight == session.current.phase \in ActivePhases

\* list_pending_evaluation_sessions.  The 15 minutes of grace outlast the first
\* dispatch.  The row it returns is never InFlight, so _reconcile_current_phase,
\* which only acts on an active phase, does nothing.
Recoverable ==
    /\ session.status \in Gradeable
    /\ Ungraded \/ late # {}
    /\ session.attempts < MaxRecovery
    /\ session.claim = NoClaim /\ ~InFlight
    /\ \A f \in Finishers : finish[f] # "dispatch"

\* transition_evaluation_recovery_phase: a CAS on the job and the phase.
Moved(row, j, from, to) ==
    IF row.current.job = j /\ row.current.phase \in from
    THEN [row EXCEPT !.current.phase = to] ELSE row

\* release_session_evaluation_claim, scoped to the token.
Released(row, j) == IF row.claim = j THEN [row EXCEPT !.claim = NoClaim] ELSE row

\* enqueue_job: refused while the id has a job or a kept result.
Accepts(j) == arq[j] = "none"
Enqueue(j) ==
    /\ arq' = [arq EXCEPT ![j] = "queued"]
    /\ accepted' = accepted \cup {j}
Refuse == UNCHANGED <<arq, accepted>>

Fault(kind) ==
    /\ kind \in Faults /\ faults < MaxFaults
    /\ faults' = faults + 1

Running(j, pc) == run[j].pc = pc
RunSteps(j, pc) == run' = [run EXCEPT ![j].pc = pc]
SweepSteps(s, pc) == sweep' = [sweep EXCEPT ![s].pc = pc]
FinishSteps(f, pc) == finish' = [finish EXCEPT ![f] = pc]

answers == <<applied, late, graded>>
jobs == <<arq, tries, accepted, run>>

-----------------------------------------------------------------------------
(* Answers and the finish *)

\* mark_receipt_applied; a typed turn may be folded after the session has ended.
\* It postdates the verdict when there is an evaluated_at.
ApplyReceipt(r) ==
    /\ r \notin applied
    /\ applied' = applied \cup {r}
    /\ late' = IF session.verdict = "none" THEN late ELSE late \cup {r}
    /\ UNCHANGED <<session, graded, jobs, sweep, finish, faults>>

\* terminalize_in_progress_session and finalize_expired_in_progress_session: one
\* finisher moves the row; an abandoned session is not dispatched.
Finish(f, status) ==
    /\ finish[f] = "idle" /\ session.status = "in_progress"
    /\ session' = [session EXCEPT !.status = status]
    /\ FinishSteps(f, IF status = "abandoned" THEN "idle" ELSE "dispatch")
    /\ UNCHANGED <<answers, jobs, sweep, faults>>

\* submit_session of a terminal row: the loser of the race, or a client retry.  It
\* dispatches again only when the record says the dispatch is missing.
Refinish(f) ==
    /\ finish[f] = "idle" /\ session.status # "in_progress"
    /\ session.current.phase = "missing"
    /\ FinishSteps(f, "redrive")
    /\ UNCHANGED <<session, answers, jobs, sweep, faults>>

\* dispatch_evaluation_or_record_missing: the job of the session's own id.
DispatchJob(f) ==
    /\ finish[f] \in {"dispatch", "redrive"}
    /\ IF Accepts(0) THEN Enqueue(0) ELSE Refuse
    /\ FinishSteps(f, IF finish[f] = "redrive" /\ Accepts(0) THEN "stamp" ELSE "idle")
    /\ UNCHANGED <<session, answers, tries, run, sweep, faults>>

DispatchFails(f) ==
    /\ finish[f] \in {"dispatch", "redrive"}
    /\ Fault("dispatch")
    /\ FinishSteps(f, "record")
    /\ UNCHANGED <<session, answers, jobs, sweep>>

\* The deadline sweep does not record an enqueue that raised.
DispatchLost(f) ==
    /\ finish[f] = "dispatch"
    /\ Fault("lost")
    /\ FinishSteps(f, "idle")
    /\ UNCHANGED <<session, answers, jobs, sweep>>

RecordMissing(f) ==
    /\ finish[f] = "record"
    /\ session' = [session EXCEPT !.current = Dispatch(0, "missing")]
    /\ FinishSteps(f, "idle")
    /\ UNCHANGED <<answers, jobs, sweep, faults>>

StampRedriven(f) ==
    /\ finish[f] = "stamp"
    /\ session' = Moved(session, 0, {"missing"}, "queued")
    /\ FinishSteps(f, "idle")
    /\ UNCHANGED <<answers, jobs, sweep, faults>>

-----------------------------------------------------------------------------
(* An execution of evaluate_interview_session_task *)

\* ARQ starts the job; the task moves its own record to running.
Pick(j) ==
    /\ arq[j] = "queued" /\ tries[j] < MaxTries
    /\ arq' = [arq EXCEPT ![j] = "running"]
    /\ tries' = [tries EXCEPT ![j] = @ + 1]
    /\ session' = Moved(session, j, ActivePhases, "running")
    /\ RunSteps(j, "picked")
    /\ UNCHANGED <<answers, accepted, sweep, finish, faults>>

\* ARQ fails a job over its budget without running it.
PickRefused(j) ==
    /\ arq[j] = "queued" /\ tries[j] = MaxTries
    /\ arq' = [arq EXCEPT ![j] = "done"]
    /\ UNCHANGED <<session, answers, tries, accepted, run, sweep, finish, faults>>

\* get_session: the ORM row, which later statements do not refresh.
Load(j) ==
    /\ Running(j, "picked")
    /\ run' = [run EXCEPT ![j].pc = "loaded", ![j].loaded = Snapshot(session)]
    /\ UNCHANGED <<session, answers, arq, tries, accepted, sweep, finish, faults>>

\* claim_session_evaluation; a job that does not win it ends as a success.
Claim(j) ==
    /\ Running(j, "loaded")
    /\ IF Claimable
       THEN /\ session' = [session EXCEPT !.claim = j]
            /\ RunSteps(j, "claimed")
       ELSE /\ run' = [run EXCEPT ![j] = Ended("succeeded")]
            /\ UNCHANGED session
    /\ UNCHANGED <<answers, arq, tries, accepted, sweep, finish, faults>>

\* _list_candidate_answers, then minutes of calls to the judge.
Judge(j) ==
    /\ Running(j, "claimed")
    /\ run' = [run EXCEPT ![j].pc = "judging", ![j].answers = applied]
    /\ UNCHANGED <<session, answers, arq, tries, accepted, sweep, finish, faults>>

\* Mutant: holds_session_evaluation_claim is not consulted.
HoldsAnyway(j) == j \in JobIds

Holds(j) == session.claim = j

\* _stamp_session_summary writes the whole summary back from the row as loaded, the
\* recovery record included, and judges by that row whether the status is failed.
Stamped(loaded) ==
    [session EXCEPT !.verdict = "given", !.claim = NoClaim,
                    !.attempts = loaded.attempts, !.current = loaded.current,
                    !.status = IF loaded.status = "failed" THEN "completed" ELSE @]

\* The publishing transaction; no receipt postdates its evaluated_at.
Publish(j) ==
    /\ Running(j, "judging")
    /\ run' = [run EXCEPT ![j] = Ended("succeeded")]
    /\ IF Holds(j)
       THEN /\ session' = Stamped(run[j].loaded)
            /\ graded' = run[j].answers
            /\ late' = {}
       ELSE UNCHANGED <<session, graded, late>>
    /\ UNCHANGED <<applied, arq, tries, accepted, sweep, finish, faults>>

\* _record_evaluation_failure: only the owner writes; the last try marks the status.
FailureTrail(j) ==
    IF Holds(j) /\ tries[j] = MaxTries THEN [Released(session, j) EXCEPT !.status = "failed"]
    ELSE Released(session, j)

Fail(j) ==
    /\ run[j].pc \in {"claimed", "judging"}
    /\ Fault("provider")
    /\ session' = FailureTrail(j)
    /\ run' = [run EXCEPT ![j] = Ended(IF tries[j] = MaxTries THEN "failed" ELSE "retrying")]
    /\ UNCHANGED <<answers, arq, tries, accepted, sweep, finish>>

\* The record follows the outcome; Retry puts the job back in the queue.
Settle(j) ==
    /\ Running(j, "settling")
    /\ session' = Moved(session, j, {"running"}, run[j].outcome)
    /\ arq' = [arq EXCEPT ![j] = IF run[j].outcome = "retrying" THEN "queued" ELSE "done"]
    /\ run' = [run EXCEPT ![j] = NoRun]
    /\ UNCHANGED <<answers, tries, accepted, sweep, finish, faults>>

\* The worker process dies; ARQ picks the job again once its in-progress key lapses.
Killed(j) ==
    /\ ~Running(j, "idle")
    /\ Fault("killed")
    /\ session' = IF session.claim = j THEN [session EXCEPT !.claim = Orphan] ELSE session
    /\ arq' = [arq EXCEPT ![j] = "queued"]
    /\ run' = [run EXCEPT ![j] = NoRun]
    /\ UNCHANGED <<answers, tries, accepted, sweep, finish>>

\* A shutdown cancels the task: the claim is released and ARQ queues the job again.
Cancelled(j) ==
    /\ ~Running(j, "idle")
    /\ Fault("shutdown")
    /\ session' = Released(session, j)
    /\ arq' = [arq EXCEPT ![j] = "queued"]
    /\ run' = [run EXCEPT ![j] = NoRun]
    /\ UNCHANGED <<answers, tries, accepted, sweep, finish>>

\* job_timeout cancels the task: the claim is released and the job is over.
TimedOut(j) ==
    /\ Running(j, "judging")
    /\ Fault("timeout")
    /\ session' = Released(session, j)
    /\ arq' = [arq EXCEPT ![j] = "done"]
    /\ run' = [run EXCEPT ![j] = NoRun]
    /\ UNCHANGED <<answers, tries, accepted, sweep, finish>>

\* Mutant: the lease is shorter than an execution.
LapsesEarly == session.claim # NoClaim

\* The lease of a dead execution runs out, and that of a live one when it is too short.
Lapses ==
    \/ session.claim = Orphan
    \/ session.claim \in JobIds /\ run[session.claim].pc = "judging" /\ ~LeaseOutlivesJob

LeaseLapses ==
    /\ Lapses
    /\ session' = [session EXCEPT !.claim = NoClaim]
    /\ UNCHANGED <<answers, jobs, sweep, finish, faults>>

\* keep_result_seconds: ARQ forgets a finished job, its tries included.
ResultExpires(j) ==
    /\ arq[j] = "done"
    /\ arq' = [arq EXCEPT ![j] = "none"]
    /\ tries' = [tries EXCEPT ![j] = 0]
    /\ UNCHANGED <<session, answers, accepted, run, sweep, finish, faults>>

-----------------------------------------------------------------------------
(* recover_stalled_evaluations, at this session *)

Select(s) ==
    /\ sweep[s].pc = "idle" /\ Recoverable
    /\ sweep' = [sweep EXCEPT ![s] =
           [pc |-> IF Ungraded THEN "charge" ELSE "retire", seen |-> session.attempts, attempt |-> 0]]
    /\ UNCHANGED <<session, answers, jobs, finish, faults>>

\* invalidate_stale_verdict, which looks for the late receipt again.
Retire(s) ==
    /\ sweep[s].pc = "retire"
    /\ session' = IF late # {} THEN [session EXCEPT !.verdict = "retired"] ELSE session
    /\ SweepSteps(s, "charge")
    /\ UNCHANGED <<answers, jobs, finish, faults>>

NextAttempt == session.attempts + 1

\* stamp_evaluation_recovery_attempt: the attempt is spent before the job exists.
Charge(s) ==
    /\ sweep[s].pc = "charge"
    /\ Claimable => InFlight \/ session.attempts < MaxJobs
    /\ IF Claimable /\ ~InFlight
       THEN LET attempt == NextAttempt IN
            /\ session' = [session EXCEPT !.attempts = attempt,
                                          !.current = Dispatch(attempt, "dispatching")]
            /\ sweep' = [sweep EXCEPT ![s].pc = "enqueue", ![s].attempt = attempt]
       ELSE /\ UNCHANGED session
            /\ sweep' = [sweep EXCEPT ![s] = NoCandidate]
    /\ UNCHANGED <<answers, jobs, finish, faults>>

EnqueueJob(s) ==
    /\ sweep[s].pc = "enqueue"
    /\ LET j == sweep[s].attempt IN
       /\ IF Accepts(j) THEN Enqueue(j) ELSE Refuse
       /\ SweepSteps(s, IF Accepts(j) THEN "mark" ELSE "refund")
    /\ UNCHANGED <<session, answers, tries, run, finish, faults>>

EnqueueFails(s) ==
    /\ sweep[s].pc = "enqueue"
    /\ Fault("enqueue")
    /\ SweepSteps(s, "refund")
    /\ UNCHANGED <<session, answers, jobs, finish>>

MarkQueued(s) ==
    /\ sweep[s].pc = "mark"
    /\ session' = Moved(session, sweep[s].attempt, {"dispatching"}, "queued")
    /\ sweep' = [sweep EXCEPT ![s] = NoCandidate]
    /\ UNCHANGED <<answers, jobs, finish, faults>>

\* Mutant: nothing is given back.
RefundedNothing(s) == session

\* Mutant: the count is given back and the dispatching record stays.
RefundedCount(s) ==
    IF session.attempts = sweep[s].attempt
    THEN [session EXCEPT !.attempts = sweep[s].seen] ELSE session

\* refund_evaluation_recovery_attempt: the record as the candidate query saw it,
\* unless another attempt has been charged since.
Refunded(s) ==
    IF session.attempts = sweep[s].attempt
    THEN [session EXCEPT !.attempts = sweep[s].seen, !.current = NoDispatch]
    ELSE session

Refund(s) ==
    /\ sweep[s].pc = "refund"
    /\ session' = Refunded(s)
    /\ sweep' = [sweep EXCEPT ![s] = NoCandidate]
    /\ UNCHANGED <<answers, jobs, finish, faults>>

SweepCrashes(s) ==
    /\ sweep[s].pc # "idle"
    /\ Fault("sweep crash")
    /\ sweep' = [sweep EXCEPT ![s] = NoCandidate]
    /\ UNCHANGED <<session, answers, jobs, finish>>

-----------------------------------------------------------------------------
JobStep(j) == \/ Pick(j) \/ PickRefused(j) \/ Load(j) \/ Claim(j) \/ Judge(j)
              \/ Publish(j) \/ Settle(j) \/ ResultExpires(j)
JobFault(j) == Fail(j) \/ Killed(j) \/ Cancelled(j) \/ TimedOut(j)
SweepStep(s) == \/ Select(s) \/ Retire(s) \/ Charge(s) \/ EnqueueJob(s)
                \/ MarkQueued(s) \/ Refund(s)
SweepFault(s) == EnqueueFails(s) \/ SweepCrashes(s)
FinishStep(f) == Refinish(f) \/ DispatchJob(f) \/ RecordMissing(f) \/ StampRedriven(f)
FinishFault(f) == DispatchFails(f) \/ DispatchLost(f)

Next ==
    \/ \E r \in Receipts : ApplyReceipt(r)
    \/ \E f \in Finishers, status \in {"completed", "timed_out", "abandoned"} :
          Finish(f, status)
    \/ \E f \in Finishers : FinishStep(f) \/ FinishFault(f)
    \/ \E j \in JobIds : JobStep(j) \/ JobFault(j)
    \/ LeaseLapses
    \/ \E s \in Sweepers : SweepStep(s) \/ SweepFault(s)

Spec == Init /\ [][Next]_vars

\* Requests, ARQ's workers and the sweep's cron go on; time passes for leases and
\* results.  Nothing makes a student finish, answer, or submit again.
Fairness ==
    /\ \A f \in Finishers : WF_vars(DispatchJob(f) \/ RecordMissing(f) \/ StampRedriven(f))
    /\ \A j \in JobIds : WF_vars(JobStep(j))
    /\ WF_vars(LeaseLapses)
    /\ \A s \in Sweepers : WF_vars(SweepStep(s))

FairSpec == Spec /\ Fairness

-----------------------------------------------------------------------------
(* Properties *)

RunPcs == {"idle", "picked", "loaded", "claimed", "judging", "settling"}
SweepPcs == {"idle", "retire", "charge", "enqueue", "mark", "refund"}
FinishPcs == {"idle", "dispatch", "redrive", "record", "stamp"}

SnapshotType == [status : Status, attempts : Nat,
                 current : [job : JobIds \cup {NoJob}, phase : Phases]]
SessionType == [status : Status, verdict : {"none", "given", "retired"}, claim : Owners,
                attempts : Nat, current : [job : JobIds \cup {NoJob}, phase : Phases]]

\* Every row, record and program counter keeps its type.
TypeOK ==
    /\ session \in SessionType
    /\ applied \subseteq Receipts /\ late \subseteq applied /\ graded \subseteq applied
    /\ arq \in [JobIds -> {"none", "queued", "running", "done"}]
    /\ tries \in [JobIds -> 0 .. MaxTries]
    /\ accepted \subseteq JobIds
    /\ run \in [JobIds -> [pc : RunPcs, loaded : SnapshotType, answers : SUBSET applied,
                           outcome : {"none", "succeeded", "failed", "retrying"}]]
    /\ sweep \in [Sweepers -> [pc : SweepPcs, seen : Nat, attempt : 0 .. MaxJobs]]
    /\ finish \in [Finishers -> FinishPcs]
    /\ faults \in 0 .. MaxFaults

\* A published verdict is not judged again, and the failure of another execution does
\* not relabel its session, unless an answer arrived after it: then the sweep retires
\* it first (evaluation.py: the claim, and the ownership check before each write).
VerdictStands ==
    [][session.verdict = "given" =>
          \/ /\ session'.verdict = "given" /\ graded' = graded
             /\ session'.status = "failed" => session.status = "failed"
          \/ session'.verdict = "retired" /\ late # {} /\ graded' = graded]_vars

\* Two executions never judge the session at the same time, whichever jobs the
\* finish, the retries and the sweep have queued (evaluation_claim.py).
OneGrader ==
    \A j, k \in JobIds :
        run[j].pc \in {"claimed", "judging"} /\ run[k].pc \in {"claimed", "judging"} => j = k

\* The recovery loop is bounded, and outside a dispatch every attempt charged to an
\* ungraded session is a job ARQ took: an outage of Redis does not use up the
\* student's attempts (lifecycle.py).
BudgetSpentOnJobs ==
    /\ session.attempts <= MaxRecovery
    /\ Ungraded /\ (\A s \in Sweepers : sweep[s].pc = "idle") =>
         1 .. session.attempts \subseteq accepted

Exhausted == session.attempts >= MaxRecovery /\ ~InFlight /\ session.claim = NoClaim

\* A finished session gets a verdict, or its recovery attempts are used up.
Settles == session.status \in Gradeable ~> (session.verdict = "given" \/ Exhausted)
=============================================================================

---------------------- MODULE InterviewEvaluationProofs ----------------------
(* Theorems about InterviewEvaluation, for every number of jobs, sweeps,       *)
(* requests, answers and failures: the types, one grader at a time, a          *)
(* published verdict that stands, and a recovery budget spent on jobs only.    *)
EXTENDS InterviewEvaluation, TLAPS

\* A job that executes is the one ARQ runs.
Executing == \A j \in JobIds : run[j].pc # "idle" => arq[j] = "running"

\* A claim of an execution is that of a running grader of an ungraded session, and
\* until its lease may lapse a grader has it.
Owned ==
    /\ session.claim \in JobIds =>
          Ungraded /\ run[session.claim].pc \in {"claimed", "judging"}
    /\ \A j \in JobIds : run[j].pc = "claimed" => session.claim = j
    /\ LeaseOutlivesJob => \A j \in JobIds : run[j].pc = "judging" => session.claim = j

IInv == TypeOK /\ Executing /\ Owned
-----------------------------------------------------------------------------
(* The operators on the row *)

\* A CAS of the phase leaves the rest of the row alone.
LEMMA MovedRow ==
  ASSUME NEW row \in SessionType, NEW j, NEW from, NEW to \in Phases
  PROVE  /\ Moved(row, j, from, to) \in SessionType
         /\ Moved(row, j, from, to).claim = row.claim
         /\ Moved(row, j, from, to).verdict = row.verdict
         /\ Moved(row, j, from, to).status = row.status
  BY DEF SessionType, Moved

\* Releasing is scoped to the owner.
LEMMA ReleasedRow ==
  ASSUME NEW row \in SessionType, NEW j
  PROVE  /\ Released(row, j) \in SessionType
         /\ Released(row, j).claim = IF row.claim = j THEN NoClaim ELSE row.claim
         /\ Released(row, j).verdict = row.verdict
         /\ Released(row, j).status = row.status
  BY DEF SessionType, Released, Owners

\* A dispatch is recorded in its own sub-key.
LEMMA DispatchedRow ==
  ASSUME NEW row \in SessionType, NEW j \in JobIds \cup {NoJob}, NEW phase \in Phases, NEW n \in Nat
  PROVE  /\ [row EXCEPT !.current = Dispatch(j, phase)] \in SessionType
         /\ [row EXCEPT !.attempts = n, !.current = Dispatch(j, phase)] \in SessionType
  BY DEF SessionType, Dispatch

\* ARQ keeps a state for every job id.
LEMMA Enqueued ==
  ASSUME NEW j \in JobIds, TypeOK, IF Accepts(j) THEN Enqueue(j) ELSE Refuse
  PROVE  /\ arq' \in [JobIds -> {"none", "queued", "running", "done"}]
         /\ accepted' \subseteq JobIds
         /\ \A k \in JobIds : arq[k] = "running" => arq'[k] = "running"
  BY DEF TypeOK, Accepts, Enqueue, Refuse

LEMMA FirstJob == 0 \in JobIds
  BY ConstantsAssumption DEF JobIds

LEMMA SnapshotRow ==
  ASSUME NEW row \in SessionType
  PROVE  Snapshot(row) \in SnapshotType
  BY DEF SessionType, SnapshotType, Snapshot

LEMMA NewRows ==
  /\ NewSession \in SessionType
  /\ NoRun.pc = "idle" /\ NoRun.loaded \in SnapshotType /\ NoRun.answers = {} /\ NoRun.outcome = "none"
  BY DEF NewSession, NoRun, SessionType, SnapshotType, Snapshot, NoDispatch, Dispatch,
         Owners, Status, Phases
-----------------------------------------------------------------------------
(* Types *)

LEMMA InitType == Init => TypeOK
  BY NewRows, ConstantsAssumption
  DEF Init, TypeOK, NewSession, NoRun, NoCandidate, RunPcs, SweepPcs, FinishPcs, JobIds

\* What a step of a finishing request or of an answer writes keeps its type.
LEMMA FinishType ==
  ASSUME TypeOK,
         \/ \E r \in Receipts : ApplyReceipt(r)
         \/ \E f \in Finishers, status \in {"completed", "timed_out", "abandoned"} :
               Finish(f, status)
         \/ \E f \in Finishers : FinishStep(f) \/ FinishFault(f)
  PROVE  TypeOK'
<1>1. ASSUME NEW r \in Receipts, ApplyReceipt(r) PROVE TypeOK'
  BY <1>1 DEF TypeOK, ApplyReceipt, jobs
<1>2. ASSUME NEW f \in Finishers, NEW status \in {"completed", "timed_out", "abandoned"},
             Finish(f, status)
      PROVE  TypeOK'
  <2>1. session' \in SessionType
    BY <1>2 DEF TypeOK, Finish, SessionType, Status
  <2>2. QED
    BY <1>2, <2>1 DEF TypeOK, Finish, FinishSteps, FinishPcs, answers, jobs
<1>3. ASSUME NEW f \in Finishers, FinishStep(f) \/ FinishFault(f) PROVE TypeOK'
  <2>1. session' \in SessionType
    <3>1. CASE RecordMissing(f)
      BY <3>1, FirstJob, DispatchedRow DEF TypeOK, RecordMissing, Phases
    <3>2. CASE StampRedriven(f)
      BY <3>2, MovedRow DEF TypeOK, StampRedriven, Phases, ActivePhases
    <3>3. CASE UNCHANGED session
      BY <3>3 DEF TypeOK
    <3>4. QED
      BY <1>3, <3>1, <3>2, <3>3
      DEF FinishStep, FinishFault, Refinish, DispatchJob, DispatchFails, DispatchLost
  <2>2. arq' \in [JobIds -> {"none", "queued", "running", "done"}] /\ accepted' \subseteq JobIds
    <3>1. CASE DispatchJob(f)
      BY <3>1, FirstJob, Enqueued DEF DispatchJob
    <3>2. CASE UNCHANGED <<arq, accepted>>
      BY <3>2 DEF TypeOK
    <3>3. QED
      BY <1>3, <3>1, <3>2
      DEF FinishStep, FinishFault, Refinish, DispatchFails, DispatchLost, RecordMissing,
          StampRedriven, jobs
  <2>3. finish' \in [Finishers -> FinishPcs]
    BY <1>3
    DEF TypeOK, FinishStep, FinishFault, Refinish, DispatchJob, DispatchFails, DispatchLost,
        RecordMissing, StampRedriven, FinishSteps, FinishPcs
  <2>4. faults' \in 0 .. MaxFaults
    BY <1>3, ConstantsAssumption
    DEF TypeOK, FinishStep, FinishFault, Refinish, DispatchJob, DispatchFails, DispatchLost,
        RecordMissing, StampRedriven, Fault
  <2>5. UNCHANGED <<applied, late, graded, tries, run, sweep>>
    BY <1>3
    DEF FinishStep, FinishFault, Refinish, DispatchJob, DispatchFails, DispatchLost,
        RecordMissing, StampRedriven, answers, jobs
  <2>6. QED
    BY <2>1, <2>2, <2>3, <2>4, <2>5 DEF TypeOK
<1>4. QED
  BY <1>1, <1>2, <1>3

\* The frame of the actions of a job.
LEMMA JobFrame ==
  ASSUME NEW j \in JobIds, JobStep(j) \/ JobFault(j)
  PROVE  /\ UNCHANGED <<applied, accepted, sweep, finish>>
         /\ Publish(j) \/ UNCHANGED <<late, graded>>
  BY DEF JobStep, JobFault, Pick, PickRefused, Load, Claim, Judge, Publish, Settle,
         ResultExpires, Fail, Killed, Cancelled, TimedOut, answers

\* What a step of an execution writes keeps its type.
LEMMA JobType ==
  ASSUME TypeOK, NEW j \in JobIds, JobStep(j) \/ JobFault(j)
  PROVE  TypeOK'
<1>1. session' \in SessionType
  <2>1. CASE Pick(j)
    BY <2>1, MovedRow DEF TypeOK, Pick, Phases, ActivePhases
  <2>2. CASE Claim(j)
    BY <2>2 DEF TypeOK, Claim, SessionType, Owners
  <2>3. CASE Publish(j)
    <3>1. CASE Holds(j)
      <4>1. run[j].loaded \in SnapshotType
        BY DEF TypeOK
      <4>2. PICK row \in SnapshotType :
              session' = [session EXCEPT !.verdict = "given", !.claim = NoClaim,
                            !.attempts = row.attempts, !.current = row.current,
                            !.status = IF row.status = "failed" THEN "completed" ELSE @]
        BY <2>3, <3>1, <4>1 DEF Publish, Stamped
      <4>3. row.attempts \in Nat /\ row.current \in [job : JobIds \cup {NoJob}, phase : Phases]
        BY DEF SnapshotType
      <4>4. NoClaim \in Owners /\ "completed" \in Status
        BY DEF Owners, Status
      <4>5. QED
        BY <4>2, <4>3, <4>4 DEF TypeOK, SessionType
    <3>2. CASE UNCHANGED session
      BY <3>2 DEF TypeOK
    <3>3. QED
      BY <2>3, <3>1, <3>2 DEF Publish
  <2>4. CASE Fail(j)
    BY <2>4, ReleasedRow DEF TypeOK, Fail, FailureTrail, SessionType, Status
  <2>5. CASE Settle(j)
    <3>1. run[j].outcome \in {"none", "succeeded", "failed", "retrying"}
      BY DEF TypeOK
    <3>2. QED
      BY <2>5, <3>1, MovedRow DEF TypeOK, Settle, Phases, ActivePhases
  <2>6. CASE Killed(j)
    BY <2>6 DEF TypeOK, Killed, SessionType, Owners
  <2>7. CASE Cancelled(j) \/ TimedOut(j)
    BY <2>7, ReleasedRow DEF TypeOK, Cancelled, TimedOut
  <2>8. CASE UNCHANGED session
    BY <2>8 DEF TypeOK
  <2>9. QED
    BY <2>1, <2>2, <2>3, <2>4, <2>5, <2>6, <2>7, <2>8
    DEF JobStep, JobFault, PickRefused, Load, Judge, ResultExpires
<1>2. late' \subseteq applied /\ graded' \subseteq applied
  <2>1. CASE Publish(j)
    BY <2>1 DEF TypeOK, Publish
  <2>2. QED
    BY <2>1, JobFrame DEF TypeOK
<1>3. arq' \in [JobIds -> {"none", "queued", "running", "done"}]
  BY DEF TypeOK, JobStep, JobFault, Pick, PickRefused, Load, Claim, Judge, Publish, Settle,
         ResultExpires, Fail, Killed, Cancelled, TimedOut
<1>4. tries' \in [JobIds -> 0 .. MaxTries]
  <2>1. CASE Pick(j)
    BY <2>1, ConstantsAssumption DEF TypeOK, Pick
  <2>2. CASE ResultExpires(j)
    BY <2>2, ConstantsAssumption DEF TypeOK, ResultExpires
  <2>3. CASE UNCHANGED tries
    BY <2>3 DEF TypeOK
  <2>4. QED
    BY <2>1, <2>2, <2>3
    DEF JobStep, JobFault, PickRefused, Load, Claim, Judge, Publish, Settle, Fail, Killed,
        Cancelled, TimedOut
<1>5. run' \in [JobIds -> [pc : RunPcs, loaded : SnapshotType, answers : SUBSET applied,
                           outcome : {"none", "succeeded", "failed", "retrying"}]]
  <2> DEFINE T == [pc : RunPcs, loaded : SnapshotType, answers : SUBSET applied,
                   outcome : {"none", "succeeded", "failed", "retrying"}]
  <2>1. run \in [JobIds -> T] /\ run[j] \in T
    BY DEF TypeOK
  <2>2. NoRun \in T /\ \A o \in {"succeeded", "failed", "retrying"} : Ended(o) \in T
    BY NewRows DEF Ended, NoRun, RunPcs
  <2>3. \E t \in T : run' = [run EXCEPT ![j] = t]
    <3>1. CASE Pick(j) \/ (Claim(j) /\ Claimable)
      <4>1. [run[j] EXCEPT !.pc = "picked"] \in T /\ [run[j] EXCEPT !.pc = "claimed"] \in T
        BY <2>1 DEF RunPcs
      <4>2. QED
        BY <3>1, <4>1 DEF Pick, Claim, RunSteps
    <3>2. CASE Load(j)
      <4>1. Snapshot(session) \in SnapshotType
        BY SnapshotRow DEF TypeOK
      <4>2. [run[j] EXCEPT !.pc = "loaded", !.loaded = Snapshot(session)] \in T
        BY <2>1, <4>1 DEF RunPcs
      <4>3. QED
        BY <2>1, <3>2, <4>2 DEF Load
    <3>3. CASE Judge(j)
      <4>1. [run[j] EXCEPT !.pc = "judging", !.answers = applied] \in T
        BY <2>1 DEF RunPcs
      <4>2. QED
        BY <2>1, <3>3, <4>1 DEF Judge
    <3>4. CASE (Claim(j) /\ ~Claimable) \/ Publish(j) \/ Fail(j)
      BY <2>2, <3>4 DEF Claim, Publish, Fail
    <3>5. CASE Settle(j) \/ Killed(j) \/ Cancelled(j) \/ TimedOut(j)
      BY <2>2, <3>5 DEF Settle, Killed, Cancelled, TimedOut
    <3>6. CASE PickRefused(j) \/ ResultExpires(j)
      <4>1. run' = run
        BY <3>6 DEF PickRefused, ResultExpires
      <4>2. run = [run EXCEPT ![j] = run[j]]
        BY <2>1
      <4>3. QED
        BY <2>1, <4>1, <4>2
    <3> HIDE DEF T
    <3>7. QED
      BY <3>1, <3>2, <3>3, <3>4, <3>5, <3>6 DEF JobStep, JobFault
  <2> HIDE DEF T
  <2>4. run' \in [JobIds -> T]
    BY <2>1, <2>3
  <2>5. QED
    BY <2>4 DEF T
<1>6. faults' \in 0 .. MaxFaults
  BY ConstantsAssumption
  DEF TypeOK, Fault, JobStep, JobFault, Pick, PickRefused, Load, Claim, Judge, Publish, Settle,
      ResultExpires, Fail, Killed, Cancelled, TimedOut
<1>7. QED
  BY <1>1, <1>2, <1>3, <1>4, <1>5, <1>6, JobFrame DEF TypeOK

\* The frame of the actions of the sweep.
LEMMA SweepFrame ==
  ASSUME NEW s \in Sweepers, SweepStep(s) \/ SweepFault(s)
  PROVE  UNCHANGED <<applied, late, graded, tries, run, finish>>
  BY DEF SweepStep, SweepFault, Select, Retire, Charge, EnqueueJob, EnqueueFails, MarkQueued,
         Refund, SweepCrashes, answers, jobs

\* What a step of the sweep writes keeps its type; a charge stays within the job ids.
LEMMA SweepType ==
  ASSUME TypeOK, NEW s \in Sweepers, SweepStep(s) \/ SweepFault(s)
  PROVE  TypeOK'
<1> DEFINE T == [pc : SweepPcs, seen : Nat, attempt : 0 .. MaxJobs]
<1>1. sweep \in [Sweepers -> T] /\ sweep[s] \in T /\ NoCandidate \in T
  BY ConstantsAssumption DEF TypeOK, NoCandidate, SweepPcs
<1>2. session \in SessionType /\ session.attempts \in Nat
  BY DEF TypeOK, SessionType
<1>3. ASSUME Charge(s), Claimable, ~InFlight
      PROVE  NextAttempt \in Nat /\ NextAttempt \in 0 .. MaxJobs
  BY <1>2, <1>3, ConstantsAssumption DEF Charge, NextAttempt
<1>4. session' \in SessionType
  <2>1. CASE Retire(s)
    BY <1>2, <2>1 DEF Retire, SessionType
  <2>2. CASE Charge(s) /\ Claimable /\ ~InFlight
    <3>1. NextAttempt \in Nat /\ NextAttempt \in JobIds \cup {NoJob} /\ "dispatching" \in Phases
      BY <1>3, <2>2 DEF JobIds, Phases, ActivePhases
    <3>2. session' = [session EXCEPT !.attempts = NextAttempt,
                                     !.current = Dispatch(NextAttempt, "dispatching")]
      BY <2>2 DEF Charge
    <3>3. QED
      BY <1>2, <3>1, <3>2, DispatchedRow
  <2>3. CASE MarkQueued(s)
    BY <1>2, <2>3, MovedRow DEF MarkQueued, Phases, ActivePhases
  <2>4. CASE Refund(s)
    <3>1. NoJob \in JobIds \cup {NoJob} /\ "none" \in Phases /\ sweep[s].seen \in Nat
      BY <1>1 DEF Phases
    <3>2. QED
      BY <1>2, <2>4, <3>1, DispatchedRow DEF Refund, Refunded, NoDispatch
  <2>5. CASE UNCHANGED session
    BY <1>2, <2>5
  <2>6. QED
    BY <2>1, <2>2, <2>3, <2>4, <2>5
    DEF SweepStep, SweepFault, Select, Charge, EnqueueJob, EnqueueFails, SweepCrashes
<1>5. arq' \in [JobIds -> {"none", "queued", "running", "done"}] /\ accepted' \subseteq JobIds
  <2>1. CASE EnqueueJob(s)
    <3>1. sweep[s].attempt \in JobIds
      BY <1>1 DEF JobIds
    <3>2. QED
      BY <2>1, <3>1, Enqueued DEF EnqueueJob
  <2>2. CASE UNCHANGED <<arq, accepted>>
    BY <2>2 DEF TypeOK
  <2>3. QED
    BY <2>1, <2>2
    DEF SweepStep, SweepFault, Select, Retire, Charge, EnqueueFails, MarkQueued, Refund,
        SweepCrashes, jobs
<1>6. sweep' \in [Sweepers -> T]
  <2>1. CASE Select(s)
    <3>1. [pc |-> IF Ungraded THEN "charge" ELSE "retire", seen |-> session.attempts,
           attempt |-> 0] \in T
      BY <1>2, ConstantsAssumption DEF SweepPcs
    <3> HIDE DEF T
    <3>2. QED
      BY <1>1, <2>1, <3>1 DEF Select
  <2>2. CASE Charge(s) /\ Claimable /\ ~InFlight
    <3>1. [sweep[s] EXCEPT !.pc = "enqueue", !.attempt = NextAttempt] \in T
      BY <1>1, <1>3, <2>2 DEF SweepPcs
    <3>2. sweep' = [sweep EXCEPT ![s] = [sweep[s] EXCEPT !.pc = "enqueue", !.attempt = NextAttempt]]
      BY <1>1, <2>2 DEF Charge
    <3> HIDE DEF T
    <3>3. QED
      BY <1>1, <3>1, <3>2
  <2>3. CASE Retire(s) \/ EnqueueJob(s) \/ EnqueueFails(s)
    <3>1. PICK pc \in SweepPcs : sweep' = [sweep EXCEPT ![s].pc = pc]
      BY <2>3 DEF Retire, EnqueueJob, EnqueueFails, SweepSteps, SweepPcs
    <3>2. [sweep[s] EXCEPT !.pc = pc] \in T
      BY <1>1
    <3>3. sweep' = [sweep EXCEPT ![s] = [sweep[s] EXCEPT !.pc = pc]]
      BY <1>1, <3>1
    <3> HIDE DEF T
    <3>4. QED
      BY <1>1, <3>2, <3>3
  <2>4. CASE sweep' = [sweep EXCEPT ![s] = NoCandidate]
    <3> HIDE DEF T
    <3>1. QED
      BY <1>1, <2>4
  <2>5. QED
    BY <2>1, <2>2, <2>3, <2>4
    DEF SweepStep, SweepFault, Charge, MarkQueued, Refund, SweepCrashes
<1>7. faults' \in 0 .. MaxFaults
  <2>1. faults' = faults \/ (faults < MaxFaults /\ faults' = faults + 1)
    BY DEF Fault, SweepStep, SweepFault, Select, Retire, Charge, EnqueueJob, EnqueueFails,
           MarkQueued, Refund, SweepCrashes
  <2>2. QED
    BY <2>1, ConstantsAssumption DEF TypeOK
<1>8. QED
  BY <1>4, <1>5, <1>6, <1>7, SweepFrame DEF TypeOK

LEMMA TypeStep == TypeOK /\ [Next]_vars => TypeOK'
<1> SUFFICES ASSUME TypeOK, [Next]_vars PROVE TypeOK'
  OBVIOUS
<1>1. CASE LeaseLapses
  <2>1. session' \in SessionType
    BY <1>1 DEF TypeOK, LeaseLapses, SessionType, Owners
  <2>2. QED
    BY <1>1, <2>1 DEF TypeOK, LeaseLapses, answers, jobs
<1>2. CASE UNCHANGED vars
  BY <1>2 DEF TypeOK, vars
<1>3. QED
  BY <1>1, <1>2, FinishType, JobType, SweepType DEF Next

\* Every row, record and program counter keeps its type.
THEOREM TypesInvariant == Spec => []TypeOK
  BY InitType, TypeStep, PTL DEF Spec

-----------------------------------------------------------------------------
(* The claim *)

\* A step that runs no job, moves no claim and publishes nothing keeps the invariant.
LEMMA Elsewhere ==
  ASSUME IInv, run' = run, session'.claim = session.claim,
         session'.verdict = "given" => session.verdict = "given",
         \A j \in JobIds : arq[j] = "running" => arq'[j] = "running"
  PROVE  Executing' /\ Owned'
  BY DEF IInv, Executing, Owned, Ungraded

\* The finish and the sweep do not touch the claim.
LEMMA OthersKeepClaim ==
  ASSUME IInv,
         \/ \E r \in Receipts : ApplyReceipt(r)
         \/ \E f \in Finishers, status \in {"completed", "timed_out", "abandoned"} :
               Finish(f, status)
         \/ \E f \in Finishers : FinishStep(f) \/ FinishFault(f)
         \/ \E s \in Sweepers : SweepStep(s) \/ SweepFault(s)
  PROVE  Executing' /\ Owned'
<1>1. session \in SessionType /\ TypeOK
  BY DEF IInv, TypeOK
<1>2. ASSUME NEW r \in Receipts, ApplyReceipt(r) PROVE Executing' /\ Owned'
  BY <1>2, Elsewhere DEF ApplyReceipt, jobs
<1>3. ASSUME NEW f \in Finishers, NEW status \in {"completed", "timed_out", "abandoned"},
             Finish(f, status)
      PROVE  Executing' /\ Owned'
  BY <1>1, <1>3, Elsewhere DEF Finish, jobs, SessionType
<1>4. ASSUME NEW f \in Finishers, FinishStep(f) \/ FinishFault(f) PROVE Executing' /\ Owned'
  <2>1. CASE DispatchJob(f)
    BY <1>1, <2>1, FirstJob, Enqueued, Elsewhere DEF DispatchJob
  <2>2. CASE RecordMissing(f)
    BY <1>1, <2>2, Elsewhere DEF RecordMissing, SessionType, jobs
  <2>3. CASE StampRedriven(f)
    <3>1. "queued" \in Phases
      BY DEF Phases, ActivePhases
    <3>2. QED
      BY <1>1, <2>3, <3>1, MovedRow, Elsewhere DEF StampRedriven, jobs
  <2>4. CASE UNCHANGED <<session, jobs>>
    BY <2>4, Elsewhere DEF jobs
  <2>5. QED
    BY <1>4, <2>1, <2>2, <2>3, <2>4
    DEF FinishStep, FinishFault, Refinish, DispatchFails, DispatchLost
<1>5. ASSUME NEW s \in Sweepers, SweepStep(s) \/ SweepFault(s) PROVE Executing' /\ Owned'
  <2>1. CASE Retire(s)
    BY <1>1, <2>1, Elsewhere DEF Retire, SessionType, jobs
  <2>2. CASE Charge(s)
    <3>1. session'.claim = session.claim /\ session'.verdict = session.verdict
      BY <1>1, <2>2 DEF Charge, SessionType
    <3>2. QED
      BY <2>2, <3>1, Elsewhere DEF Charge, jobs
  <2>3. CASE EnqueueJob(s)
    <3>1. sweep[s].attempt \in JobIds
      BY <1>1 DEF TypeOK, JobIds
    <3>2. QED
      BY <1>1, <2>3, <3>1, Enqueued, Elsewhere DEF EnqueueJob
  <2>4. CASE MarkQueued(s)
    <3>1. "queued" \in Phases
      BY DEF Phases, ActivePhases
    <3>2. QED
      BY <1>1, <2>4, <3>1, MovedRow, Elsewhere DEF MarkQueued, jobs
  <2>5. CASE Refund(s)
    <3>1. session'.claim = session.claim /\ session'.verdict = session.verdict
      BY <1>1, <2>5 DEF Refund, Refunded, SessionType
    <3>2. QED
      BY <2>5, <3>1, Elsewhere DEF Refund, jobs
  <2>6. CASE UNCHANGED <<session, jobs>>
    BY <2>6, Elsewhere DEF jobs
  <2>7. QED
    BY <1>5, <2>1, <2>2, <2>3, <2>4, <2>5, <2>6
    DEF SweepStep, SweepFault, Select, EnqueueFails, SweepCrashes
<1>6. QED
  BY <1>2, <1>3, <1>4, <1>5

\* The steps of an execution: the claim is taken from nobody, and given up with the
\* judging or by it.
LEMMA JobKeepsClaim ==
  ASSUME IInv, NEW j \in JobIds, JobStep(j) \/ JobFault(j)
  PROVE  Executing' /\ Owned'
<1>1. /\ session \in SessionType /\ session.claim \in Owners
      /\ run \in [JobIds -> [pc : RunPcs, loaded : SnapshotType, answers : SUBSET applied,
                             outcome : {"none", "succeeded", "failed", "retrying"}]]
      /\ arq \in [JobIds -> {"none", "queued", "running", "done"}]
  BY DEF IInv, TypeOK, SessionType
<1>2. NoClaim \notin JobIds /\ Orphan \notin JobIds
  BY ConstantsAssumption DEF NoClaim, Orphan, JobIds
<1>3. NoRun.pc = "idle" /\ \A o : Ended(o).pc = "settling"
  BY DEF NoRun, Ended
<1>4. Executing /\ Owned
  BY DEF IInv
<1>5. \A k \in JobIds \ {j} : run'[k] = run[k] /\ arq'[k] = arq[k]
  BY <1>1
  DEF JobStep, JobFault, Pick, PickRefused, Load, Claim, Judge, Publish, Settle, ResultExpires,
      Fail, Killed, Cancelled, TimedOut, RunSteps
<1>6. CASE Pick(j)
  <2>1. session'.claim = session.claim /\ session'.verdict = session.verdict
    <3>1. "running" \in Phases
      BY DEF Phases, ActivePhases
    <3>2. QED
      BY <1>1, <1>6, <3>1, MovedRow DEF Pick
  <2>2. run[j].pc = "idle" /\ run'[j].pc = "picked" /\ arq'[j] = "running"
    BY <1>1, <1>4, <1>6 DEF Executing, Pick, RunSteps
  <2>3. QED
    BY <1>4, <1>5, <2>1, <2>2 DEF Executing, Owned, Ungraded
<1>7. CASE PickRefused(j) \/ ResultExpires(j)
  <2>1. run[j].pc = "idle" /\ run' = run /\ session' = session
    BY <1>1, <1>4, <1>7 DEF Executing, PickRefused, ResultExpires
  <2>2. QED
    BY <1>4, <1>5, <2>1 DEF Executing, Owned, Ungraded
<1>8. CASE Load(j)
  <2>1. /\ run[j].pc = "loaded" \/ run[j].pc = "picked"
        /\ run'[j].pc = "loaded" /\ arq' = arq /\ session' = session
    BY <1>1, <1>8 DEF Load, Running
  <2>2. QED
    BY <1>4, <1>5, <2>1 DEF Executing, Owned, Ungraded
<1>9. CASE Claim(j)
  <2>1. CASE Claimable
    <3>1. /\ run[j].pc = "loaded" /\ run'[j].pc = "claimed" /\ arq' = arq
          /\ session.claim = NoClaim /\ session'.claim = j /\ session'.verdict # "given"
      BY <1>1, <1>9, <2>1 DEF Claim, Running, RunSteps, Claimable, Ungraded, SessionType
    <3>2. QED
      BY <1>2, <1>4, <1>5, <3>1 DEF Executing, Owned, Ungraded
  <2>2. CASE ~Claimable
    <3>1. /\ run[j].pc = "loaded" /\ run'[j].pc = "settling" /\ arq' = arq
          /\ session' = session
      BY <1>1, <1>3, <1>9, <2>2 DEF Claim, Running
    <3>2. QED
      BY <1>4, <1>5, <3>1 DEF Executing, Owned, Ungraded
  <2>3. QED
    BY <2>1, <2>2
<1>10. CASE Judge(j)
  <2>1. run[j].pc = "claimed" /\ run'[j].pc = "judging" /\ arq' = arq /\ session' = session
    BY <1>1, <1>10 DEF Judge, Running
  <2>2. QED
    BY <1>4, <1>5, <2>1 DEF Executing, Owned, Ungraded
<1>11. CASE Publish(j)
  <2>1. run[j].pc = "judging" /\ run'[j].pc = "settling" /\ arq' = arq
    BY <1>1, <1>3, <1>11 DEF Publish, Running
  <2>2. CASE Holds(j)
    <3>1. session.claim = j /\ session'.claim = NoClaim
      BY <1>1, <1>11, <2>2 DEF Publish, Stamped, Holds, SessionType
    <3>2. QED
      BY <1>2, <1>4, <1>5, <2>1, <3>1 DEF Executing, Owned, Ungraded
  <2>3. CASE ~Holds(j)
    <3>1. session.claim # j /\ session' = session
      BY <1>11, <2>3 DEF Publish, Holds
    <3>2. QED
      BY <1>4, <1>5, <2>1, <3>1 DEF Executing, Owned, Ungraded
  <2>4. QED
    BY <2>2, <2>3
<1>12. CASE Settle(j)
  <2>1. session'.claim = session.claim /\ session'.verdict = session.verdict
    <3>1. run[j].outcome \in {"none", "succeeded", "failed", "retrying"}
      BY <1>1
    <3>2. run[j].outcome \in Phases
      BY <3>1 DEF Phases, ActivePhases
    <3>3. QED
      BY <1>1, <1>12, <3>2, MovedRow DEF Settle
  <2>2. run[j].pc = "settling" /\ run'[j].pc = "idle"
    BY <1>1, <1>3, <1>12 DEF Settle, Running
  <2>3. QED
    BY <1>4, <1>5, <2>1, <2>2 DEF Executing, Owned, Ungraded
<1>13. CASE Fail(j) \/ Killed(j) \/ Cancelled(j) \/ TimedOut(j)
  <2>1. /\ session'.claim = IF session.claim = j THEN session'.claim ELSE session.claim
        /\ session.claim = j => session'.claim \in {NoClaim, Orphan}
        /\ session'.verdict = session.verdict
    <3>1. CASE Fail(j)
      <4>1. session' = Released(session, j)
               \/ session' = [Released(session, j) EXCEPT !.status = "failed"]
        BY <3>1 DEF Fail, FailureTrail
      <4>2. /\ session'.claim = Released(session, j).claim
            /\ session'.verdict = Released(session, j).verdict
        BY <1>1, <4>1, ReleasedRow DEF SessionType
      <4>3. QED
        BY <1>1, <4>2, ReleasedRow
    <3>2. CASE Killed(j)
      BY <1>1, <3>2 DEF Killed, SessionType
    <3>3. CASE Cancelled(j) \/ TimedOut(j)
      BY <1>1, <3>3, ReleasedRow DEF Cancelled, TimedOut
    <3>4. QED
      BY <1>13, <3>1, <3>2, <3>3
  <2>2. run'[j].pc \in {"idle", "settling"} /\ (run'[j].pc = "settling" => arq' = arq)
    BY <1>1, <1>3, <1>13 DEF Fail, Killed, Cancelled, TimedOut
  <2>3. run'[j].pc = "settling" => run[j].pc # "idle"
    BY <1>1, <1>3, <1>13 DEF Fail, Killed, Cancelled, TimedOut
  <2>4. QED
    BY <1>2, <1>4, <1>5, <2>1, <2>2, <2>3 DEF Executing, Owned, Ungraded
<1>14. QED
  BY <1>6, <1>7, <1>8, <1>9, <1>10, <1>11, <1>12, <1>13 DEF JobStep, JobFault

LEMMA IInvStep == IInv /\ [Next]_vars => IInv'
<1> SUFFICES ASSUME IInv, [Next]_vars PROVE IInv'
  OBVIOUS
<1>1. TypeOK'
  BY TypeStep DEF IInv
<1>2. Executing' /\ Owned'
  <2>1. CASE LeaseLapses
    <3>1. /\ session'.claim = NoClaim /\ session'.verdict = session.verdict
          /\ run' = run /\ arq' = arq
      BY <2>1 DEF LeaseLapses, jobs, IInv, TypeOK, SessionType
    <3>2. NoClaim \notin JobIds /\ Orphan \notin JobIds /\ NoClaim # Orphan
      BY ConstantsAssumption DEF NoClaim, Orphan, JobIds
    <3>3. CASE session.claim = Orphan
      BY <3>1, <3>2, <3>3 DEF IInv, Executing, Owned, Ungraded
    <3>4. CASE session.claim \in JobIds /\ run[session.claim].pc = "judging" /\ ~LeaseOutlivesJob
      BY <3>1, <3>2, <3>4 DEF IInv, Executing, Owned, Ungraded
    <3>5. QED
      BY <2>1, <3>3, <3>4 DEF LeaseLapses, Lapses
  <2>2. CASE UNCHANGED vars
    BY <2>2, Elsewhere DEF vars
  <2>3. QED
    BY <2>1, <2>2, OthersKeepClaim, JobKeepsClaim DEF Next
<1>3. QED
  BY <1>1, <1>2 DEF IInv

LEMMA InitIInv == Init => IInv
<1> SUFFICES ASSUME Init PROVE IInv
  OBVIOUS
<1>1. \A j \in JobIds : run[j].pc = "idle"
  BY NewRows DEF Init
<1>2. session.claim = NoClaim /\ NoClaim \notin JobIds
  BY ConstantsAssumption DEF Init, NewSession, NoClaim, JobIds
<1>3. QED
  BY <1>1, <1>2, InitType DEF IInv, Executing, Owned

THEOREM ClaimInvariant == Spec => []IInv
  BY InitIInv, IInvStep, PTL DEF Spec

-----------------------------------------------------------------------------
(* The theorems *)

\* As long as a lease outlives the execution that took it, no two executions judge the
\* session at once.
THEOREM OneGraderInvariant ==
  ASSUME LeaseOutlivesJob
  PROVE  Spec => []OneGrader
<1>1. IInv => OneGrader
  BY LeaseOutlivesJob DEF IInv, Owned, OneGrader
<1>2. QED
  BY <1>1, ClaimInvariant, PTL

\* A step publishes only for the owner of the claim, whose session is ungraded, and
\* only the owner marks the session failed.
LEMMA VerdictStep ==
  ASSUME IInv, Next, session.verdict = "given"
  PROVE  \/ /\ session'.verdict = "given" /\ graded' = graded
            /\ session'.status = "failed" => session.status = "failed"
         \/ session'.verdict = "retired" /\ late # {} /\ graded' = graded
<1>1. session \in SessionType /\ TypeOK /\ session.claim \notin JobIds
  BY DEF IInv, TypeOK, Owned, Ungraded
<1> DEFINE Kept == /\ session'.verdict = session.verdict /\ graded' = graded
                   /\ session'.status = "failed" => session.status = "failed"
<1>2. ASSUME NEW r \in Receipts, ApplyReceipt(r) PROVE Kept
  BY <1>2 DEF ApplyReceipt
<1>3. ASSUME NEW f \in Finishers, NEW status \in {"completed", "timed_out", "abandoned"},
             Finish(f, status)
      PROVE  Kept
  BY <1>1, <1>3 DEF Finish, SessionType, answers
<1>4. ASSUME NEW f \in Finishers, FinishStep(f) \/ FinishFault(f) PROVE Kept
  <2>1. CASE StampRedriven(f)
    <3>1. "queued" \in Phases
      BY DEF Phases, ActivePhases
    <3>2. QED
      BY <1>1, <2>1, <3>1, MovedRow DEF StampRedriven, answers
  <2>2. CASE RecordMissing(f)
    BY <1>1, <2>2 DEF RecordMissing, SessionType, answers
  <2>3. CASE UNCHANGED <<session, answers>>
    BY <2>3 DEF answers
  <2>4. QED
    BY <1>4, <2>1, <2>2, <2>3
    DEF FinishStep, FinishFault, Refinish, DispatchJob, DispatchFails, DispatchLost
<1>5. ASSUME NEW j \in JobIds, JobStep(j) \/ JobFault(j) PROVE Kept
  <2>1. ~Holds(j) /\ ~Claimable
    BY <1>1 DEF Holds, Claimable, Ungraded
  <2>2. Released(session, j) = session
    BY <1>1 DEF Released
  <2>3. CASE Pick(j)
    <3>1. "running" \in Phases
      BY DEF Phases, ActivePhases
    <3>2. QED
      BY <1>1, <2>3, <3>1, MovedRow DEF Pick, answers
  <2>4. CASE Settle(j)
    <3>1. run[j].outcome \in {"none", "succeeded", "failed", "retrying"}
      BY <1>1 DEF TypeOK
    <3>2. run[j].outcome \in Phases
      BY <3>1 DEF Phases, ActivePhases
    <3>3. QED
      BY <1>1, <2>4, <3>2, MovedRow DEF Settle, answers
  <2>5. CASE UNCHANGED <<session, graded>>
    BY <2>5
  <2>6. QED
    BY <1>1, <1>5, <2>1, <2>2, <2>3, <2>4, <2>5
    DEF JobStep, JobFault, PickRefused, Load, Claim, Judge, Publish, Fail, FailureTrail,
        Killed, Cancelled, TimedOut, ResultExpires, answers
<1>6. CASE LeaseLapses
  BY <1>1, <1>6 DEF LeaseLapses, SessionType, answers
<1>7. ASSUME NEW s \in Sweepers, SweepStep(s) \/ SweepFault(s), ~Retire(s) PROVE Kept
  <2>1. graded' = graded
    BY <1>7, SweepFrame
  <2>2. CASE MarkQueued(s)
    <3>1. "queued" \in Phases
      BY DEF Phases, ActivePhases
    <3>2. QED
      BY <1>1, <2>1, <2>2, <3>1, MovedRow DEF MarkQueued
  <2>3. CASE Refund(s)
    BY <1>1, <2>1, <2>3 DEF Refund, Refunded, SessionType
  <2>4. CASE session' = session
    BY <2>1, <2>4
  <2>5. QED
    BY <1>7, <2>2, <2>3, <2>4
    DEF SweepStep, SweepFault, Select, Charge, Claimable, Ungraded, EnqueueJob, EnqueueFails,
        SweepCrashes
<1>8. ASSUME NEW s \in Sweepers, Retire(s)
      PROVE  Kept \/ (session'.verdict = "retired" /\ late # {} /\ graded' = graded)
  BY <1>1, <1>8 DEF Retire, SessionType, answers
<1>9. QED
  BY <1>2, <1>3, <1>4, <1>5, <1>6, <1>7, <1>8 DEF Next

\* A published verdict is not judged again and its session is not relabelled failed,
\* however short the lease, unless an answer arrived after it.
THEOREM VerdictStandsAlways == Spec => VerdictStands
<1>1. IInv /\ [Next]_vars =>
        [session.verdict = "given" =>
           \/ /\ session'.verdict = "given" /\ graded' = graded
              /\ session'.status = "failed" => session.status = "failed"
           \/ session'.verdict = "retired" /\ late # {} /\ graded' = graded]_vars
  BY VerdictStep
<1>2. QED
  BY <1>1, ClaimInvariant, PTL DEF Spec, VerdictStands
-----------------------------------------------------------------------------
(* The recovery budget *)

\* An attempt that is charged is a job ARQ took, or the record says it is dispatching.
Backed(row, taken) ==
    \A i \in 1 .. row.attempts : i \in taken \/ row.current = Dispatch(i, "dispatching")

\* The row, and the rows as executions have loaded them, are backed; a sweep selects
\* the session, and may put back its count, when no dispatch is on the way.
Charged ==
    /\ \A j \in JobIds : arq[j] # "none" => j \in accepted
    /\ Backed(session, accepted)
    /\ \A j \in JobIds : Backed(run[j].loaded, accepted)
    /\ \A s \in Sweepers : /\ sweep[s].pc # "idle" => 1 .. sweep[s].seen \subseteq accepted
                           /\ sweep[s].pc = "mark" => sweep[s].attempt \in accepted
    /\ \A f \in Finishers : finish[f] # "record"

LEMMA MovedBacked ==
  ASSUME NEW row \in SessionType, NEW j, NEW from, NEW to, NEW taken,
         Backed(row, taken), "dispatching" \in from => j \in taken
  PROVE  /\ Backed(Moved(row, j, from, to), taken)
         /\ Moved(row, j, from, to).attempts = row.attempts
<1>1. CASE row.current.job = j /\ row.current.phase \in from
  <2>1. /\ Moved(row, j, from, to).attempts = row.attempts
    BY <1>1 DEF Moved, SessionType
  <2>2. \A i : row.current = Dispatch(i, "dispatching") => i \in taken
    BY <1>1 DEF Dispatch
  <2>3. QED
    BY <2>1, <2>2 DEF Backed
<1>2. CASE ~(row.current.job = j /\ row.current.phase \in from)
  BY <1>2 DEF Moved
<1>3. QED
  BY <1>1, <1>2

LEMMA SnapshotBacked ==
  /\ \A taken : Backed(NoRun.loaded, taken) /\ Backed(NewSession, taken)
  /\ \A row, taken : Backed(row, taken) => Backed(Snapshot(row), taken)
<1>1. NoRun.loaded.attempts = 0 /\ NewSession.attempts = 0
  BY DEF NoRun, NewSession, Snapshot
<1>2. \A row : Snapshot(row).attempts = row.attempts /\ Snapshot(row).current = row.current
  BY DEF Snapshot
<1>3. ASSUME NEW row, row.attempts = 0, NEW taken PROVE Backed(row, taken)
  BY <1>3 DEF Backed
<1>4. QED
  BY <1>1, <1>2, <1>3 DEF Backed

\* Outside a dispatch every attempt is a job ARQ took.
LEMMA NoneOnTheWay ==
  ASSUME Backed(session, accepted), ~InFlight
  PROVE  1 .. session.attempts \subseteq accepted
<1>1. ASSUME NEW i, session.current = Dispatch(i, "dispatching") PROVE InFlight
  BY <1>1 DEF InFlight, Dispatch, ActivePhases
<1>2. QED
  BY <1>1 DEF Backed

\* What a step must not do.
LEMMA ChargedKept ==
  ASSUME Charged, accepted \subseteq accepted', Backed(session', accepted'),
         \A j \in JobIds : arq'[j] # "none" => arq[j] # "none" \/ j \in accepted',
         \A j \in JobIds : run'[j].loaded \in {run[j].loaded, NoRun.loaded, Snapshot(session)},
         \A s \in Sweepers :
           /\ sweep'[s].pc # "idle" =>
                \/ sweep[s].pc # "idle" /\ sweep'[s].seen = sweep[s].seen
                \/ sweep'[s].seen = session.attempts /\ ~InFlight
           /\ sweep'[s].pc = "mark" =>
                \/ sweep[s].pc = "mark" /\ sweep'[s].attempt = sweep[s].attempt
                \/ sweep'[s].attempt \in accepted',
         \A f \in Finishers : finish'[f] # "record"
  PROVE  Charged'
<1>1. \A row : Backed(row, accepted) => Backed(row, accepted')
  BY DEF Backed
<1>2. \A j \in JobIds : Backed(run'[j].loaded, accepted')
  BY <1>1, SnapshotBacked DEF Charged
<1>3. \A s \in Sweepers : sweep'[s].pc # "idle" => 1 .. sweep'[s].seen \subseteq accepted'
  BY NoneOnTheWay DEF Charged
<1>4. QED
  BY <1>2, <1>3 DEF Charged

LEMMA BackedKept ==
  ASSUME Charged, accepted \subseteq accepted',
         session'.attempts = session.attempts, session'.current = session.current
  PROVE  Backed(session', accepted')
  BY DEF Charged, Backed

\* The requests and the answers: only one that loses its dispatch replaces the record.
LEMMA FinishCharged ==
  ASSUME "dispatch" \notin Faults, IInv, Charged,
         \/ \E r \in Receipts : ApplyReceipt(r)
         \/ \E f \in Finishers, status \in {"completed", "timed_out", "abandoned"} :
               Finish(f, status)
         \/ \E f \in Finishers : FinishStep(f) \/ FinishFault(f)
  PROVE  Charged'
<1>1. session \in SessionType /\ TypeOK
  BY DEF IInv, TypeOK
<1>2. run' = run /\ sweep' = sweep
  BY DEF ApplyReceipt, Finish, FinishStep, FinishFault, Refinish, DispatchJob, DispatchFails,
         DispatchLost, RecordMissing, StampRedriven, jobs
<1>3. \A f \in Finishers : finish'[f] # "record"
  <2>1. ASSUME NEW f \in Finishers, NEW pc \in {"dispatch", "redrive", "stamp", "idle"},
               finish' = [finish EXCEPT ![f] = pc]
        PROVE  \A g \in Finishers : finish'[g] # "record"
    BY <1>1, <2>1 DEF TypeOK, Charged
  <2>2. CASE finish' = finish
    BY <2>2 DEF Charged
  <2>3. QED
    BY <2>1, <2>2
    DEF ApplyReceipt, Finish, FinishStep, FinishFault, Refinish, DispatchJob, DispatchFails,
        DispatchLost, RecordMissing, StampRedriven, FinishSteps, Fault
<1>4. /\ accepted \subseteq accepted'
      /\ \A j \in JobIds : arq'[j] # "none" => arq[j] # "none" \/ j \in accepted'
  <2>1. ASSUME NEW f \in Finishers, DispatchJob(f)
        PROVE  accepted \subseteq accepted' /\ \A j \in JobIds :
                 arq'[j] # "none" => arq[j] # "none" \/ j \in accepted'
    BY <1>1, <2>1, FirstJob DEF DispatchJob, Enqueue, Refuse, TypeOK
  <2>2. CASE UNCHANGED <<arq, accepted>>
    BY <2>2
  <2>3. QED
    BY <2>1, <2>2
    DEF ApplyReceipt, Finish, FinishStep, FinishFault, Refinish, DispatchFails, DispatchLost,
        RecordMissing, StampRedriven, jobs
<1>5. Backed(session', accepted')
  <2>1. ASSUME NEW f \in Finishers, StampRedriven(f) PROVE Backed(session', accepted')
    BY <1>1, <2>1, MovedBacked DEF StampRedriven, Charged, jobs
  <2>2. ASSUME NEW f \in Finishers, NEW status, Finish(f, status)
        PROVE  Backed(session', accepted')
    <3>1. session'.attempts = session.attempts /\ session'.current = session.current
      BY <1>1, <2>2 DEF Finish, SessionType
    <3>2. QED
      BY <1>4, <3>1, BackedKept
  <2>3. CASE session' = session
    BY <1>4, <2>3, BackedKept
  <2>4. QED
    BY <2>1, <2>2, <2>3
    DEF ApplyReceipt, FinishStep, FinishFault, Refinish, DispatchJob, DispatchFails,
        DispatchLost, RecordMissing, Charged
<1>6. QED
  BY <1>2, <1>3, <1>4, <1>5, ChargedKept DEF Charged

\* An execution has the row as it loaded it, and none when it is over.
LEMMA LoadedOnly ==
  ASSUME TypeOK, NEW j \in JobIds, JobStep(j) \/ JobFault(j)
  PROVE  \A k \in JobIds : run'[k].loaded \in {run[k].loaded, NoRun.loaded, Snapshot(session)}
<1>1. \A o : Ended(o).loaded = NoRun.loaded
  BY DEF Ended, NoRun
<1>2. QED
  BY <1>1
  DEF TypeOK, JobStep, JobFault, Pick, PickRefused, Load, Claim, Judge, Publish, Settle,
      ResultExpires, Fail, Killed, Cancelled, TimedOut, RunSteps

\* The executions: one that runs is a job ARQ took; publishing writes a record back
\* that was backed when it was loaded.
LEMMA JobCharged ==
  ASSUME IInv, Charged, NEW j \in JobIds, JobStep(j) \/ JobFault(j)
  PROVE  Charged'
<1>1. session \in SessionType /\ TypeOK
  BY DEF IInv, TypeOK
<1>2. UNCHANGED <<accepted, sweep, finish>>
  BY JobFrame
<1>3. arq[j] # "none"
  <2>1. run[j].pc # "idle" => arq[j] # "none"
    BY DEF IInv, Executing
  <2>2. QED
    BY <2>1 DEF JobStep, JobFault, Pick, PickRefused, Load, Claim, Judge, Publish, Settle,
                ResultExpires, Fail, Killed, Cancelled, TimedOut, Running
<1>4. j \in accepted /\ \A k \in JobIds : arq'[k] # "none" => arq[k] # "none"
  BY <1>1, <1>3
  DEF Charged, TypeOK, JobStep, JobFault, Pick, PickRefused, Load, Claim, Judge, Publish,
      Settle, ResultExpires, Fail, Killed, Cancelled, TimedOut
<1>5. \A k \in JobIds : run'[k].loaded \in {run[k].loaded, NoRun.loaded, Snapshot(session)}
  BY <1>1, LoadedOnly
<1>6. Backed(session', accepted')
  <2>1. CASE Pick(j) \/ Settle(j)
    BY <1>1, <1>2, <1>4, <2>1, MovedBacked DEF Pick, Settle, Charged
  <2>2. CASE Publish(j) /\ Holds(j)
    <3>1. session'.attempts = run[j].loaded.attempts /\ session'.current = run[j].loaded.current
      BY <1>1, <2>2 DEF Publish, Stamped, SessionType
    <3>2. QED
      BY <1>2, <3>1 DEF Charged, Backed
  <2>3. CASE session'.attempts = session.attempts /\ session'.current = session.current
    BY <1>2, <2>3, BackedKept
  <2>4. Released(session, j).attempts = session.attempts
        /\ Released(session, j).current = session.current
    BY <1>1 DEF Released, SessionType
  <2>5. CASE Fail(j)
    <3>1. session' = Released(session, j)
             \/ session' = [Released(session, j) EXCEPT !.status = "failed"]
      BY <2>5 DEF Fail, FailureTrail
    <3>2. QED
      BY <1>1, <2>3, <2>4, <3>1, ReleasedRow DEF SessionType
  <2>6. QED
    BY <1>1, <2>1, <2>2, <2>3, <2>4, <2>5
    DEF JobStep, JobFault, PickRefused, Load, Claim, Judge, Publish, ResultExpires, Killed,
        Cancelled, TimedOut, SessionType
<1>7. QED
  BY <1>2, <1>4, <1>5, <1>6, ChargedKept DEF Charged

\* The sweep: the record of a charge stands until its job is marked queued or the
\* count is put back.
LEMMA SweepCharged ==
  ASSUME IInv, Charged, NEW s \in Sweepers, SweepStep(s) \/ SweepFault(s)
  PROVE  Charged'
<1> DEFINE T == [pc : SweepPcs, seen : Nat, attempt : 0 .. MaxJobs]
<1>1. /\ session \in SessionType /\ TypeOK
      /\ sweep \in [Sweepers -> T] /\ sweep[s].attempt \in JobIds
  BY DEF IInv, TypeOK, JobIds
<1>2. UNCHANGED <<run, finish>> /\ session.attempts \in Nat
  BY <1>1, SweepFrame DEF SessionType
<1>3. /\ accepted \subseteq accepted'
      /\ \A j \in JobIds : arq'[j] # "none" => arq[j] # "none" \/ j \in accepted'
  <2>1. CASE EnqueueJob(s)
    BY <1>1, <2>1 DEF EnqueueJob, Enqueue, Refuse, TypeOK
  <2>2. CASE UNCHANGED <<arq, accepted>>
    BY <2>2
  <2>3. QED
    BY <2>1, <2>2
    DEF SweepStep, SweepFault, Select, Retire, Charge, EnqueueFails, MarkQueued, Refund,
        SweepCrashes, jobs
<1>4. /\ \A u \in Sweepers : u # s => sweep'[u] = sweep[u]
      /\ sweep'[s].pc # "idle" =>
           \/ sweep[s].pc # "idle" /\ sweep'[s].seen = sweep[s].seen
           \/ sweep'[s].seen = session.attempts /\ ~InFlight
      /\ sweep'[s].pc = "mark" => sweep'[s].attempt \in accepted'
  <2>1. CASE Select(s)
    BY <1>1, <2>1 DEF Select, Recoverable
  <2>2. CASE Charge(s)
    BY <1>1, <2>2 DEF Charge, NoCandidate
  <2>3. CASE EnqueueJob(s)
    <3>1. arq[sweep[s].attempt] # "none" => sweep[s].attempt \in accepted
      BY <1>1 DEF Charged
    <3>2. QED
      BY <1>1, <2>3, <3>1 DEF EnqueueJob, Enqueue, Accepts, SweepSteps
  <2>4. CASE Retire(s) \/ EnqueueFails(s)
    BY <1>1, <2>4 DEF Retire, EnqueueFails, SweepSteps
  <2>5. CASE sweep' = [sweep EXCEPT ![s] = NoCandidate]
    BY <1>1, <2>5 DEF NoCandidate
  <2>6. QED
    BY <2>1, <2>2, <2>3, <2>4, <2>5 DEF SweepStep, SweepFault, MarkQueued, Refund, SweepCrashes
<1>5. Backed(session', accepted')
  <2>1. CASE Charge(s) /\ Claimable /\ ~InFlight
    <3>1. /\ session'.attempts = session.attempts + 1
          /\ session'.current = Dispatch(session.attempts + 1, "dispatching")
      BY <1>1, <2>1 DEF Charge, NextAttempt, SessionType
    <3>2. \A i \in 1 .. session.attempts + 1 :
            i \in 1 .. session.attempts \/ i = session.attempts + 1
      BY <1>2
    <3>3. QED
      BY <1>3, <2>1, <3>1, <3>2, NoneOnTheWay DEF Backed, Charged
  <2>2. CASE MarkQueued(s)
    BY <1>1, <1>3, <2>2, MovedBacked DEF MarkQueued, Charged, jobs
  <2>3. CASE Refund(s) /\ session.attempts = sweep[s].attempt
    <3>1. session'.attempts = sweep[s].seen
      BY <1>1, <2>3 DEF Refund, Refunded, SessionType
    <3>2. 1 .. sweep[s].seen \subseteq accepted
      BY <2>3 DEF Charged, Refund
    <3>3. QED
      BY <1>3, <3>1, <3>2 DEF Backed
  <2>4. CASE session'.attempts = session.attempts /\ session'.current = session.current
    BY <1>3, <2>4, BackedKept
  <2>5. CASE Retire(s)
    BY <1>1, <2>4, <2>5 DEF Retire, SessionType
  <2>6. QED
    BY <2>1, <2>2, <2>3, <2>4, <2>5
    DEF SweepStep, SweepFault, Select, Charge, EnqueueJob, EnqueueFails, Refund, Refunded,
        SweepCrashes
<1>6. QED
  BY <1>2, <1>3, <1>4, <1>5, ChargedKept DEF Charged

LEMMA ChargedStep ==
  ASSUME "dispatch" \notin Faults, IInv, Charged, [Next]_vars
  PROVE  Charged'
<1>1. CASE LeaseLapses
  <2>1. session'.attempts = session.attempts /\ session'.current = session.current
    BY <1>1 DEF LeaseLapses, IInv, TypeOK, SessionType
  <2>2. UNCHANGED <<arq, accepted, run, sweep, finish>>
    BY <1>1 DEF LeaseLapses, jobs
  <2>3. QED
    BY <2>1, <2>2, BackedKept, ChargedKept DEF Charged
<1>2. CASE UNCHANGED vars
  BY <1>2 DEF vars, Charged, Backed
<1>3. QED
  BY <1>1, <1>2, FinishCharged, JobCharged, SweepCharged DEF Next

\* What one sweep at a time relies on: nobody else charges the session, so the count it
\* saw is the row's until a verdict is published, and an attempt ARQ has not taken is
\* the one it is about to enqueue or to put back.
Alone ==
    /\ session.attempts <= MaxRecovery
    /\ \A j \in JobIds : run[j].loaded.attempts <= MaxRecovery
    /\ \A s \in Sweepers :
         /\ sweep[s].pc # "idle" => sweep[s].seen < MaxRecovery
         /\ sweep[s].pc = "retire" =>
              session.verdict = "given" /\ session.attempts = sweep[s].seen
         /\ sweep[s].pc = "charge" /\ Ungraded => session.attempts = sweep[s].seen
         /\ sweep[s].pc \in {"enqueue", "mark", "refund"} =>
              /\ sweep[s].attempt = sweep[s].seen + 1
              /\ Ungraded => session.attempts = sweep[s].attempt
    /\ Ungraded => \A i \in 1 .. session.attempts :
         \/ i \in accepted
         \/ \E s \in Sweepers : sweep[s].pc \in {"enqueue", "refund"} /\ sweep[s].attempt = i

\* A step that charges nothing and keeps the verdict.
LEMMA AloneKept ==
  ASSUME Alone, accepted \subseteq accepted', sweep' = sweep,
         session'.attempts = session.attempts, session'.verdict = session.verdict,
         \A j \in JobIds : run'[j].loaded.attempts <= MaxRecovery
  PROVE  Alone'
  BY DEF Alone, Ungraded

LEMMA FinishAlone ==
  ASSUME IInv, Alone,
         \/ \E r \in Receipts : ApplyReceipt(r)
         \/ \E f \in Finishers, status \in {"completed", "timed_out", "abandoned"} :
               Finish(f, status)
         \/ \E f \in Finishers : FinishStep(f) \/ FinishFault(f)
         \/ LeaseLapses \/ UNCHANGED vars
  PROVE  Alone'
<1>1. session \in SessionType
  BY DEF IInv, TypeOK
<1>2. run' = run /\ sweep' = sweep /\ accepted \subseteq accepted'
  BY DEF ApplyReceipt, Finish, FinishStep, FinishFault, Refinish, DispatchJob, DispatchFails,
         DispatchLost, RecordMissing, StampRedriven, LeaseLapses, Enqueue, Refuse, jobs, vars
<1>3. session'.attempts = session.attempts /\ session'.verdict = session.verdict
  <2>1. ASSUME NEW f \in Finishers, StampRedriven(f) \/ RecordMissing(f)
        PROVE  session'.attempts = session.attempts /\ session'.verdict = session.verdict
    BY <1>1, <2>1 DEF StampRedriven, RecordMissing, Moved, SessionType
  <2>2. ASSUME NEW f \in Finishers, NEW status, Finish(f, status)
        PROVE  session'.attempts = session.attempts /\ session'.verdict = session.verdict
    BY <1>1, <2>2 DEF Finish, SessionType
  <2>3. CASE LeaseLapses
    BY <1>1, <2>3 DEF LeaseLapses, SessionType
  <2>4. QED
    BY <2>1, <2>2, <2>3
    DEF ApplyReceipt, FinishStep, FinishFault, Refinish, DispatchJob, DispatchFails,
        DispatchLost, vars
<1>4. QED
  BY <1>2, <1>3, AloneKept DEF Alone

\* A publication may write back an older count, and gives the verdict.
LEMMA JobAlone ==
  ASSUME IInv, Alone, NEW j \in JobIds, JobStep(j) \/ JobFault(j)
  PROVE  Alone'
<1>1. session \in SessionType /\ TypeOK
  BY DEF IInv, TypeOK
<1>2. UNCHANGED <<accepted, sweep>>
  BY JobFrame
<1>3. \A k \in JobIds : run'[k].loaded.attempts <= MaxRecovery
  <2>1. NoRun.loaded.attempts = 0 /\ Snapshot(session).attempts = session.attempts
    BY DEF NoRun, NewSession, Snapshot
  <2>2. QED
    BY <1>1, <2>1, LoadedOnly, ConstantsAssumption DEF Alone
<1>4. CASE Publish(j) /\ Holds(j)
  <2>1. /\ session'.attempts = run[j].loaded.attempts /\ session'.verdict = "given"
        /\ session.verdict # "given"
    BY <1>1, <1>4 DEF Publish, Stamped, SessionType, Holds, IInv, Owned, Ungraded
  <2>2. QED
    BY <1>2, <1>3, <2>1 DEF Alone, Ungraded
<1>5. CASE ~(Publish(j) /\ Holds(j))
  <2>1. session'.attempts = session.attempts /\ session'.verdict = session.verdict
    <3>1. \A from, to : /\ Moved(session, j, from, to).attempts = session.attempts
                        /\ Moved(session, j, from, to).verdict = session.verdict
      BY <1>1 DEF Moved, SessionType
    <3>2. /\ Released(session, j).attempts = session.attempts
          /\ Released(session, j).verdict = session.verdict
      BY <1>1 DEF Released, SessionType
    <3>3. CASE Fail(j)
      <4>1. session' = Released(session, j)
               \/ session' = [Released(session, j) EXCEPT !.status = "failed"]
        BY <3>3 DEF Fail, FailureTrail
      <4>2. QED
        BY <1>1, <3>2, <4>1, ReleasedRow DEF SessionType
    <3>4. QED
      BY <1>1, <1>5, <3>1, <3>2, <3>3
      DEF JobStep, JobFault, Pick, PickRefused, Load, Claim, Judge, Publish, Settle,
          ResultExpires, Killed, Cancelled, TimedOut, SessionType
  <2>2. QED
    BY <1>2, <1>3, <2>1, AloneKept
<1>6. QED
  BY <1>4, <1>5

\* Alone as it reads for the only sweep.
LEMMA TheSweep ==
  ASSUME NEW s \in Sweepers, \A u \in Sweepers : u = s
  PROVE  Alone <=>
    /\ session.attempts <= MaxRecovery
    /\ \A j \in JobIds : run[j].loaded.attempts <= MaxRecovery
    /\ sweep[s].pc # "idle" => sweep[s].seen < MaxRecovery
    /\ sweep[s].pc = "retire" => session.verdict = "given" /\ session.attempts = sweep[s].seen
    /\ sweep[s].pc = "charge" /\ Ungraded => session.attempts = sweep[s].seen
    /\ sweep[s].pc \in {"enqueue", "mark", "refund"} =>
         /\ sweep[s].attempt = sweep[s].seen + 1
         /\ Ungraded => session.attempts = sweep[s].attempt
    /\ Ungraded => \A i \in 1 .. session.attempts :
         i \in accepted \/ (sweep[s].pc \in {"enqueue", "refund"} /\ sweep[s].attempt = i)
  BY DEF Alone

\* The only sweep: it charges the count it saw, and ends with every attempt taken by
\* ARQ or with the one it could not enqueue put back.
LEMMA UpToNext ==
  ASSUME NEW n \in Nat, NEW m \in Nat, n < m
  PROVE  /\ n <= m /\ n + 1 <= m
         /\ \A i \in 1 .. n + 1 : i \in 1 .. n \/ i = n + 1
  OBVIOUS

LEMMA SweepAlone ==
  ASSUME \A s, u \in Sweepers : s = u, "sweep crash" \notin Faults, IInv, Charged, Alone,
         NEW s \in Sweepers, SweepStep(s) \/ SweepFault(s)
  PROVE  Alone'
<1> DEFINE T == [pc : SweepPcs, seen : Nat, attempt : 0 .. MaxJobs]
<1> DEFINE Sole ==
      /\ session.attempts <= MaxRecovery
      /\ sweep[s].pc # "idle" => sweep[s].seen < MaxRecovery
      /\ sweep[s].pc = "retire" => session.verdict = "given" /\ session.attempts = sweep[s].seen
      /\ sweep[s].pc = "charge" /\ Ungraded => session.attempts = sweep[s].seen
      /\ sweep[s].pc \in {"enqueue", "mark", "refund"} =>
           /\ sweep[s].attempt = sweep[s].seen + 1
           /\ Ungraded => session.attempts = sweep[s].attempt
      /\ Ungraded => \A i \in 1 .. session.attempts :
           i \in accepted \/ (sweep[s].pc \in {"enqueue", "refund"} /\ sweep[s].attempt = i)
<1>1. \A u \in Sweepers : u = s
  OBVIOUS
<1>2. Sole
  BY <1>1, TheSweep
<1>3. SUFFICES Sole'
  <2>1. run' = run /\ \A j \in JobIds : run'[j].loaded.attempts <= MaxRecovery
    BY SweepFrame DEF Alone
  <2>2. Sole' => Alone'
    BY <1>1, <2>1 DEF Alone
  <2>3. QED
    BY <2>2
<1>4. /\ session \in SessionType /\ TypeOK
      /\ sweep \in [Sweepers -> T] /\ sweep[s] \in T
  BY DEF IInv, TypeOK
<1>5. /\ session.attempts \in Nat /\ MaxRecovery \in Nat
      /\ sweep[s].seen \in Nat /\ sweep[s].attempt \in JobIds
  <2>1. session.attempts \in Nat /\ MaxRecovery \in Nat
    BY <1>4, ConstantsAssumption DEF SessionType
  <2>2. sweep[s].seen \in Nat /\ sweep[s].attempt \in 0 .. MaxJobs
    BY <1>4
  <2>3. QED
    BY <2>1, <2>2 DEF JobIds
<1>6. sweep[s].pc # "idle" => 1 .. sweep[s].seen \subseteq accepted
  BY DEF Charged
<1> HIDE DEF T, Sole
<1>7. CASE Select(s)
  <2>1. /\ sweep[s].pc = "idle" /\ session.attempts < MaxRecovery
        /\ UNCHANGED <<session, accepted>>
        /\ sweep'[s].seen = session.attempts
        /\ \/ sweep'[s].pc = "charge" /\ Ungraded
           \/ sweep'[s].pc = "retire" /\ session.verdict = "given"
    BY <1>4, <1>7 DEF Select, Recoverable, Ungraded, jobs, T
  <2>2. QED
    BY <1>2, <1>5, <2>1 DEF Sole, Ungraded
<1>8. CASE Retire(s)
  <2>1. /\ sweep[s].pc = "retire" /\ sweep'[s].pc = "charge" /\ accepted' = accepted
        /\ sweep'[s].seen = sweep[s].seen
        /\ session'.attempts = session.attempts
    BY <1>4, <1>8 DEF Retire, SweepSteps, SessionType, jobs, T
  <2>2. QED
    BY <1>2, <1>5, <1>6, <2>1 DEF Sole
<1>9. CASE Charge(s) /\ Claimable /\ ~InFlight
  <2> DEFINE next == session.attempts + 1
  <2>1. sweep[s].pc = "charge" /\ sweep[s].pc # "idle" /\ accepted' = accepted /\ Ungraded
    BY <1>9 DEF Charge, Claimable, jobs
  <2>2. session'.attempts = next
    <3>1. session' = [session EXCEPT !.attempts = next, !.current = Dispatch(next, "dispatching")]
      BY <1>9 DEF Charge, NextAttempt
    <3>2. QED
      BY <1>4, <3>1 DEF SessionType
  <2>3. sweep'[s].pc = "enqueue" /\ sweep'[s].seen = sweep[s].seen /\ sweep'[s].attempt = next
    <3>1. sweep' = [sweep EXCEPT ![s] = [sweep[s] EXCEPT !.pc = "enqueue", !.attempt = next]]
      BY <1>4, <1>9 DEF Charge, NextAttempt
    <3>2. QED
      BY <1>4, <3>1 DEF T
  <2>4. session.attempts = sweep[s].seen /\ sweep[s].seen < MaxRecovery
    BY <1>2, <2>1 DEF Sole
  <2>5. 1 .. session.attempts \subseteq accepted
    BY <1>6, <2>1, <2>4
  <2>6. next <= MaxRecovery /\ \A i \in 1 .. next : i \in 1 .. session.attempts \/ i = next
    BY <1>5, <2>4, UpToNext
  <2>7. next = sweep'[s].attempt /\ sweep'[s].attempt = sweep'[s].seen + 1
    BY <2>3, <2>4
  <2>8. \A i \in 1 .. session'.attempts : i \in accepted' \/ sweep'[s].attempt = i
    BY <2>1, <2>2, <2>5, <2>6, <2>7
  <2> HIDE DEF next
  <2>9. QED
    BY <2>2, <2>3, <2>4, <2>6, <2>7, <2>8 DEF Sole
<1>10. CASE Charge(s) /\ ~(Claimable /\ ~InFlight)
  <2>1. /\ sweep[s].pc = "charge" /\ sweep'[s].pc = "idle" /\ UNCHANGED <<session, accepted>>
    <3>1. /\ sweep[s].pc = "charge" /\ session' = session /\ UNCHANGED jobs
          /\ sweep' = [sweep EXCEPT ![s] = NoCandidate]
      BY <1>10 DEF Charge
    <3>2. QED
      BY <1>4, <3>1 DEF NoCandidate, jobs
  <2>2. QED
    BY <1>2, <1>5, <2>1 DEF Sole, Ungraded
<1>11. CASE EnqueueJob(s)
  <2>1. /\ sweep[s].pc = "enqueue" /\ session' = session
        /\ sweep'[s].seen = sweep[s].seen /\ sweep'[s].attempt = sweep[s].attempt
        /\ sweep'[s].pc \in {"mark", "refund"}
        /\ accepted \subseteq accepted'
    BY <1>4, <1>11 DEF EnqueueJob, SweepSteps, Enqueue, Refuse, T
  <2>2. sweep[s].attempt \in accepted'
    BY <1>5, <1>11 DEF EnqueueJob, Enqueue, Refuse, Accepts, Charged
  <2>3. QED
    BY <1>2, <1>5, <2>1, <2>2 DEF Sole, Ungraded
<1>12. CASE EnqueueFails(s)
  <2>1. /\ sweep[s].pc = "enqueue" /\ UNCHANGED <<session, accepted>>
        /\ sweep'[s].seen = sweep[s].seen /\ sweep'[s].attempt = sweep[s].attempt
        /\ sweep'[s].pc = "refund"
    BY <1>4, <1>12 DEF EnqueueFails, SweepSteps, jobs, T
  <2>2. QED
    BY <1>2, <1>5, <2>1 DEF Sole, Ungraded
<1>13. CASE MarkQueued(s)
  <2>1. /\ sweep[s].pc = "mark" /\ sweep'[s].pc = "idle" /\ accepted' = accepted
        /\ session'.attempts = session.attempts /\ session'.verdict = session.verdict
    BY <1>4, <1>13 DEF MarkQueued, NoCandidate, Moved, SessionType, jobs
  <2>2. QED
    BY <1>2, <1>5, <2>1 DEF Sole, Ungraded
<1>14. CASE Refund(s)
  <2>1. sweep[s].pc = "refund" /\ sweep'[s].pc = "idle" /\ accepted' = accepted
    BY <1>4, <1>14 DEF Refund, NoCandidate, jobs
  <2>2. CASE session.attempts = sweep[s].attempt
    <3>1. session'.attempts = sweep[s].seen
      BY <1>4, <1>14, <2>2 DEF Refund, Refunded, SessionType
    <3>2. sweep[s].pc # "idle"
      BY <2>1
    <3>3. sweep[s].seen < MaxRecovery
      BY <1>2, <3>2 DEF Sole
    <3>4. 1 .. session'.attempts \subseteq accepted'
      BY <1>6, <2>1, <3>1, <3>2
    <3>5. session'.attempts <= MaxRecovery
      BY <1>5, <3>1, <3>3, UpToNext
    <3>6. QED
      BY <2>1, <3>4, <3>5 DEF Sole
  <2>3. CASE session.attempts # sweep[s].attempt
    <3>1. session' = session /\ ~Ungraded
      BY <1>2, <1>14, <2>1, <2>3 DEF Refund, Refunded, Sole
    <3>2. QED
      BY <1>2, <1>5, <2>1, <3>1 DEF Sole, Ungraded
  <2>4. QED
    BY <2>2, <2>3
<1>15. QED
  BY <1>7, <1>8, <1>9, <1>10, <1>11, <1>12, <1>13, <1>14
  DEF SweepStep, SweepFault, SweepCrashes, Fault

LEMMA BudgetInit == Init => Charged /\ Alone
<1> SUFFICES ASSUME Init PROVE Charged /\ Alone
  OBVIOUS
<1>1. /\ session.attempts = 0 /\ NoRun.loaded.attempts = 0
      /\ \A s \in Sweepers : sweep[s].pc = "idle"
  BY DEF Init, NewSession, NoRun, Snapshot, NoCandidate
<1>2. Charged
  BY <1>1, SnapshotBacked DEF Init, Charged
<1>3. Alone
  BY <1>1, ConstantsAssumption DEF Init, Alone
<1>4. QED
  BY <1>2, <1>3

\* Whatever happens to the jobs, the leases and the enqueues, the attempts of a session
\* are counted truthfully: each is a job ARQ took, or is still being dispatched.
THEOREM ChargesAreJobs ==
  ASSUME "dispatch" \notin Faults
  PROVE  Spec => []Backed(session, accepted)
<1>1. IInv /\ Charged /\ [Next]_vars => Charged'
  BY ChargedStep
<1>2. Charged => Backed(session, accepted)
  BY DEF Charged
<1>3. QED
  BY <1>1, <1>2, BudgetInit, ClaimInvariant, PTL DEF Spec

\* As long as the runs of the sweep do not overlap and none dies between the charge and
\* the enqueue, the recovery loop is bounded, and an outage of Redis or of the judge does
\* not use up the attempts of a student.
THEOREM BudgetSpentOnJobsInvariant ==
  ASSUME \A s, u \in Sweepers : s = u, "sweep crash" \notin Faults, "dispatch" \notin Faults
  PROVE  Spec => []BudgetSpentOnJobs
<1>1. IInv /\ Charged /\ [Next]_vars => Charged'
  BY ChargedStep
<1>2. IInv /\ Charged /\ Alone /\ [Next]_vars => Alone'
  BY FinishAlone, JobAlone, SweepAlone DEF Next
<1>3. Alone => BudgetSpentOnJobs
  BY DEF Alone, BudgetSpentOnJobs
<1>4. QED
  BY <1>1, <1>2, <1>3, BudgetInit, ClaimInvariant, PTL DEF Spec
=============================================================================

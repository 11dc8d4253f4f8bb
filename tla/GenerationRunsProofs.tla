------------------------ MODULE GenerationRunsProofs ------------------------
(* Theorems about GenerationRuns, for every number of requests, runs, jobs,    *)
(* tries and faults: the types, the retries and requeues within their limits,  *)
(* one unsettled run per interview, what students are served, and what holds   *)
(* until Redis loses a job: questions added once, the reaper's budget, final   *)
(* outcomes.                                                                   *)
EXTENDS GenerationRuns, TLAPS

\* A row that was inserted; rows are not deleted.
Exists(r) == r \in RunIds /\ run[r].status # "none"

\* Whoever works on a run works on a row that exists: the type of what a task, a
\* request and the reaper write depends on it.
Named ==
    /\ \A j \in JobIds : job[j].pc # "none" => Exists(job[j].run)
    /\ \A a \in Authors : author[a].pc \in {"opened", "raised"} => Exists(author[a].run)
    /\ reaper.pc = "charged" => Exists(reaper.run)
    /\ \A r \in reaper.todo \cup reaper.failing : Exists(r)

IInv == TypeOK /\ Named
-----------------------------------------------------------------------------
LEMMA Bounds ==
  /\ RunIds \subseteq 0 .. MaxRuns /\ 0 \in 0 .. MaxRuns
  /\ 1 \in 1 .. MaxTries /\ 0 \in 0 .. MaxReaps
  BY ConstantsAssumption DEF RunIds

LEMMA NewRecords ==
  /\ NoRun \in RunType /\ NoJob \in JobType /\ NoAuthor \in AuthorType
  /\ NoTick \in TickType /\ NoHistory \in HistoryType
  BY ConstantsAssumption
  DEF NoRun, NoJob, NoAuthor, NoTick, NoHistory, RunType, JobType, AuthorType, TickType,
      HistoryType, Modes, RunIds, JobIds, Active, Settled

LEMMA InitIInv == Init => IInv
<1>1. ASSUME Init PROVE TypeOK
  BY <1>1, NewRecords, ConstantsAssumption DEF Init, TypeOK
<1>2. ASSUME Init PROVE Named
  BY <1>2 DEF Init, Named, NoJob, NoAuthor, NoTick
<1>3. QED
  BY <1>1, <1>2 DEF IInv

\* A new job names the run it is queued for.
LEMMA Enqueued ==
  ASSUME TypeOK, NEW r \in RunIds, NEW j \in JobIds, Enqueue(j, r)
  PROVE  /\ job' \in [JobIds -> JobType]
         /\ \A k \in JobIds : job'[k] = job[k] \/ (job'[k].run = r /\ job'[k].pc = "queued")
<1> DEFINE new == [NoJob EXCEPT !.pc = "queued", !.run = r, !.live = TRUE]
<1>1. new \in JobType /\ new.run = r /\ new.pc = "queued"
  BY Bounds DEF JobType, NoJob
<1>2. job' = [job EXCEPT ![j] = new]
  BY DEF Enqueue
<1>3. QED
  BY <1>1, <1>2 DEF TypeOK

LEMMA FaultType ==
  ASSUME TypeOK, NEW f, Fault(f)
  PROVE  faults' \in 0 .. MaxFaults
  BY ConstantsAssumption DEF TypeOK, Fault

LEMMA Raises ==
  ASSUME TypeOK, NEW r \in RunIds, EnqueueRaises(r)
  PROVE  /\ job' \in [JobIds -> JobType]
         /\ \A k \in JobIds : job'[k] = job[k] \/ (job'[k].run = r /\ job'[k].pc = "queued")
         /\ faults' \in 0 .. MaxFaults
<1>1. faults' \in 0 .. MaxFaults
  BY FaultType DEF EnqueueRaises
<1>2. CASE UNCHANGED job
  BY <1>1, <1>2 DEF TypeOK
<1>3. CASE \E j \in JobIds : Enqueue(j, r)
  BY <1>1, <1>3, Enqueued
<1>4. QED
  BY <1>2, <1>3 DEF EnqueueRaises

\* The next try of a job is within the tries ARQ allows.
LEMMA NextTryType ==
  ASSUME TypeOK, NEW j \in JobIds
  PROVE  /\ NextTry(j) \in JobType
         /\ NextTry(j).pc = "none" \/ NextTry(j).run = job[j].run
<1>1. CASE job[j].live /\ job[j].try < MaxTries
  <2>1. job[j].try \in 1 .. MaxTries /\ job[j] \in JobType
    BY DEF TypeOK, JobType
  <2>2. job[j].try + 1 \in 1 .. MaxTries
    BY <1>1, <2>1, ConstantsAssumption
  <2>3. NextTry(j) = [job[j] EXCEPT !.pc = "queued", !.try = job[j].try + 1]
    BY <1>1 DEF NextTry
  <2>4. QED
    BY <2>1, <2>2, <2>3 DEF JobType
<1>2. CASE ~(job[j].live /\ job[j].try < MaxTries)
  BY <1>2, NewRecords DEF NextTry, NoJob
<1>3. QED
  BY <1>1, <1>2

LEMMA MergedType ==
  ASSUME TypeOK, NEW j \in JobIds, Exists(job[j].run)
  PROVE  Merged(j) \in 0 .. MaxReaps
  BY DEF TypeOK, JobType, RunType, Merged, Exists

LEMMA FailRowsType ==
  ASSUME TypeOK, NEW rows \in SUBSET RunIds
  PROVE  /\ FailRows(rows) \in [RunIds -> RunType]
         /\ \A r \in RunIds : /\ FailRows(rows)[r].status = IF r \in rows THEN "failed"
                                                             ELSE run[r].status
                              /\ FailRows(rows)[r].mode = run[r].mode
  BY DEF TypeOK, RunType, FailRows, Settled
-----------------------------------------------------------------------------
(* Requests and authoring *)

LEMMA RequestStep ==
  ASSUME IInv, NEW a \in Authors, Request(a)
  PROVE  IInv'
<1> USE DEF IInv
<1>1. CASE \E mode \in Modes, targets \in SUBSET Batches : Ask(a, mode, targets)
  <2>1. TypeOK'
    BY <1>1, ConstantsAssumption DEF TypeOK, AuthorType, Ask, RunIds
  <2>2. Named'
    BY <1>1 DEF TypeOK, AuthorType, Ask, Named, Exists
  <2>3. QED
    BY <2>1, <2>2
<1>2. ASSUME NEW r \in RunIds, Open(a, r) PROVE IInv'
  <2>1. TypeOK'
    <3>1. [status |-> "pending", mode |-> author[a].mode, targets |-> author[a].targets,
           reaps |-> 0, fresh |-> TRUE] \in RunType
      BY ConstantsAssumption DEF TypeOK, AuthorType, RunType, Active
    <3>2. [author[a] EXCEPT !.pc = "opened", !.run = r] \in AuthorType
      BY Bounds DEF TypeOK, AuthorType
    <3>3. QED
      BY <1>2, <3>1, <3>2 DEF TypeOK, Open
  <2>2. Named'
    BY <1>2 DEF TypeOK, AuthorType, RunType, Open, Named, Exists
  <2>3. QED
    BY <2>1, <2>2
<1>3. CASE Refuse(a) \/ RequestDies(a)
  <2>1. TypeOK'
    BY <1>3, NewRecords, ConstantsAssumption DEF TypeOK, Refuse, RequestDies, Fault
  <2>2. Named'
    BY <1>3 DEF TypeOK, Refuse, RequestDies, Named, Exists, NoAuthor
  <2>3. QED
    BY <2>1, <2>2
<1>4. ASSUME NEW j \in JobIds, Dispatch(a, j) PROVE IInv'
  <2>1. Exists(author[a].run)
    BY <1>4 DEF Dispatch, Named
  <2>2. TypeOK'
    BY <1>4, <2>1, Enqueued, NewRecords DEF TypeOK, Dispatch, Exists
  <2>3. Named'
    BY <1>4, <2>1, Enqueued DEF TypeOK, Dispatch, Named, Exists, NoAuthor
  <2>4. QED
    BY <2>2, <2>3
<1>5. CASE DispatchRaises(a)
  <2>1. Exists(author[a].run)
    BY <1>5 DEF DispatchRaises, Named
  <2>2. TypeOK'
    BY <1>5, <2>1, Raises DEF TypeOK, AuthorType, DispatchRaises, Exists
  <2>3. Named'
    BY <1>5, <2>1, Raises DEF TypeOK, AuthorType, DispatchRaises, Named, Exists
  <2>4. QED
    BY <2>2, <2>3
<1>6. CASE DispatchFails(a)
  <2>1. TypeOK'
    BY <1>6, NewRecords, ZenonT(30) DEF TypeOK, RunType, DispatchFails, Settled
  <2>2. Named'
    BY <1>6 DEF TypeOK, RunType, DispatchFails, Named, Exists, NoAuthor
  <2>3. QED
    BY <2>1, <2>2
<1>7. QED
  BY <1>1, <1>2, <1>3, <1>4, <1>5, <1>6 DEF Request

LEMMA AuthoringStep ==
  ASSUME IInv, Authoring
  PROVE  IInv'
<1>1. TypeOK'
  BY DEF IInv, Authoring, Approve, Delete, Publish, Archive, Reopen, TypeOK, HistoryType
<1>2. Named'
  BY DEF IInv, Authoring, Approve, Delete, Publish, Archive, Reopen, Named, Exists
<1>3. QED
  BY <1>1, <1>2 DEF IInv
-----------------------------------------------------------------------------
(* Worker tasks *)

\* What a task leaves of its job.
Handed(j) == \/ job' = job
             \/ \E new \in JobType :
                   /\ job' = [job EXCEPT ![j] = new]
                   /\ new.pc = "none" \/ (new.run = job[j].run /\ job[j].pc # "none")

Kept == /\ run' \in [RunIds -> RunType]
        /\ \A r \in RunIds : run[r].status # "none" => run'[r].status # "none"

\* A job that became another record names the same run or none; rows stay rows.
LEMMA JobKeepsNamed ==
  ASSUME Named, NEW j \in JobIds, job \in [JobIds -> JobType],
         Handed(j), \A r \in RunIds : run[r].status # "none" => run'[r].status # "none",
         UNCHANGED <<author, reaper>>
  PROVE  Named'
  BY DEF Named, Exists, Handed

LEMMA RowWritten ==
  ASSUME TypeOK, NEW r \in RunIds, NEW row \in RunType,
         row.status # "none" \/ row.status = run[r].status,
         run' = [run EXCEPT ![r] = row]
  PROVE  Kept
  BY DEF TypeOK, Kept

LEMMA JobGoesOn ==
  ASSUME TypeOK, NEW j \in JobIds, job[j].pc # "none",
         NEW pc \in {"started", "generating", "checked", "notifying"},
         job' = [job EXCEPT ![j].pc = pc]
  PROVE  Handed(j)
<1>1. [job[j] EXCEPT !.pc = pc] \in JobType
  BY DEF TypeOK, JobType
<1>2. [job[j] EXCEPT !.pc = pc].run = job[j].run
  BY DEF TypeOK, JobType
<1>3. job' = [job EXCEPT ![j] = [job[j] EXCEPT !.pc = pc]]
  OBVIOUS
<1>4. QED
  BY <1>1, <1>2, <1>3 DEF Handed

LEMMA JobEnds ==
  ASSUME NEW j \in JobIds, job' = [job EXCEPT ![j] = NoJob]
  PROVE  Handed(j)
  BY NewRecords DEF Handed, NoJob

LEMMA WorkTypes ==
  ASSUME IInv, NEW j \in JobIds, Work(j) \/ Progress(j)
  PROVE  Kept /\ Handed(j)
<1> USE DEF IInv
<1> DEFINE r == job[j].run
<1>1. job[j].pc # "none" /\ Exists(r) /\ job[j] \in JobType
  BY DEF TypeOK, Named, Work, Progress, StartQuiz, StartInterview, CheckParent, Persist,
         PastCheck, Fail, Retry, Finish
<1>2. r \in RunIds /\ run[r] \in RunType /\ run[r].status # "none"
  BY <1>1 DEF Exists, TypeOK
<1>3. Merged(j) \in 0 .. MaxReaps
  BY <1>1, MergedType
<1>4. UNCHANGED run => Kept
  BY DEF TypeOK, Kept
<1>5. ASSUME NEW status \in Active \cup Settled, NEW fresh \in BOOLEAN,
             run' = [run EXCEPT ![r].status = status, ![r].fresh = fresh]
      PROVE  Kept
  <2>1. [run[r] EXCEPT !.status = status, !.fresh = fresh] \in RunType
    BY <1>2, <1>5 DEF RunType
  <2>2. [run[r] EXCEPT !.status = status, !.fresh = fresh].status # "none"
    BY <1>2, <1>5 DEF RunType, Active, Settled
  <2>3. run' = [run EXCEPT ![r] = [run[r] EXCEPT !.status = status, !.fresh = fresh]]
    BY <1>2, <1>5 DEF TypeOK, RunType
  <2>4. QED
    BY <1>2, <2>1, <2>2, <2>3, RowWritten
<1>6. ASSUME StartQuiz(j) PROVE Kept /\ Handed(j)
  BY <1>1, <1>4, <1>5, <1>6, JobGoesOn, JobEnds DEF StartQuiz, Active
<1>7. ASSUME StartInterview(j) PROVE Kept /\ Handed(j)
  <2>1. CASE run[r].status = "pending"
    <3>1. [job[j] EXCEPT !.pc = "generating", !.reaps = run[r].reaps] \in JobType
      BY <1>1, <1>2 DEF JobType, RunType
    <3>2. [job[j] EXCEPT !.pc = "generating", !.reaps = run[r].reaps].run = r
      BY <1>1 DEF JobType
    <3>3. job' = [job EXCEPT ![j] = [job[j] EXCEPT !.pc = "generating", !.reaps = run[r].reaps]]
      BY <1>7, <2>1 DEF StartInterview, TypeOK, JobType
    <3>4. Handed(j)
      BY <1>1, <3>1, <3>2, <3>3 DEF Handed
    <3>5. QED
      BY <1>5, <1>7, <2>1, <3>4 DEF StartInterview, Active
  <2>2. CASE run[r].status # "pending"
    BY <1>4, <1>7, <2>2, JobEnds DEF StartInterview
  <2>3. QED
    BY <2>1, <2>2
<1>8. ASSUME CheckParent(j) PROVE Kept /\ Handed(j)
  BY <1>1, <1>4, <1>8, JobGoesOn DEF CheckParent
<1>9. ASSUME Progress(j) PROVE Kept /\ Handed(j)
  <2>1. Kept
    <3> DEFINE fresh == run[r].status \in Active
    <3>1. fresh \in BOOLEAN
      OBVIOUS
    <3>2. run' = [run EXCEPT ![r].fresh = fresh, ![r].reaps = Merged(j)]
      BY <1>9 DEF Progress
    <3> HIDE DEF fresh
    <3>3. run' = [run EXCEPT ![r] = [run[r] EXCEPT !.fresh = fresh, !.reaps = Merged(j)]]
      BY <1>2, <3>2 DEF TypeOK, RunType
    <3>4. [run[r] EXCEPT !.fresh = fresh, !.reaps = Merged(j)] \in RunType
      BY <1>2, <1>3, <3>1 DEF RunType
    <3>5. [run[r] EXCEPT !.fresh = fresh, !.reaps = Merged(j)].status = run[r].status
      BY <1>2 DEF RunType
    <3>6. QED
      BY <1>2, <3>3, <3>4, <3>5, RowWritten
  <2>2. QED
    BY <1>9, <2>1 DEF Progress, Handed
<1>10. ASSUME NEW b \in Batches, Persist(j, b) PROVE Kept /\ Handed(j)
  <2>1. Kept
    BY <1>2, <1>3, <1>10 DEF TypeOK, RunType, Persist, Kept, Settled
  <2>2. QED
    BY <1>1, <1>10, <2>1, JobGoesOn DEF Persist
<1>11. ASSUME Fail(j) PROVE Kept /\ Handed(j)
  BY <1>1, <1>5, <1>11, JobGoesOn DEF Fail, Settled
<1>12. ASSUME Retry(j) PROVE Kept /\ Handed(j)
  <2>1. job' = [job EXCEPT ![j] = NextTry(j)] => Handed(j)
    BY <1>1, NextTryType DEF Handed
  <2>2. CASE run[r].status \in Settled /\ InFlight
    BY <1>4, <1>12, <2>2, JobEnds DEF Retry
  <2>3. CASE ~(run[r].status \in Settled /\ InFlight)
    BY <1>5, <1>12, <2>1, <2>3 DEF Retry, Active
  <2>4. QED
    BY <2>2, <2>3
<1>13. ASSUME Finish(j) PROVE Kept /\ Handed(j)
  BY <1>4, <1>13, JobEnds DEF Finish
<1>14. QED
  BY <1>6, <1>7, <1>8, <1>9, <1>10, <1>11, <1>12, <1>13 DEF Work

LEMMA WorkStep ==
  ASSUME IInv, NEW j \in JobIds, Work(j) \/ Progress(j)
  PROVE  IInv'
<1> USE DEF IInv
<1>1. Named'
  <2>1. UNCHANGED <<author, reaper>>
    BY DEF Work, Progress, StartQuiz, StartInterview, CheckParent, Persist, Fail, Retry, Finish
  <2>2. QED
    BY <2>1, WorkTypes, JobKeepsNamed DEF TypeOK, Kept
<1>2. batch' \in [Batches -> {"none", "pending", "approved", "gone"}]
  BY ZenonT(30)
  DEF TypeOK, Work, Progress, StartQuiz, StartInterview, CheckParent, Persist, Written, Fail,
      Retry, Finish
<1>3. history' \in HistoryType
  <2>1. ASSUME NEW b \in Batches, Persist(j, b) PROVE history' \in HistoryType
    <3>1. history \in HistoryType
      BY DEF TypeOK
    <3>2. history' = [history EXCEPT !.persisted[job[j].run] = @ + 1]
      BY <2>1 DEF Persist
    <3>3. QED
      BY <3>1, <3>2 DEF HistoryType
  <2>2. CASE UNCHANGED history
    BY <2>2 DEF TypeOK
  <2>3. QED
    BY <2>1, <2>2 DEF Work, Progress, StartQuiz, StartInterview, CheckParent, Fail, Retry, Finish
<1>4. UNCHANGED <<kind, parent, author, reaper, faults>>
  BY DEF Work, Progress, StartQuiz, StartInterview, CheckParent, Persist, Fail, Retry, Finish
<1>5. job' \in [JobIds -> JobType]
  BY WorkTypes DEF TypeOK, Handed
<1>6. QED
  BY <1>1, <1>2, <1>3, <1>4, <1>5, WorkTypes DEF TypeOK, Kept

LEMMA DisturbStep ==
  ASSUME IInv, NEW j \in JobIds, Disturb(j)
  PROVE  IInv'
<1> USE DEF IInv
<1>1. Handed(j)
  <2>1. CASE Kill(j)
    BY <2>1, NextTryType DEF Kill, Working, Handed
  <2>2. CASE Timeout(j)
    BY <2>2, JobEnds DEF Timeout
  <2>3. CASE Lose(j)
    <3>1. [job[j] EXCEPT !.live = FALSE] \in JobType /\ [job[j] EXCEPT !.live = FALSE].run = job[j].run
      BY DEF TypeOK, JobType
    <3>2. QED
      BY <2>3, <3>1, JobEnds DEF Lose, Working, Handed
  <2>4. QED
    BY <2>1, <2>2, <2>3 DEF Disturb
<1>2. UNCHANGED <<kind, parent, batch, run, author, reaper>>
  BY DEF Disturb, Kill, Timeout, Lose
<1>3. faults' \in 0 .. MaxFaults
  BY FaultType DEF Disturb, Kill, Timeout, Lose
<1>4. history' \in HistoryType
  BY DEF TypeOK, HistoryType, Disturb, Kill, Timeout, Lose
<1>5. Named'
  BY <1>1, <1>2, JobKeepsNamed DEF TypeOK
<1>6. QED
  BY <1>1, <1>2, <1>3, <1>4, <1>5 DEF TypeOK, Handed
-----------------------------------------------------------------------------
(* The reaper *)

\* A tick that ends leaves nothing to act on.
LEMMA TickOver ==
  ASSUME Named, Kept, job' = job, author' = author, reaper' = NoTick
  PROVE  Named' /\ reaper' \in TickType
  BY NewRecords DEF Named, Exists, Kept, NoTick

LEMMA ReapStep ==
  ASSUME IInv, Reap
  PROVE  IInv'
<1> USE DEF IInv
<1>0. UNCHANGED run => Kept
  BY DEF TypeOK, Kept
<1>1. CASE Scan
  <2>1. TypeOK'
    BY <1>1 DEF TypeOK, TickType, Scan
  <2>2. Named'
    BY <1>1 DEF TypeOK, TickType, Named, Exists, Scan, Stale, Active
  <2>3. QED
    BY <2>1, <2>2
<1>2. CASE Select
  <2>1. reaper' \in TickType
    BY <1>2 DEF TypeOK, TickType, RunType, Select
  <2>2. reaper.pc = "scanned" /\ reaper' = [reaper EXCEPT !.pc = "acting",
                                !.todo = {r \in @ : Stale(r)},
                                !.pending = {r \in RunIds : run[r].status = "pending"},
                                !.reaps = [r \in RunIds |-> run[r].reaps]]
    BY <1>2 DEF Select
  <2>3. QED
    <3>1. TypeOK'
      BY <1>2, <2>1 DEF TypeOK, Select
    <3>2. \A r \in reaper'.todo \cup reaper'.failing : Exists(r)
      BY <2>2 DEF TypeOK, TickType, Named, Exists, Stale, Active
    <3>3. Named'
      BY <1>2, <2>2, <3>2 DEF TypeOK, TickType, Named, Exists, Select
    <3>4. QED
      BY <3>1, <3>3
<1>3. ASSUME NEW r \in RunIds, GiveUp(r) PROVE IInv'
  <2>1. TypeOK'
    BY <1>3 DEF TypeOK, TickType, GiveUp
  <2>2. Named'
    BY <1>3 DEF TypeOK, TickType, Named, Exists, GiveUp
  <2>3. QED
    BY <2>1, <2>2
<1>4. ASSUME NEW r \in RunIds, Requeue(r) PROVE IInv'
  <2> DEFINE failed == FailRows(reaper.failing)
  <2> DEFINE status == IF r \in reaper.pending THEN run[r].status ELSE "pending"
  <2>1. failed \in [RunIds -> RunType] /\ \A q \in RunIds : run[q].status # "none" => failed[q].status # "none"
    BY FailRowsType DEF TypeOK, TickType
  <2>2. reaper.reaps[r] + 1 \in 0 .. MaxReaps
    BY <1>4, ConstantsAssumption DEF TypeOK, TickType, Requeue
  <2>3. run[r].status # "none" /\ status \in Active \cup Settled
    BY <1>4 DEF Requeue, Named, Exists, TypeOK, RunType, Active
  <2>4. CASE reaper' = NoTick /\ UNCHANGED run
    BY <1>0, <1>4, <2>4, TickOver DEF Requeue, TypeOK
  <2>5. CASE /\ run' = [failed EXCEPT ![r].status = status, ![r].fresh = status \in Active,
                                       ![r].reaps = reaper.reaps[r] + 1]
             /\ reaper' = [reaper EXCEPT !.pc = "charged", !.run = r, !.failing = {},
                                         !.todo = @ \ {r}]
    <3>1. Kept
      <4> DEFINE fresh == status \in Active
      <4> DEFINE row == [failed[r] EXCEPT !.status = status, !.fresh = fresh,
                                          !.reaps = reaper.reaps[r] + 1]
      <4>1. fresh \in BOOLEAN
        OBVIOUS
      <4>2. row \in RunType /\ row.status # "none"
        <5> HIDE DEF status, fresh, failed
        <5>1. failed[r] \in RunType
          BY <2>1
        <5>2. QED
          BY <2>2, <2>3, <4>1, <5>1 DEF RunType, Active, Settled
      <4>3. run' = [failed EXCEPT ![r] = row]
        <5> HIDE DEF status, failed
        <5>1. QED
          BY <2>1, <2>5 DEF RunType
      <4> HIDE DEF row, failed
      <4>4. QED
        BY <2>1, <4>2, <4>3 DEF Kept
    <3>2. reaper' \in TickType
      BY <2>5, Bounds DEF TypeOK, TickType
    <3>3. Named'
      BY <1>4, <2>3, <2>5, <3>1 DEF Requeue, Named, Exists, Kept, TypeOK, TickType
    <3>4. QED
      BY <1>4, <3>1, <3>2, <3>3 DEF Requeue, TypeOK, Kept
  <2>6. QED
    BY <1>4, <2>4, <2>5 DEF Requeue
<1>5. CASE (\E j \in JobIds : ReapEnqueue(j)) \/ ReapEnqueueRaises
  <2>1. reaper.pc = "charged" /\ Exists(reaper.run)
    BY <1>5 DEF ReapEnqueue, ReapEnqueueRaises, Named
  <2>2. /\ job' \in [JobIds -> JobType]
        /\ \A k \in JobIds : job'[k] = job[k] \/ (job'[k].run = reaper.run /\ job'[k].pc = "queued")
        /\ faults' \in 0 .. MaxFaults
    BY <1>5, <2>1, Enqueued, Raises DEF ReapEnqueue, ReapEnqueueRaises, Exists, TypeOK
  <2>3. reaper' = [reaper EXCEPT !.pc = "acting", !.run = 0]
    BY <1>5 DEF ReapEnqueue, ReapEnqueueRaises
  <2>4. history' = [history EXCEPT !.requeued[reaper.run] = @ + 1]
    BY <1>5 DEF ReapEnqueue, ReapEnqueueRaises
  <2>5. UNCHANGED <<kind, parent, batch, run, author>>
    BY <1>5 DEF ReapEnqueue, ReapEnqueueRaises
  <2>6. TypeOK'
    <3>1. reaper' \in TickType
      BY <2>3, Bounds DEF TypeOK, TickType
    <3>2. history' \in HistoryType
      BY <2>4 DEF TypeOK, HistoryType
    <3>3. QED
      BY <2>2, <2>5, <3>1, <3>2 DEF TypeOK
  <2>7. Named'
    BY <2>1, <2>2, <2>3, <2>5 DEF TypeOK, TickType, Named, Exists
  <2>8. QED
    BY <2>6, <2>7
<1>6. CASE ReaperDies
  <2>1. Named' /\ reaper' \in TickType
    BY <1>0, <1>6, TickOver DEF ReaperDies
  <2>2. faults' \in 0 .. MaxFaults
    BY <1>6, FaultType DEF ReaperDies
  <2>3. QED
    BY <1>6, <2>1, <2>2 DEF ReaperDies, TypeOK
<1>7. CASE TickEnds
  <2>1. Kept
    BY <1>7, FailRowsType DEF TickEnds, Kept, TypeOK, TickType
  <2>2. Named' /\ reaper' \in TickType
    BY <1>7, <2>1, TickOver DEF TickEnds
  <2>3. QED
    BY <1>7, <2>1, <2>2 DEF TickEnds, TypeOK, Kept
<1>8. QED
  BY <1>1, <1>2, <1>3, <1>4, <1>5, <1>6, <1>7 DEF Reap

LEMMA AgeStep ==
  ASSUME IInv, NEW r \in RunIds, Age(r)
  PROVE  IInv'
<1>1. TypeOK'
  BY DEF IInv, TypeOK, RunType, Age
<1>2. Named'
  BY DEF IInv, TypeOK, RunType, Named, Exists, Age
<1>3. QED
  BY <1>1, <1>2 DEF IInv
-----------------------------------------------------------------------------
LEMMA IInvStep == IInv /\ [Next]_vars => IInv'
<1>1. ASSUME IInv, Next PROVE IInv'
  BY <1>1, RequestStep, AuthoringStep, WorkStep, DisturbStep, ReapStep, AgeStep DEF Next
<1>2. ASSUME IInv, UNCHANGED vars PROVE IInv'
  BY <1>2 DEF IInv, TypeOK, Named, Exists, vars
<1>3. QED
  BY <1>1, <1>2

\* For any number of requests, runs, jobs and faults, every row, job and request keeps
\* its type; with it no job is tried more than MaxTries times and no run's budget
\* exceeds MaxReaps.
THEOREM TypesInvariant == Spec => []TypeOK
<1>1. Spec => []IInv
  BY InitIInv, IInvStep, PTL DEF Spec
<1>2. QED
  BY <1>1, PTL DEF IInv
-----------------------------------------------------------------------------
(* One unsettled run *)

\* A step after which no run but r is unsettled that was not before.
LEMMA OnlyOne ==
  ASSUME OneActiveRun, kind' = kind, NEW r \in RunIds,
         \A q \in RunIds \ {r} : run'[q].status \notin Active
  PROVE  OneActiveRun'
  BY DEF OneActiveRun

LEMMA NoneMore ==
  ASSUME OneActiveRun, kind' = kind,
         \A q \in RunIds : run'[q].status \in Active => run[q].status \in Active
  PROVE  OneActiveRun'
  BY DEF OneActiveRun

LEMMA OneActiveStep == IInv /\ OneActiveRun /\ [Next]_vars => OneActiveRun'
<1> SUFFICES ASSUME IInv, OneActiveRun, [Next]_vars
             PROVE  OneActiveRun'
  OBVIOUS
<1>1. TypeOK /\ Named
  BY DEF IInv
<1>2. CASE UNCHANGED <<kind, run>>
  BY <1>2, NoneMore
<1>3. ASSUME NEW a \in Authors, NEW r \in RunIds, Open(a, r) PROVE OneActiveRun'
  <2>1. CASE kind = "interview"
    BY <1>1, <1>3, <2>1, OnlyOne DEF Open, InFlight, TypeOK
  <2>2. CASE kind # "interview"
    BY <1>3, <2>2 DEF Open, OneActiveRun
  <2>3. QED
    BY <2>1, <2>2
<1>4. ASSUME NEW a \in Authors, DispatchFails(a) PROVE OneActiveRun'
  BY <1>1, <1>4, NoneMore DEF DispatchFails, TypeOK, RunType, Active
<1>5. ASSUME NEW j \in JobIds, StartQuiz(j) PROVE OneActiveRun'
  BY <1>5 DEF StartQuiz, OneActiveRun
<1>6. ASSUME NEW j \in JobIds, StartInterview(j) PROVE OneActiveRun'
  BY <1>1, <1>6, NoneMore DEF StartInterview, TypeOK, RunType, Active
<1>7. ASSUME NEW j \in JobIds, Progress(j) PROVE OneActiveRun'
  BY <1>1, <1>7, NoneMore DEF Progress, TypeOK, RunType
<1>8. ASSUME NEW j \in JobIds, (\E b \in Batches : Persist(j, b)) \/ Fail(j) PROVE OneActiveRun'
  BY <1>1, <1>8, NoneMore DEF Persist, Fail, TypeOK, RunType, Active
<1>9. ASSUME NEW j \in JobIds, Retry(j) PROVE OneActiveRun'
  <2>1. Exists(job[j].run) /\ job[j].run \in RunIds
    BY <1>1, <1>9 DEF Retry, Named, Exists
  <2>2. CASE run[job[j].run].status \in Settled
    BY <1>1, <1>9, <2>1, <2>2, OnlyOne DEF Retry, InFlight, TypeOK, RunType, OneActiveRun
  <2>3. CASE run[job[j].run].status \notin Settled
    <3>1. run[job[j].run].status \in Active
      BY <1>1, <2>1, <2>3 DEF Exists, TypeOK, RunType
    <3>2. QED
      BY <1>1, <1>9, <2>1, <2>3, <3>1, NoneMore DEF Retry, TypeOK, RunType
  <2>4. QED
    BY <2>2, <2>3
<1>10. ASSUME NEW r \in RunIds, Requeue(r) PROVE OneActiveRun'
  <2> DEFINE failed == FailRows(reaper.failing)
  <2> DEFINE status == IF r \in reaper.pending THEN run[r].status ELSE "pending"
  <2>1. failed \in [RunIds -> RunType]
        /\ \A q \in RunIds : failed[q].status \in Active => run[q].status \in Active
    BY <1>1, FailRowsType DEF TypeOK, TickType, Active
  <2>2. CASE UNCHANGED run
    BY <1>10, <2>2, NoneMore DEF Requeue
  <2>3. CASE /\ ~(kind = "interview" /\ status \in Active
                  /\ \E q \in RunIds \ {r} : failed[q].status \in Active)
             /\ run' = [failed EXCEPT ![r].status = status, ![r].fresh = status \in Active,
                                      ![r].reaps = reaper.reaps[r] + 1]
    <3>1. run'[r].status = status /\ \A q \in RunIds \ {r} : run'[q] = failed[q]
      BY <2>1, <2>3 DEF RunType
    <3>2. kind' = kind
      BY <1>10 DEF Requeue
    <3> HIDE DEF failed, status
    <3>3. CASE kind = "interview" /\ status \in Active
      BY <2>3, <3>1, <3>2, <3>3, OnlyOne
    <3>4. CASE kind = "interview" /\ status \notin Active
      BY <2>1, <3>1, <3>2, <3>4, NoneMore
    <3>5. CASE kind # "interview"
      BY <3>2, <3>5 DEF OneActiveRun
    <3>6. QED
      BY <3>3, <3>4, <3>5
  <2>4. QED
    BY <1>10, <2>2, <2>3 DEF Requeue
<1>11. CASE TickEnds
  BY <1>1, <1>11, FailRowsType, NoneMore DEF TickEnds, TypeOK, TickType, Active
<1>12. ASSUME NEW r \in RunIds, Age(r) PROVE OneActiveRun'
  BY <1>1, <1>12, NoneMore DEF Age, TypeOK, RunType
<1>13. QED
  BY <1>2, <1>3, <1>4, <1>5, <1>6, <1>7, <1>8, <1>9, <1>10, <1>11, <1>12
  DEF Next, vars, Request, Ask, Refuse, Dispatch, DispatchRaises, RequestDies, Authoring, Approve,
      Delete, Publish, Archive, Reopen, Work, CheckParent, Finish, Disturb, Kill, Timeout, Lose,
      Reap, Scan, Select, GiveUp, ReapEnqueue, ReapEnqueueRaises, ReaperDies

\* An interview never has two unsettled runs, however many requests race, tries are
\* left and jobs Redis loses: the worker's return to pending and the reaper's requeue
\* respect the unique index as the requests do.
THEOREM OneActiveRunInvariant == Spec => []OneActiveRun
<1>1. Init => OneActiveRun
  BY DEF Init, OneActiveRun, NoRun, Active
<1>2. Spec => []IInv
  BY InitIInv, IInvStep, PTL DEF Spec
<1>3. QED
  BY <1>1, <1>2, OneActiveStep, PTL DEF Spec
-----------------------------------------------------------------------------
(* What students are served *)

\* Interviews only append, and a task past its look at a published quiz was past it
\* when the quiz was published.
Ahead ==
    /\ kind = "interview" => /\ \A r \in RunIds : run[r].mode = "append"
                             /\ \A a \in Authors : author[a].mode = "append"
    /\ kind = "quiz" /\ parent = "published" =>
          \A j \in JobIds : job[j].pc = "generating" => j \in history.ahead

LEMMA AheadStep == IInv /\ Ahead /\ [Next]_vars => Ahead'
<1> SUFFICES ASSUME IInv, Ahead, [Next]_vars
             PROVE  Ahead'
  OBVIOUS
<1>1. TypeOK /\ Named
  BY DEF IInv
<1>2. kind' = kind
  BY ZenonT(30)
  DEF Next, vars, Request, Ask, Open, Refuse, Dispatch, DispatchRaises, DispatchFails,
         RequestDies, Authoring, Approve, Delete, Publish, Archive, Reopen, Work, StartQuiz,
         StartInterview, CheckParent, Persist, Fail, Retry, Finish, Progress, Disturb, Kill,
         Timeout, Lose, Reap, Scan, Select, GiveUp, Requeue, ReapEnqueue, ReapEnqueueRaises,
         ReaperDies, TickEnds, Age
<1>3. ASSUME kind = "interview", NEW r \in RunIds PROVE run'[r].mode = "append"
  <2>1. ASSUME NEW a \in Authors, NEW q \in RunIds, Open(a, q) PROVE run'[r].mode = "append"
    BY <1>1, <1>3, <2>1 DEF Ahead, TypeOK, Open
  <2>2. ASSUME NEW a \in Authors, DispatchFails(a) PROVE run'[r].mode = "append"
    BY <1>1, <1>3, <2>2 DEF Ahead, TypeOK, RunType, DispatchFails
  <2>3. ASSUME NEW j \in JobIds, Work(j) PROVE run'[r].mode = "append"
    <3>1. run[r].mode = "append" /\ run \in [RunIds -> RunType]
      BY <1>1, <1>3 DEF Ahead, TypeOK
    <3>2. CASE StartQuiz(j) \/ StartInterview(j)
      BY <3>1, <3>2 DEF RunType, StartQuiz, StartInterview
    <3>3. CASE CheckParent(j) \/ Finish(j)
      BY <3>1, <3>3 DEF CheckParent, Finish
    <3>4. CASE Fail(j) \/ Retry(j)
      BY <3>1, <3>4 DEF RunType, Fail, Retry
    <3>5. ASSUME NEW b \in Batches, Persist(j, b) PROVE run'[r].mode = "append"
      BY <3>1, <3>5 DEF RunType, Persist
    <3>6. QED
      BY <2>3, <3>2, <3>3, <3>4, <3>5 DEF Work
  <2>4. ASSUME NEW j \in JobIds, Progress(j) PROVE run'[r].mode = "append"
    BY <1>1, <1>3, <2>4 DEF Ahead, TypeOK, RunType, Progress
  <2>5. ASSUME NEW q \in RunIds, Requeue(q) PROVE run'[r].mode = "append"
    <3> DEFINE failed == FailRows(reaper.failing)
    <3> DEFINE status == IF q \in reaper.pending THEN run[q].status ELSE "pending"
    <3>1. failed \in [RunIds -> RunType] /\ failed[r].mode = "append"
      BY <1>1, <1>3, FailRowsType DEF Ahead, TypeOK, TickType
    <3>2. \/ run' = run
          \/ run' = [failed EXCEPT ![q].status = status, ![q].fresh = status \in Active,
                                   ![q].reaps = reaper.reaps[q] + 1]
      BY <2>5 DEF Requeue
    <3> HIDE DEF failed, status
    <3>3. QED
      BY <1>3, <3>1, <3>2 DEF Ahead, RunType
  <2>6. CASE TickEnds
    BY <1>1, <1>3, <2>6 DEF Ahead, TypeOK, RunType, TickType, TickEnds, FailRows
  <2>7. ASSUME NEW q \in RunIds, Age(q) PROVE run'[r].mode = "append"
    BY <1>1, <1>3, <2>7 DEF Ahead, TypeOK, RunType, Age
  <2>8. CASE UNCHANGED run
    BY <1>3, <2>8 DEF Ahead
  <2>9. QED
    BY <2>1, <2>2, <2>3, <2>4, <2>5, <2>6, <2>7, <2>8
    DEF Next, vars, Request, Ask, Refuse, Dispatch, DispatchRaises, RequestDies, Authoring,
        Approve, Delete, Publish, Archive, Reopen, Disturb, Kill, Timeout, Lose, Reap, Scan,
        Select, GiveUp, ReapEnqueue, ReapEnqueueRaises, ReaperDies
<1>4. ASSUME kind = "interview", NEW a \in Authors PROVE author'[a].mode = "append"
  <2>1. ASSUME NEW e \in Authors, NEW mode \in Modes, NEW targets \in SUBSET Batches,
               Ask(e, mode, targets)
        PROVE  author'[a].mode = "append"
    <3>1. mode = "append"
      BY <1>3, <1>4, <2>1 DEF Ask, Modes
    <3>2. QED
      BY <1>1, <1>4, <2>1, <3>1 DEF Ahead, TypeOK, Ask
  <2>2. ASSUME NEW e \in Authors, Request(e),
               ~ \E mode \in Modes, targets \in SUBSET Batches : Ask(e, mode, targets)
        PROVE  author'[a].mode = "append"
    BY <1>1, <1>4, <2>2
    DEF Ahead, TypeOK, AuthorType, NoAuthor, Request, Open, Refuse, Dispatch, DispatchRaises,
        DispatchFails, RequestDies
  <2>3. CASE UNCHANGED author
    BY <1>4, <2>3 DEF Ahead
  <2>4. QED
    BY <2>1, <2>2, <2>3
    DEF Next, vars, Request, Authoring, Approve, Delete, Publish, Archive, Reopen, Work,
        StartQuiz, StartInterview, CheckParent, Persist, Fail, Retry, Finish, Progress,
        Disturb, Kill, Timeout, Lose, Reap, Scan, Select, GiveUp, Requeue, ReapEnqueue,
        ReapEnqueueRaises, ReaperDies, TickEnds, Age
<1>5. ASSUME kind = "quiz", parent' = "published", NEW j \in JobIds, job'[j].pc = "generating"
      PROVE  j \in history'.ahead
  <2>1. CASE Publish
    BY <1>1, <1>5, <2>1 DEF Publish, PastCheck, TypeOK, HistoryType
  <2>2. CASE parent = "published" /\ ~Publish
    <3>1. history'.ahead = history.ahead
      BY <1>1, <2>2, ZenonT(30)
      DEF TypeOK, HistoryType, Next, vars, Request, Ask, Open, Refuse, Dispatch, DispatchRaises,
          DispatchFails, RequestDies, Authoring, Approve, Delete, Archive, Reopen, Work,
          StartQuiz, StartInterview, CheckParent, Persist, Fail, Retry, Finish, Progress,
          Disturb, Kill, Timeout, Lose, Reap, Scan, Select, GiveUp, Requeue, ReapEnqueue,
          ReapEnqueueRaises, ReaperDies, TickEnds, Age
    <3>2. job[j].pc = "generating"
      <4>1. ASSUME NEW k \in JobIds, Work(k) \/ Progress(k) PROVE job[j].pc = "generating"
        <5>1. ~CheckParent(k) /\ ~StartInterview(k)
          BY <1>5, <2>2 DEF CheckParent, Editable, StartInterview
        <5>2. CASE StartQuiz(k) \/ Fail(k) \/ \E b \in Batches : Persist(k, b)
          BY <1>1, <1>5, <5>2 DEF TypeOK, JobType, StartQuiz, Fail, Persist, NoJob
        <5>3. CASE Retry(k)
          BY <1>5, <5>3 DEF Retry
        <5>4. CASE Finish(k)
          BY <1>1, <1>5, <5>4 DEF TypeOK, JobType, NoJob, Finish
        <5>5. CASE Progress(k)
          BY <1>5, <5>5 DEF Progress
        <5>6. QED
          BY <4>1, <5>1, <5>2, <5>3, <5>4, <5>5 DEF Work
      <4>2. ASSUME NEW k \in JobIds, Disturb(k) PROVE job[j].pc = "generating"
        <5>1. CASE Kill(k)
          BY <1>1, <1>5, <5>1 DEF TypeOK, JobType, Kill, NextTry, NoJob
        <5>2. CASE Timeout(k)
          BY <1>1, <1>5, <5>2 DEF TypeOK, JobType, Timeout, NoJob
        <5>3. CASE Lose(k)
          <6>1. job'[j].pc = job[j].pc \/ job'[j] = NoJob
            BY <1>1, <5>3 DEF TypeOK, JobType, Lose, Working
          <6>2. QED
            BY <1>5, <6>1 DEF NoJob
        <5>4. QED
          BY <4>2, <5>1, <5>2, <5>3 DEF Disturb
      <4>3. ASSUME NEW k \in JobIds, NEW r, Enqueue(k, r) PROVE job[j].pc = "generating"
        BY <1>1, <1>5, <4>3 DEF TypeOK, JobType, Enqueue, NoJob
      <4>4. CASE UNCHANGED job
        BY <1>5, <4>4
      <4>5. QED
        BY <4>1, <4>2, <4>3, <4>4
        DEF Next, vars, Request, Ask, Open, Refuse, Dispatch, DispatchRaises, EnqueueRaises,
            DispatchFails, RequestDies, Authoring, Approve, Delete, Publish, Archive, Reopen,
            Reap, Scan, Select, GiveUp, Requeue, ReapEnqueue, ReapEnqueueRaises, ReaperDies,
            TickEnds, Age
    <3>3. QED
      BY <1>5, <2>2, <3>1, <3>2 DEF Ahead
  <2>3. CASE parent # "published" /\ ~Publish
    BY <1>5, <2>3, ZenonT(30)
    DEF Next, vars, Request, Ask, Open, Refuse, Dispatch, DispatchRaises, DispatchFails,
        RequestDies, Authoring, Approve, Delete, Archive, Reopen, Work, StartQuiz,
        StartInterview, CheckParent, Persist, Fail, Retry, Finish, Progress, Disturb, Kill,
        Timeout, Lose, Reap, Scan, Select, GiveUp, Requeue, ReapEnqueue, ReapEnqueueRaises,
        ReaperDies, TickEnds, Age
  <2>4. QED
    BY <2>1, <2>2, <2>3
<1>6. QED
  BY <1>2, <1>3, <1>4, <1>5 DEF Ahead

\* The approved questions change under a published quiz or interview only by a task
\* that was ahead.
LEMMA ServedStep ==
  ASSUME IInv, Ahead, [Next]_vars, parent = "published", parent' = "published",
         Approved' # Approved
  PROVE  kind = "quiz" /\ \E j \in history.ahead : job[j].pc = "generating"
                                                  /\ job'[j].pc = "notifying"
<1>1. TypeOK
  BY DEF IInv
<1>2. batch' # batch
  BY DEF Approved
<1>3. PICK j \in JobIds, b \in Batches : Persist(j, b)
  BY <1>2
  DEF Next, vars, Request, Ask, Open, Refuse, Dispatch, DispatchRaises, DispatchFails,
      RequestDies, Authoring, Approve, Delete, Editable, Publish, Archive, Reopen, Work,
      StartQuiz, StartInterview, CheckParent, Fail, Retry, Finish, Progress, Disturb, Kill,
      Timeout, Lose, Reap, Scan, Select, GiveUp, Requeue, ReapEnqueue, ReapEnqueueRaises,
      ReaperDies, TickEnds, Age
<1>4. kind \in {"quiz", "interview"}
  BY <1>1, ConstantsAssumption DEF TypeOK
<1>5. kind # "interview"
  <2>1. SUFFICES ASSUME kind = "interview" PROVE FALSE
    OBVIOUS
  <2>2. run[job[j].run].mode = "append"
    <3>1. job[j].pc = "checked"
      BY <1>3, <2>1 DEF Persist, PastCheck
    <3>2. Exists(job[j].run)
      BY <3>1 DEF IInv, Named
    <3>3. QED
      BY <2>1, <3>2 DEF Ahead, Exists
  <2>3. batch' = [batch EXCEPT ![b] = "pending"] /\ batch[b] = "none"
    BY <1>3, <2>2 DEF Persist, Written, NextBatch
  <2>4. Approved' = Approved
    BY <1>1, <2>3 DEF Approved, TypeOK
  <2>5. QED
    BY <2>4
<1>6. job[j].pc = "generating" /\ job'[j].pc = "notifying"
  BY <1>1, <1>3, <1>4, <1>5 DEF Persist, PastCheck, TypeOK, JobType
<1>7. QED
  BY <1>4, <1>5, <1>6 DEF Ahead

\* No task that takes its look at the quiz after the publication touches what students
\* are served, and an interview's bank stays as published.
THEOREM ServedFrozenAlways == Spec => ServedFrozen
<1>1. Init => Ahead
  BY DEF Init, Ahead, NoRun, NoAuthor
<1>2. Spec => [](IInv /\ Ahead)
  BY <1>1, InitIInv, IInvStep, AheadStep, PTL DEF Spec
<1>3. IInv /\ Ahead /\ [Next]_vars =>
        [parent = "published" /\ parent' = "published" /\ Approved' # Approved
           => kind = "quiz" /\ \E j \in history.ahead : job[j].pc = "generating"
                                                       /\ job'[j].pc = "notifying"]_vars
  BY ServedStep
<1>4. QED
  BY <1>2, <1>3, PTL DEF Spec, ServedFrozen
-----------------------------------------------------------------------------
(* What holds until Redis loses a job *)

\* Request a has committed run r and not yet ended.
Holding(a, r) == author[a].pc \in {"opened", "raised"} /\ author[a].run = r

\* A job was enqueued for run r and is not over.
Carried(r) == \E j \in JobIds : job[j].pc # "none" /\ job[j].run = r

\* The runs the tick of the reaper will still write to or enqueue.
InTick == reaper.todo \cup reaper.failing \cup (IF reaper.pc = "charged" THEN {reaper.run} ELSE {})

\* A run has one job, which a key names, and one request; the request has no job of its
\* own run while it has yet to enqueue it, and its run is not old enough to be reaped.
OneCarrier ==
    /\ \A j \in JobIds : job[j].pc # "none" => job[j].live
    /\ \A j, k \in JobIds :
          job[j].pc # "none" /\ job[k].pc # "none" /\ job[j].run = job[k].run => j = k
    /\ \A a, b \in Authors, r \in RunIds : Holding(a, r) /\ Holding(b, r) => a = b
    /\ \A a \in Authors, r \in RunIds : Holding(a, r) /\ author[a].pc = "opened" => ~Carried(r)
    /\ \A a \in Authors, r \in RunIds :
          Holding(a, r) /\ run[r].status \in Active => run[r].fresh

\* The reaper acts on unsettled runs that nobody else can write to, each once a tick.
TickAlone ==
    /\ reaper.pc = "idle" => reaper.todo = {}
    /\ reaper.pc # "acting" => reaper.failing = {}
    /\ reaper.todo \cap reaper.failing = {}
    /\ reaper.pc = "charged" => reaper.run \notin reaper.todo
    /\ \A r \in InTick : /\ run[r].status \in Active
                         /\ ~Carried(r)
                         /\ \A a \in Authors : ~Holding(a, r)

\* The budget the rows hold is at least what was spent, and no stale copy of it is lower.
Charged ==
    /\ \A r \in RunIds : run[r].status = "none" => run[r].reaps = 0
    /\ \A j \in JobIds : job[j].pc # "none" => job[j].reaps \in {0, run[job[j].run].reaps}
    /\ reaper.pc # "scanned" => \A r \in reaper.todo : reaper.reaps[r] = run[r].reaps
    /\ \A r \in RunIds :
          history.requeued[r] + (IF reaper.pc = "charged" /\ reaper.run = r THEN 1 ELSE 0)
            <= run[r].reaps

\* A task works on an interview's run only while the run is claimed, and only a
\* completed run has questions.
Claimed ==
    kind = "interview" =>
      /\ \A j \in JobIds : job[j].pc # "started"
      /\ \A j \in JobIds : job[j].pc \in {"generating", "checked"} => run[job[j].run].status = "running"
      /\ \A r \in RunIds : history.persisted[r] <= IF run[r].status = "completed" THEN 1 ELSE 0

InOrder == OneCarrier /\ TickAlone /\ Charged /\ Claimed

LEMMA InitInOrder == Init => InOrder
<1> SUFFICES ASSUME Init PROVE InOrder
  OBVIOUS
<1>1. OneCarrier
  BY DEF Init, OneCarrier, Holding, NoJob, NoAuthor
<1>2. TickAlone
  BY DEF Init, TickAlone, InTick, NoTick
<1>3. Charged
  BY ConstantsAssumption DEF Init, Charged, NoRun, NoJob, NoTick, NoHistory
<1>4. Claimed
  BY DEF Init, Claimed, NoRun, NoJob, NoHistory
<1>5. QED
  BY <1>1, <1>2, <1>3, <1>4 DEF InOrder
-----------------------------------------------------------------------------
\* No job, and no request's hold on a run, is new.
JobsGoOn == \A k \in JobIds : job'[k].pc # "none" =>
              /\ job[k].pc # "none"
              /\ job'[k].run = job[k].run
              /\ job'[k].live = job[k].live
HoldersGoOn == \A a \in Authors, r \in RunIds :
                 Holding(a, r)' => /\ Holding(a, r)
                                   /\ author'[a].pc = "opened" => author[a].pc = "opened"
HeldFresh == \A a \in Authors, r \in RunIds :
               Holding(a, r)' /\ run'[r].status \in Active => run'[r].fresh

LEMMA NoneCarried ==
  ASSUME JobsGoOn, NEW r, Carried(r)'
  PROVE  Carried(r)
  BY DEF JobsGoOn, Carried

LEMMA CarrierFrame ==
  ASSUME OneCarrier, JobsGoOn, HoldersGoOn, HeldFresh
  PROVE  OneCarrier'
  BY NoneCarried DEF OneCarrier, JobsGoOn, HoldersGoOn, HeldFresh

LEMMA InTickRuns ==
  ASSUME TypeOK, Named
  PROVE  InTick \subseteq RunIds
  BY DEF InTick, TypeOK, TickType, Named, Exists

LEMMA TickFrame ==
  ASSUME TickAlone, reaper' = reaper,
         \A r \in InTick : /\ run'[r] = run[r]
                           /\ Carried(r)' => Carried(r)
                           /\ \A a \in Authors : Holding(a, r)' => Holding(a, r)
  PROVE  TickAlone'
<1>1. InTick' = InTick
  BY DEF InTick
<1>2. \A r \in InTick' : /\ run'[r].status \in Active
                         /\ ~Carried(r)'
                         /\ \A a \in Authors : ~Holding(a, r)'
  BY <1>1 DEF TickAlone
<1>3. QED
  BY <1>2 DEF TickAlone

LEMMA ChargedFrame ==
  ASSUME TypeOK, Named, Charged, reaper' = reaper,
         \A r \in RunIds : /\ run'[r].reaps = run[r].reaps
                           /\ run'[r].status = "none" => run[r].status = "none"
                           /\ history'.requeued[r] = history.requeued[r],
         \A k \in JobIds : job'[k].pc # "none" =>
            /\ job'[k].run \in RunIds
            /\ \/ job'[k].reaps = 0
               \/ /\ job[k].pc # "none"
                  /\ job'[k].run = job[k].run
                  /\ job'[k].reaps \in {job[k].reaps, run[job[k].run].reaps}
  PROVE  Charged'
<1>1. \A k \in JobIds : job'[k].pc # "none" => job'[k].reaps \in {0, run'[job'[k].run].reaps}
  BY DEF Charged
<1>2. reaper.todo \subseteq RunIds
  BY DEF TypeOK, TickType
<1>3. QED
  BY <1>1, <1>2 DEF Charged
-----------------------------------------------------------------------------
(* Requests and authoring *)

LEMMA NewJob ==
  ASSUME TypeOK, NEW r \in RunIds, NEW j \in JobIds, Enqueue(j, r)
  PROVE  /\ job[j].pc = "none"
         /\ job'[j].pc = "queued" /\ job'[j].run = r /\ job'[j].live /\ job'[j].reaps = 0
         /\ \A k \in JobIds \ {j} : job'[k] = job[k]
         /\ \A q \in RunIds : q # r /\ Carried(q)' => Carried(q)
<1>1. /\ job[j].pc = "none"
      /\ job'[j].pc = "queued" /\ job'[j].run = r /\ job'[j].live /\ job'[j].reaps = 0
      /\ \A k \in JobIds \ {j} : job'[k] = job[k]
  BY DEF TypeOK, Enqueue, FreeJob, NoJob
<1>2. QED
  BY <1>1 DEF Carried

\* A run that no job carries, and that no request has yet to enqueue, gets a job.
LEMMA CarrierEnqueue ==
  ASSUME TypeOK, OneCarrier, NEW r \in RunIds, NEW j \in JobIds, Enqueue(j, r), ~Carried(r),
         HoldersGoOn, run' = run, \A a \in Authors : Holding(a, r)' => author'[a].pc # "opened"
  PROVE  OneCarrier'
<1>1. \A i \in JobIds : job'[i].pc # "none" => job'[i].live
  BY NewJob DEF OneCarrier
<1>2. \A i, k \in JobIds :
          job'[i].pc # "none" /\ job'[k].pc # "none" /\ job'[i].run = job'[k].run => i = k
  BY NewJob DEF OneCarrier, Carried
<1>3. QED
  BY <1>1, <1>2, NewJob DEF OneCarrier, HoldersGoOn

LEMMA ClaimedEnqueue ==
  ASSUME TypeOK, Claimed, NEW r \in RunIds, NEW j \in JobIds, Enqueue(j, r), run' = run, kind' = kind,
         history'.persisted = history.persisted
  PROVE  Claimed'
  BY NewJob DEF Claimed

LEMMA RequestInOrder ==
  ASSUME IInv, InOrder, NEW a \in Authors, Request(a)
  PROVE  InOrder'
<1>0. TypeOK /\ Named /\ OneCarrier /\ TickAlone /\ Charged /\ Claimed
  BY DEF IInv, InOrder
<1>1. InTick \subseteq RunIds
  BY <1>0, InTickRuns
<1>2. UNCHANGED <<kind, reaper, history>>
  BY DEF Request, Ask, Open, Refuse, Dispatch, DispatchRaises, DispatchFails, RequestDies
<1>3. ASSUME UNCHANGED <<run, job>>, HoldersGoOn PROVE InOrder'
  <2>1. OneCarrier'
    BY <1>0, <1>3, CarrierFrame DEF OneCarrier, JobsGoOn, HoldersGoOn, HeldFresh
  <2>2. TickAlone'
    BY <1>0, <1>1, <1>2, <1>3, TickFrame DEF HoldersGoOn, Carried
  <2>3. Charged' /\ Claimed'
    BY <1>0, <1>2, <1>3 DEF Charged, Claimed
  <2>4. QED
    BY <2>1, <2>2, <2>3 DEF InOrder
<1>4. CASE (\E mode \in Modes, targets \in SUBSET Batches : Ask(a, mode, targets))
           \/ Refuse(a) \/ RequestDies(a)
  <2>1. UNCHANGED <<run, job>>
    BY <1>4 DEF Ask, Refuse, RequestDies
  <2>2. HoldersGoOn
    BY <1>0, <1>4 DEF TypeOK, AuthorType, HoldersGoOn, Holding, Ask, Refuse, RequestDies, NoAuthor
  <2>3. QED
    BY <1>3, <2>1, <2>2
<1>5. ASSUME NEW r \in RunIds, Open(a, r) PROVE InOrder'
  <2>1. /\ run[r].status = "none" /\ run'[r].status = "pending" /\ run'[r].reaps = 0
        /\ run'[r].fresh /\ \A q \in RunIds \ {r} : run'[q] = run[q]
    BY <1>0, <1>5 DEF Open, NextRun, TypeOK
  <2>2. /\ author'[a].pc = "opened" /\ author'[a].run = r
        /\ \A b \in Authors \ {a} : author'[b] = author[b]
    BY <1>0, <1>5 DEF Open, TypeOK, AuthorType
  <2>3. job' = job
    BY <1>5 DEF Open
  <2>4. ~Carried(r) /\ \A b \in Authors : ~Holding(b, r)
    BY <1>0, <2>1 DEF Named, Exists, Carried, Holding
  <2>5. OneCarrier'
    BY <1>0, <2>1, <2>2, <2>3, <2>4 DEF OneCarrier, Holding, Carried
  <2>6. TickAlone'
    <3>1. r \notin InTick
      BY <1>0, <2>1 DEF TickAlone, Active
    <3>2. QED
      BY <1>0, <1>1, <1>2, <2>1, <2>2, <2>3, <3>1, TickFrame DEF Holding, Carried
  <2>7. Charged'
    <3>1. run[r].reaps = 0
      BY <1>0, <2>1 DEF Charged
    <3>2. QED
      BY <1>0, <1>2, <2>1, <2>3, <3>1 DEF Charged, Named, Exists, TypeOK, TickType
  <2>8. Claimed'
    BY <1>0, <1>2, <2>1, <2>3 DEF Claimed, Named, Exists
  <2>9. QED
    BY <2>5, <2>6, <2>7, <2>8 DEF InOrder
<1>6. ASSUME NEW j \in JobIds, author[a].pc = "opened", Enqueue(j, author[a].run), run' = run,
             author' = [author EXCEPT ![a] = NoAuthor] \/ author' = [author EXCEPT ![a].pc = "raised"]
      PROVE  InOrder'
  <2> DEFINE r == author[a].run
  <2>1. r \in RunIds /\ Holding(a, r)
    BY <1>0, <1>6 DEF Named, Exists, Holding
  <2>2. ~Carried(r) /\ r \notin InTick
    BY <1>0, <1>6, <2>1 DEF OneCarrier, TickAlone
  <2>3. HoldersGoOn /\ ~(author'[a].pc = "opened")
    BY <1>0, <1>6 DEF TypeOK, AuthorType, HoldersGoOn, Holding, NoAuthor
  <2>4. OneCarrier'
    BY <1>0, <1>6, <2>1, <2>2, <2>3, CarrierEnqueue DEF OneCarrier, HoldersGoOn
  <2>5. TickAlone'
    BY <1>0, <1>1, <1>2, <1>6, <2>1, <2>2, <2>3, NewJob, TickFrame DEF HoldersGoOn
  <2>6. Charged'
    BY <1>0, <1>2, <1>6, <2>1, NewJob, ChargedFrame DEF Named, Exists
  <2>7. Claimed'
    BY <1>0, <1>2, <1>6, <2>1, ClaimedEnqueue
  <2>8. QED
    BY <2>4, <2>5, <2>6, <2>7 DEF InOrder
<1>7. ASSUME NEW j \in JobIds, Dispatch(a, j) PROVE InOrder'
  BY <1>6, <1>7 DEF Dispatch
<1>8. CASE DispatchRaises(a)
  <2>1. CASE UNCHANGED job
    <3>1. HoldersGoOn
      BY <1>0, <1>8 DEF TypeOK, AuthorType, HoldersGoOn, Holding, DispatchRaises
    <3>2. QED
      BY <1>3, <1>8, <2>1, <3>1 DEF DispatchRaises
  <2>2. QED
    BY <1>6, <1>8, <2>1 DEF DispatchRaises, EnqueueRaises
<1>9. CASE DispatchFails(a)
  <2> DEFINE r == author[a].run
  <2>1. r \in RunIds /\ Holding(a, r) /\ r \notin InTick
    BY <1>0, <1>9 DEF DispatchFails, Named, Exists, Holding, TickAlone
  <2>2. /\ \A q \in RunIds \ {r} : run'[q] = run[q]
        /\ run'[r].reaps = run[r].reaps
        /\ run'[r] = run[r] \/ (run[r].status = "pending" /\ run'[r].status = "failed")
    BY <1>0, <1>9, <2>1 DEF DispatchFails, TypeOK, RunType
  <2>3. HoldersGoOn /\ job' = job
    BY <1>0, <1>9 DEF TypeOK, AuthorType, HoldersGoOn, Holding, DispatchFails, NoAuthor
  <2>4. OneCarrier'
    BY <1>0, <2>2, <2>3, CarrierFrame
    DEF OneCarrier, JobsGoOn, HoldersGoOn, HeldFresh, Active
  <2>5. TickAlone'
    BY <1>0, <1>1, <1>2, <2>1, <2>2, <2>3, TickFrame DEF HoldersGoOn, Carried
  <2>6. Charged'
    BY <1>0, <1>2, <2>2, <2>3, ChargedFrame DEF Named, Exists
  <2>7. Claimed'
    BY <1>0, <1>2, <2>1, <2>2, <2>3 DEF Claimed, Named, Exists
  <2>8. QED
    BY <2>4, <2>5, <2>6, <2>7 DEF InOrder
<1>10. QED
  BY <1>4, <1>5, <1>7, <1>8, <1>9 DEF Request

LEMMA AuthoringInOrder ==
  ASSUME InOrder, history \in HistoryType, Authoring
  PROVE  InOrder'
<1>1. UNCHANGED <<kind, run, job, author, reaper>>
      /\ history'.requeued = history.requeued /\ history'.persisted = history.persisted
  BY DEF HistoryType, Authoring, Approve, Delete, Publish, Archive, Reopen
<1>2. OneCarrier' /\ TickAlone'
  BY <1>1 DEF InOrder, OneCarrier, TickAlone, Holding, Carried, InTick
<1>3. Charged' /\ Claimed'
  BY <1>1 DEF InOrder, Charged, Claimed
<1>4. QED
  BY <1>2, <1>3 DEF InOrder
-----------------------------------------------------------------------------
(* Worker tasks *)

\* What an interview's task merges back into the row is the budget the row has.
LEMMA MergedSame ==
  ASSUME Charged, NEW j \in JobIds, job[j].pc # "none"
  PROVE  Merged(j) = run[job[j].run].reaps
  BY DEF Charged, Merged

LEMMA NextTryGoesOn ==
  ASSUME TypeOK, NEW j \in JobIds, NextTry(j).pc # "none"
  PROVE  /\ NextTry(j).run = job[j].run /\ NextTry(j).live = job[j].live
         /\ NextTry(j).reaps = job[j].reaps /\ NextTry(j).pc = "queued"
  BY DEF TypeOK, JobType, NextTry, NoJob

\* A step of the task of job j writes its run and its job, and leaves the budget.
Carries(j) ==
    LET r == job[j].run IN
    /\ \A q \in RunIds \ {r} : run'[q] = run[q]
    /\ run'[r].reaps = run[r].reaps
    /\ run'[r].status # "none"
    /\ run[r].fresh \/ run[r].status \notin Active => run'[r].fresh \/ run'[r].status \notin Active
    /\ \A k \in JobIds \ {j} : job'[k] = job[k]
    /\ job'[j].pc # "none" => /\ job'[j].run = r
                              /\ job'[j].live = job[j].live
                              /\ job'[j].reaps \in {job[j].reaps, run[r].reaps}

LEMMA WorkCarries ==
  ASSUME IInv, Charged, NEW j \in JobIds, Work(j) \/ Progress(j)
  PROVE  job[j].pc # "none" /\ Carries(j)
<1> DEFINE r == job[j].run
<1>1. job[j].pc # "none"
  BY DEF Work, Progress, StartQuiz, StartInterview, CheckParent, Persist, PastCheck, Fail, Retry,
         Finish
<1>2. /\ r \in RunIds /\ run[r].status # "none" /\ Merged(j) = run[r].reaps
      /\ run \in [RunIds -> RunType] /\ job \in [JobIds -> JobType] /\ TypeOK
  BY <1>1, MergedSame DEF IInv, TypeOK, Named, Exists
<1>3. CASE Progress(j)
  BY <1>2, <1>3 DEF Progress, Carries, RunType
<1>4. CASE StartQuiz(j)
  BY <1>2, <1>4 DEF StartQuiz, Carries, RunType, JobType, NoJob
<1>5. CASE StartInterview(j)
  BY <1>2, <1>5 DEF StartInterview, Carries, RunType, JobType, NoJob
<1>6. CASE CheckParent(j)
  BY <1>2, <1>6 DEF CheckParent, Carries, JobType
<1>7. ASSUME NEW b \in Batches, Persist(j, b) PROVE Carries(j)
  BY <1>2, <1>7 DEF Persist, Carries, RunType, JobType, Active
<1>8. CASE Fail(j)
  BY <1>2, <1>8 DEF Fail, Carries, RunType, JobType, Active
<1>9. CASE Retry(j)
  <2>1. \A k \in JobIds \ {j} : job'[k] = job[k]
    BY <1>2, <1>9 DEF Retry
  <2>2. job'[j] = NextTry(j) \/ job'[j] = NoJob
    BY <1>2, <1>9 DEF Retry
  <2>3. run' = run \/ run' = [run EXCEPT ![r].status = "pending", ![r].fresh = TRUE]
    BY <1>9 DEF Retry
  <2>4. job'[j].pc # "none" => /\ job'[j].run = r
                               /\ job'[j].live = job[j].live
                               /\ job'[j].reaps = job[j].reaps
    BY <1>2, <2>2, NextTryGoesOn DEF NoJob
  <2>5. /\ \A q \in RunIds \ {r} : run'[q] = run[q]
        /\ run'[r].reaps = run[r].reaps /\ run'[r].status # "none"
        /\ run[r].fresh \/ run[r].status \notin Active => run'[r].fresh \/ run'[r].status \notin Active
    BY <1>2, <2>3 DEF RunType
  <2>6. QED
    BY <1>1, <2>1, <2>4, <2>5 DEF Carries
<1>10. CASE Finish(j)
  BY <1>2, <1>10 DEF Finish, Carries, NoJob
<1>11. QED
  BY <1>1, <1>3, <1>4, <1>5, <1>6, <1>7, <1>8, <1>9, <1>10 DEF Work

\* The step of a task whose run is an interview's finds the run claimed, or claims it.
LEMMA WorkClaimed ==
  ASSUME IInv, OneCarrier, Charged, Claimed, NEW j \in JobIds, Work(j) \/ Progress(j)
  PROVE  Claimed'
<1> DEFINE r == job[j].run
<1>1. SUFFICES ASSUME kind = "interview"
               PROVE  Claimed'
  <2>1. kind' = kind
    BY DEF Work, Progress, StartQuiz, StartInterview, CheckParent, Persist, Fail, Retry, Finish
  <2>2. QED
    BY <1>1, <2>1 DEF Claimed
<1>2. job[j].pc # "none" /\ Carries(j)
  BY WorkCarries
<1>3. /\ r \in RunIds /\ run \in [RunIds -> RunType] /\ job \in [JobIds -> JobType]
      /\ history.persisted \in [RunIds -> Nat]
  BY <1>2 DEF IInv, TypeOK, Named, Exists, HistoryType
<1>4. \A k \in JobIds \ {j} : /\ job'[k] = job[k]
                              /\ job[k].pc # "none" => job[k].run \in RunIds \ {r}
  BY <1>2 DEF Carries, OneCarrier, IInv, Named, Exists
<1>5. \A k \in JobIds \ {j} :
         /\ job'[k].pc # "started"
         /\ job'[k].pc \in {"generating", "checked"} => run'[job'[k].run].status = "running"
  BY <1>1, <1>2, <1>4 DEF Carries, Claimed
<1>6. ASSUME job'[j].pc # "started",
             job'[j].pc \in {"generating", "checked"} => run'[r].status = "running",
             history'.persisted[r] <= IF run'[r].status = "completed" THEN 1 ELSE 0,
             \A q \in RunIds \ {r} : history'.persisted[q] = history.persisted[q]
      PROVE  Claimed'
  <2>1. \A q \in RunIds \ {r} :
           history'.persisted[q] <= IF run'[q].status = "completed" THEN 1 ELSE 0
    BY <1>1, <1>2, <1>6 DEF Carries, Claimed
  <2>2. job'[j].pc \in {"generating", "checked"} => job'[j].run = r
    BY <1>2 DEF Carries
  <2>3. QED
    BY <1>5, <1>6, <2>1, <2>2 DEF Claimed
<1>7. ~StartQuiz(j)
  BY <1>1 DEF StartQuiz
<1>8. CASE StartInterview(j)
  BY <1>1, <1>3, <1>6, <1>8 DEF StartInterview, Claimed, RunType, JobType, NoJob
<1>9. CASE CheckParent(j) \/ Finish(j)
  BY <1>1, <1>3, <1>6, <1>9 DEF CheckParent, Finish, Claimed, JobType, NoJob
<1>10. CASE Progress(j)
  BY <1>1, <1>3, <1>6, <1>10, ZenonT(30) DEF Progress, Claimed, RunType
<1>11. ASSUME NEW b \in Batches, Persist(j, b) PROVE Claimed'
  <2>1. run[r].status = "running" /\ history.persisted[r] = 0
    BY <1>1, <1>3, <1>11 DEF Persist, PastCheck, Claimed
  <2>2. run'[r].status = "completed" /\ job'[j].pc = "notifying"
    BY <1>3, <1>11 DEF Persist, RunType, JobType
  <2>3. history'.persisted[r] = 1 /\ \A q \in RunIds \ {r} : history'.persisted[q] = history.persisted[q]
    BY <1>3, <1>11, <2>1 DEF Persist, IInv, TypeOK, HistoryType
  <2>4. QED
    BY <1>6, <2>2, <2>3
<1>12. CASE Fail(j)
  <2>1. run[r].status = "running" /\ history.persisted[r] = 0
    BY <1>1, <1>3, <1>12 DEF Fail, Claimed
  <2>2. run'[r].status = "failed" /\ job'[j].pc = "notifying" /\ history' = history
    BY <1>3, <1>12 DEF Fail, RunType, JobType
  <2>3. QED
    BY <1>3, <1>6, <1>12, <2>1, <2>2
<1>13. CASE Retry(j)
  <2>1. run[r].status = "running" /\ history.persisted[r] = 0
    BY <1>1, <1>3, <1>13 DEF Retry, Claimed
  <2>2. run'[r].status = "pending" /\ job'[j] = NextTry(j) /\ history' = history
    BY <1>3, <1>13, <2>1 DEF Retry, Settled, RunType
  <2>3. job'[j].pc \in {"none", "queued"}
    BY <2>2, NextTryGoesOn DEF IInv
  <2>4. QED
    BY <1>6, <2>1, <2>2, <2>3
<1>14. QED
  BY <1>7, <1>8, <1>9, <1>10, <1>11, <1>12, <1>13 DEF Work

LEMMA CarriesInOrder ==
  ASSUME IInv, OneCarrier, TickAlone, Charged, NEW j \in JobIds, job[j].pc # "none", Carries(j),
         UNCHANGED <<author, reaper>>, history'.requeued = history.requeued
  PROVE  OneCarrier' /\ TickAlone' /\ Charged'
<1> DEFINE r == job[j].run
<1>1. r \in RunIds /\ Carried(r) /\ TypeOK /\ Named
  BY DEF IInv, Named, Exists, Carried
<1>2. JobsGoOn /\ HoldersGoOn
  BY DEF Carries, JobsGoOn, HoldersGoOn, Holding
<1>3. HeldFresh
  BY <1>1 DEF HeldFresh, Carries, OneCarrier, Holding
<1>4. TickAlone'
  <2>1. r \notin InTick
    BY <1>1 DEF TickAlone
  <2>2. QED
    BY <1>1, <1>2, <2>1, InTickRuns, NoneCarried, TickFrame DEF Carries, HoldersGoOn
<1>5. Charged'
  BY <1>1, ChargedFrame DEF Carries, Named, Exists
<1>6. QED
  BY <1>2, <1>3, <1>4, <1>5, CarrierFrame

LEMMA WorkInOrder ==
  ASSUME IInv, InOrder, NEW j \in JobIds, Work(j) \/ Progress(j)
  PROVE  InOrder'
<1>1. UNCHANGED <<author, reaper>> /\ history'.requeued = history.requeued
  BY DEF IInv, TypeOK, HistoryType, Work, Progress, StartQuiz, StartInterview, CheckParent,
         Persist, Fail, Retry, Finish
<1>2. QED
  BY <1>1, WorkCarries, WorkClaimed, CarriesInOrder DEF InOrder

LEMMA DisturbInOrder ==
  ASSUME IInv, InOrder, NEW j \in JobIds, Kill(j) \/ Timeout(j)
  PROVE  InOrder'
<1>1. UNCHANGED <<kind, run, author, reaper, history>>
  BY DEF Kill, Timeout
<1>2. job[j].pc # "none" /\ job \in [JobIds -> JobType] /\ TypeOK
  BY DEF Kill, Timeout, Working, IInv, TypeOK
<1>3. job' = [job EXCEPT ![j] = NextTry(j)] \/ job' = [job EXCEPT ![j] = NoJob]
  BY DEF Kill, Timeout
<1>4. Carries(j)
  BY <1>1, <1>2, <1>3, NextTryGoesOn DEF Carries, NoJob, IInv, Named, Exists
<1>5. Claimed'
  BY <1>1, <1>2, <1>3, NextTryGoesOn DEF InOrder, Claimed, NoJob
<1>6. QED
  BY <1>1, <1>2, <1>4, <1>5, CarriesInOrder DEF InOrder
-----------------------------------------------------------------------------
(* The reaper *)

\* A run of the tick is unsettled, and only the reaper can write to it.
LEMMA ReapInOrder ==
  ASSUME IInv, InOrder, Reap
  PROVE  InOrder'
<1>0. TypeOK /\ Named /\ OneCarrier /\ TickAlone /\ Charged /\ Claimed
  BY DEF IInv, InOrder
<1>1. InTick \subseteq RunIds /\ reaper.todo \subseteq RunIds /\ reaper.failing \subseteq RunIds
  BY <1>0, InTickRuns DEF TypeOK, TickType
<1>2. kind' = kind /\ author' = author
  BY DEF Reap, Scan, Select, GiveUp, Requeue, ReapEnqueue, ReapEnqueueRaises, ReaperDies, TickEnds
<1>3. ASSUME UNCHANGED <<run, job, history>>,
             \A r \in InTick' : /\ run[r].status \in Active
                                /\ ~Carried(r)
                                /\ \A a \in Authors : ~Holding(a, r),
             reaper'.pc = "idle" => reaper'.todo = {},
             reaper'.pc # "acting" => reaper'.failing = {},
             reaper'.todo \cap reaper'.failing = {},
             reaper'.pc # "charged",
             reaper'.pc # "scanned" => \A r \in reaper'.todo : reaper'.reaps[r] = run[r].reaps
      PROVE  InOrder'
  <2>1. OneCarrier' /\ Claimed'
    BY <1>0, <1>2, <1>3 DEF OneCarrier, Claimed, Holding, Carried
  <2>2. TickAlone'
    <3>1. \A r \in InTick' : /\ run'[r].status \in Active
                             /\ ~Carried(r)'
                             /\ \A a \in Authors : ~Holding(a, r)'
      BY <1>2, <1>3 DEF Holding, Carried
    <3>2. QED
      BY <1>3, <3>1 DEF TickAlone
  <2>3. Charged'
    <3>1. \A r \in RunIds : /\ history.requeued[r] <= run[r].reaps
                            /\ history.requeued[r] + 0 <= run[r].reaps
      BY <1>0 DEF Charged, TypeOK, HistoryType, RunType
    <3>2. QED
      BY <1>0, <1>3, <3>1 DEF Charged
  <2>4. QED
    BY <2>1, <2>2, <2>3 DEF InOrder
<1>4. CASE Scan
  <2>1. reaper' = [reaper EXCEPT !.pc = "scanned", !.todo = {r \in RunIds : Stale(r)} \ LiveRuns]
    BY <1>4 DEF Scan
  <2>2. reaper'.pc = "scanned" /\ reaper'.failing = {}
    BY <1>0, <1>4, <2>1 DEF TypeOK, TickType, TickAlone, Scan
  <2>3. ASSUME NEW r \in InTick'
        PROVE  run[r].status \in Active /\ ~Carried(r) /\ \A a \in Authors : ~Holding(a, r)
    <3>1. r \in RunIds /\ Stale(r) /\ r \notin LiveRuns
      BY <1>0, <2>1, <2>2, <2>3 DEF InTick, TypeOK, TickType
    <3>2. QED
      BY <1>0, <3>1 DEF Stale, LiveRuns, Carried, OneCarrier
  <2>4. QED
    BY <1>3, <1>4, <2>2, <2>3 DEF Scan
<1>5. CASE Select
  <2>1. /\ reaper'.pc = "acting" /\ reaper'.todo = {r \in reaper.todo : Stale(r)}
        /\ reaper'.failing = {} /\ reaper'.reaps = [r \in RunIds |-> run[r].reaps]
    BY <1>0, <1>5 DEF Select, TypeOK, TickType, TickAlone
  <2>2. InTick' \subseteq InTick
    BY <2>1 DEF InTick
  <2>3. \A r \in reaper'.todo : reaper'.reaps[r] = run[r].reaps
    BY <1>1, <2>1
  <2>4. QED
    BY <1>0, <1>3, <1>5, <2>1, <2>2, <2>3 DEF Select, TickAlone
<1>6. ASSUME NEW r \in RunIds, GiveUp(r) PROVE InOrder'
  <2>1. /\ reaper'.pc = "acting" /\ reaper'.todo = reaper.todo \ {r} /\ r \in reaper.todo
        /\ reaper'.failing = reaper.failing \cup {r} /\ reaper'.reaps = reaper.reaps
    BY <1>0, <1>6 DEF GiveUp, TypeOK, TickType
  <2>2. InTick' \subseteq InTick
    BY <2>1 DEF InTick
  <2>3. reaper'.todo \cap reaper'.failing = {}
    BY <1>0, <2>1 DEF TickAlone
  <2>4. \A q \in reaper'.todo : reaper'.reaps[q] = run[q].reaps
    BY <1>0, <1>6, <2>1 DEF Charged, GiveUp
  <2>5. QED
    BY <1>0, <1>3, <1>6, <2>1, <2>2, <2>3, <2>4 DEF GiveUp, TickAlone
<1>7. CASE ReaperDies
  <2>1. /\ reaper'.todo = {} /\ reaper'.failing = {} /\ reaper'.pc = "idle" /\ InTick' = {}
        /\ UNCHANGED <<run, job, history>>
    BY <1>7 DEF ReaperDies, NoTick, InTick
  <2>2. QED
    BY <1>3, <2>1
<1>8. ASSUME reaper.pc = "charged", (\E j \in JobIds : Enqueue(j, reaper.run)) \/ UNCHANGED job,
             reaper' = [reaper EXCEPT !.pc = "acting", !.run = 0],
             history' = [history EXCEPT !.requeued[reaper.run] = @ + 1],
             run' = run
      PROVE  InOrder'
  <2> DEFINE r == reaper.run
  <2>1. /\ reaper'.pc = "acting" /\ reaper'.todo = reaper.todo /\ reaper'.failing = reaper.failing
        /\ reaper'.reaps = reaper.reaps
    BY <1>0, <1>8 DEF TypeOK, TickType
  <2>2. /\ r \in RunIds /\ r \in InTick /\ r \notin InTick' /\ InTick' \subseteq InTick
        /\ ~Carried(r) /\ \A a \in Authors : ~Holding(a, r)
    BY <1>0, <1>8, <2>1 DEF InTick, TickAlone, Named, Exists
  <2>3. HoldersGoOn /\ \A a \in Authors, q \in RunIds : Holding(a, q)' => Holding(a, q)
    BY <1>2 DEF HoldersGoOn, Holding
  <2>4. \A q \in RunIds : q # r /\ Carried(q)' => Carried(q)
    BY <1>0, <1>8, <2>2, NewJob DEF Carried
  <2>5. OneCarrier'
    <3>1. ASSUME NEW j \in JobIds, Enqueue(j, r) PROVE OneCarrier'
      BY <1>0, <1>8, <2>2, <2>3, <3>1, CarrierEnqueue
    <3>2. CASE UNCHANGED job
      BY <1>0, <1>2, <1>8, <3>2 DEF OneCarrier, Holding, Carried
    <3>3. QED
      BY <1>8, <3>1, <3>2
  <2>6. TickAlone'
    <3>1. \A q \in InTick' : /\ run'[q].status \in Active
                             /\ ~Carried(q)'
                             /\ \A a \in Authors : ~Holding(a, q)'
      BY <1>0, <1>1, <1>8, <2>2, <2>3, <2>4 DEF TickAlone
    <3>2. QED
      BY <1>0, <1>8, <2>1, <3>1 DEF TickAlone
  <2>7. Charged'
    <3>1. \A k \in JobIds : job'[k].pc # "none" => job'[k].reaps \in {0, run'[job'[k].run].reaps}
      BY <1>0, <1>8, <2>2, NewJob DEF Charged
    <3>2. \A q \in RunIds : history'.requeued[q] + 0 <= run[q].reaps
      <4>1. history.requeued \in [RunIds -> Nat]
        BY <1>0 DEF TypeOK, HistoryType
      <4>2. history'.requeued = [history.requeued EXCEPT ![r] = @ + 1]
        BY <1>0, <1>8 DEF TypeOK, HistoryType
      <4>3. \A q \in RunIds : history.requeued[q] + (IF r = q THEN 1 ELSE 0) <= run[q].reaps
        BY <1>0, <1>8 DEF Charged
      <4>4. QED
        BY <2>2, <4>1, <4>2, <4>3
    <3>3. QED
      BY <1>0, <1>8, <2>1, <3>1, <3>2 DEF Charged
  <2>8. Claimed'
    <3>1. history'.persisted = history.persisted
      BY <1>0, <1>8 DEF TypeOK, HistoryType
    <3>2. ASSUME NEW j \in JobIds, Enqueue(j, r) PROVE Claimed'
      BY <1>0, <1>2, <1>8, <2>2, <3>1, <3>2, ClaimedEnqueue
    <3>3. CASE UNCHANGED job
      BY <1>0, <1>2, <1>8, <3>1, <3>3 DEF Claimed
    <3>4. QED
      BY <1>8, <3>2, <3>3
  <2>9. QED
    BY <2>5, <2>6, <2>7, <2>8 DEF InOrder
<1>9. ASSUME NEW j \in JobIds, ReapEnqueue(j) PROVE InOrder'
  BY <1>8, <1>9 DEF ReapEnqueue
<1>10. CASE ReapEnqueueRaises
  BY <1>8, <1>10 DEF ReapEnqueueRaises, EnqueueRaises
\* The rows the tick has marked failed, and the row it requeues.
<1>11. ASSUME NEW rows \in SUBSET InTick, UNCHANGED <<job, history>>,
              \A q \in RunIds \ rows : run'[q] = run[q],
              \A q \in rows : /\ run'[q].status \in {"failed", run[q].status, "pending"}
                              /\ run'[q].reaps \in {run[q].reaps, run[q].reaps + 1}
       PROVE  OneCarrier' /\ Claimed' /\ \A q \in RunIds : run'[q].status = "none" => run'[q].reaps = 0
  <2>1. \A q \in rows : /\ q \in RunIds /\ run[q].status \in Active
                        /\ ~Carried(q)
                        /\ \A a \in Authors : ~Holding(a, q)
    BY <1>0, <1>1, <1>11 DEF TickAlone
  <2>2. JobsGoOn /\ HoldersGoOn
    BY <1>2, <1>11 DEF JobsGoOn, HoldersGoOn, Holding
  <2>3. HeldFresh
    BY <1>0, <1>2, <1>11, <2>1 DEF HeldFresh, OneCarrier, Holding
  <2>4. Claimed'
    <3>1. \A k \in JobIds : job[k].pc # "none" => job[k].run \in RunIds \ rows
      BY <1>0, <2>1 DEF Named, Exists, Carried
    <3>2. \A q \in rows : run[q].status # "completed" /\ run'[q].status # "completed"
      BY <1>11, <2>1 DEF Active
    <3>3. QED
      BY <1>0, <1>2, <1>11, <3>1, <3>2 DEF Claimed
  <2>5. \A q \in RunIds : run'[q].status = "none" => run'[q].reaps = 0
    BY <1>0, <1>11, <2>1 DEF Charged, Active
  <2>6. QED
    BY <1>0, <2>2, <2>3, <2>4, <2>5, CarrierFrame
<1>12. CASE TickEnds
  <2>1. /\ reaper' = NoTick /\ UNCHANGED <<job, history>> /\ reaper.failing \subseteq InTick
        /\ reaper.pc = "acting"
    BY <1>12 DEF TickEnds, InTick
  <2>2. /\ \A q \in RunIds \ reaper.failing : run'[q] = run[q]
        /\ \A q \in RunIds : run'[q].reaps = run[q].reaps
        /\ \A q \in reaper.failing : run'[q].status = "failed"
    BY <1>0, <1>1, <1>12 DEF TickEnds, FailRows, TypeOK, RunType
  <2>3. OneCarrier' /\ Claimed' /\ \A q \in RunIds : run'[q].status = "none" => run'[q].reaps = 0
    BY <1>1, <1>11, <2>1, <2>2
  <2>4. TickAlone'
    BY <2>1 DEF TickAlone, InTick, NoTick
  <2>5. Charged'
    <3>1. \A k \in JobIds : job'[k].pc # "none" => job'[k].reaps \in {0, run'[job'[k].run].reaps}
      BY <1>0, <2>1, <2>2 DEF Charged, Named, Exists
    <3>2. QED
      BY <1>0, <2>1, <2>2, <2>3, <3>1 DEF Charged, NoTick
  <2>6. QED
    BY <2>3, <2>4, <2>5 DEF InOrder
<1>13. ASSUME NEW r \in RunIds, Requeue(r) PROVE InOrder'
  <2> DEFINE failed == FailRows(reaper.failing)
  <2> DEFINE status == IF r \in reaper.pending THEN run[r].status ELSE "pending"
  <2>1. CASE reaper' = NoTick /\ UNCHANGED run
    <3>1. /\ reaper'.todo = {} /\ reaper'.failing = {} /\ reaper'.pc = "idle" /\ InTick' = {}
          /\ UNCHANGED <<run, job, history>>
      BY <1>13, <2>1 DEF Requeue, NoTick, InTick
    <3>2. QED
      BY <1>3, <3>1
  <2>2. CASE /\ run' = [failed EXCEPT ![r].status = status, ![r].fresh = status \in Active,
                                      ![r].reaps = reaper.reaps[r] + 1]
             /\ reaper' = [reaper EXCEPT !.pc = "charged", !.run = r, !.failing = {},
                                         !.todo = @ \ {r}]
    <3> DEFINE rows == reaper.failing \cup {r}
    <3>1. /\ reaper.pc = "acting" /\ r \in reaper.todo /\ rows \subseteq InTick /\ rows \subseteq RunIds
          /\ UNCHANGED <<job, history>> /\ r \notin reaper.failing
      BY <1>0, <1>1, <1>13 DEF Requeue, InTick, TickAlone
    <3>2. failed \in [RunIds -> RunType] /\ \A q \in RunIds : failed[q].reaps = run[q].reaps
      <4>1. failed \in [RunIds -> RunType]
        BY <1>0, <1>1, FailRowsType
      <4>2. \A q \in RunIds : failed[q].reaps = run[q].reaps
        BY <1>0 DEF FailRows, TypeOK, RunType
      <4>3. QED
        BY <4>1, <4>2
    <3>3. /\ \A q \in RunIds \ rows : failed[q] = run[q]
          /\ \A q \in reaper.failing : failed[q].status = "failed"
      BY <1>0, <1>1, FailRowsType DEF FailRows
    <3>4. status \in {run[r].status, "pending"} /\ run[r].status \in Active /\ reaper.reaps[r] = run[r].reaps
      BY <1>0, <3>1 DEF TickAlone, Charged
    <3>5. /\ \A q \in RunIds \ {r} : run'[q] = failed[q]
          /\ run'[r].status = status /\ run'[r].reaps = run[r].reaps + 1
      <4> HIDE DEF failed, status
      <4>1. QED
        BY <2>2, <3>2, <3>4 DEF RunType
    <3>6. /\ reaper'.pc = "charged" /\ reaper'.run = r /\ reaper'.failing = {}
          /\ reaper'.todo = reaper.todo \ {r} /\ reaper'.reaps = reaper.reaps
      BY <1>0, <2>2 DEF TypeOK, TickType
    <3> HIDE DEF failed, status
    <3>7. OneCarrier' /\ Claimed' /\ \A q \in RunIds : run'[q].status = "none" => run'[q].reaps = 0
      <4>1. \A q \in RunIds \ rows : run'[q] = run[q]
        BY <3>3, <3>5
      <4>2. \A q \in rows : /\ run'[q].status \in {"failed", run[q].status, "pending"}
                            /\ run'[q].reaps \in {run[q].reaps, run[q].reaps + 1}
        BY <3>1, <3>2, <3>3, <3>4, <3>5
      <4>3. rows \in SUBSET InTick /\ UNCHANGED <<job, history>>
        BY <3>1
      <4> HIDE DEF rows
      <4>4. QED
        BY <1>11, <4>1, <4>2, <4>3
    <3>8. TickAlone'
      <4>1. InTick' \subseteq InTick /\ InTick' \cap reaper.failing = {} 
        BY <1>0, <3>1, <3>6 DEF InTick, TickAlone
      <4>2. \A q \in InTick' : run'[q].status \in Active
        BY <1>0, <1>1, <3>3, <3>4, <3>5, <4>1 DEF TickAlone, Active
      <4>3. \A q \in InTick' : ~Carried(q)' /\ \A a \in Authors : ~Holding(a, q)'
        BY <1>0, <1>2, <3>1, <4>1 DEF TickAlone, Carried, Holding
      <4>4. QED
        BY <3>6, <4>2, <4>3 DEF TickAlone
    <3>9. Charged'
      <4>1. \A k \in JobIds : job'[k].pc # "none" => job'[k].reaps \in {0, run'[job'[k].run].reaps}
        <5>1. \A k \in JobIds : job[k].pc # "none" => job[k].run \in RunIds \ {r}
          BY <1>0, <3>1 DEF TickAlone, Named, Exists, Carried
        <5>2. QED
          BY <1>0, <3>1, <3>2, <3>5, <5>1 DEF Charged
      <4>2. \A q \in reaper'.todo : reaper'.reaps[q] = run'[q].reaps
        BY <1>0, <1>1, <3>1, <3>2, <3>5, <3>6 DEF Charged
      <4>3. ASSUME NEW q \in RunIds
            PROVE  history.requeued[q] + (IF r = q THEN 1 ELSE 0) <= run'[q].reaps
        <5>1. history.requeued[q] \in Nat /\ run[q].reaps \in Nat /\ history.requeued[q] <= run[q].reaps
          <6>1. history.requeued[q] \in Nat /\ run[q].reaps \in Nat
            BY <1>0, ConstantsAssumption DEF TypeOK, HistoryType, RunType
          <6>2. history.requeued[q] + 0 <= run[q].reaps
            BY <1>0, <3>1 DEF Charged
          <6>3. QED
            BY <6>1, <6>2
        <5>2. run'[q].reaps = IF r = q THEN run[q].reaps + 1 ELSE run[q].reaps
          BY <3>2, <3>5
        <5>3. QED
          BY <5>1, <5>2
      <4>4. QED
        BY <3>1, <3>6, <3>7, <4>1, <4>2, <4>3 DEF Charged
    <3>10. QED
      BY <3>7, <3>8, <3>9 DEF InOrder
  <2>3. QED
    BY <1>13, <2>1, <2>2 DEF Requeue
<1>14. QED
  BY <1>4, <1>5, <1>6, <1>7, <1>9, <1>10, <1>12, <1>13 DEF Reap

LEMMA AgeInOrder ==
  ASSUME IInv, InOrder, NEW r \in RunIds, Age(r)
  PROVE  InOrder'
<1>1. /\ UNCHANGED <<kind, job, author, reaper, history>>
      /\ \A a \in Authors : author[a].run # r
      /\ \A q \in RunIds \ {r} : run'[q] = run[q]
      /\ run'[r].status = run[r].status /\ run'[r].reaps = run[r].reaps
  BY DEF Age, IInv, TypeOK, RunType
<1>2. OneCarrier'
  BY <1>1, CarrierFrame DEF InOrder, OneCarrier, JobsGoOn, HoldersGoOn, HeldFresh, Holding
<1>3. TickAlone'
  <2>1. \A q \in InTick' : /\ run'[q].status \in Active
                           /\ ~Carried(q)'
                           /\ \A a \in Authors : ~Holding(a, q)'
    BY <1>1, InTickRuns DEF IInv, InOrder, TickAlone, InTick, Carried, Holding
  <2>2. QED
    BY <1>1, <2>1 DEF InOrder, TickAlone
<1>4. Charged'
  BY <1>1, ChargedFrame DEF IInv, InOrder, Named, Exists
<1>5. Claimed'
  BY <1>1 DEF IInv, Named, Exists, InOrder, Claimed
<1>6. QED
  BY <1>2, <1>3, <1>4, <1>5 DEF InOrder
-----------------------------------------------------------------------------
\* As long as Redis has lost no job.
InOrderUnlessLost == ~history.lost => InOrder

LEMMA InOrderStep == IInv /\ InOrderUnlessLost /\ [Next]_vars => InOrderUnlessLost'
<1> SUFFICES ASSUME IInv, InOrderUnlessLost, [Next]_vars, ~history'.lost
             PROVE  InOrder'
  BY DEF InOrderUnlessLost
<1>1. ~history.lost /\ \A j \in JobIds : ~Lose(j)
  BY ZenonT(30) DEF IInv, TypeOK, HistoryType, Next, vars, Request, Ask, Open, Refuse, Dispatch,
         DispatchRaises, DispatchFails, RequestDies, Authoring, Approve, Delete, Publish, Archive,
         Reopen, Work, StartQuiz, StartInterview, CheckParent, Persist, Fail, Retry, Finish,
         Progress, Disturb, Kill, Timeout, Lose, Reap, Scan, Select, GiveUp, Requeue, ReapEnqueue,
         ReapEnqueueRaises, ReaperDies, TickEnds, Age
<1>2. InOrder
  BY <1>1 DEF InOrderUnlessLost
<1>3. ASSUME Next PROVE InOrder'
  <2>1. ASSUME NEW j \in JobIds, Disturb(j) PROVE InOrder'
    BY <1>1, <1>2, <2>1, DisturbInOrder DEF Disturb
  <2>2. QED
    BY <1>2, <1>3, <2>1, RequestInOrder, AuthoringInOrder, WorkInOrder, ReapInOrder, AgeInOrder
    DEF Next, IInv, TypeOK
<1>4. CASE UNCHANGED vars
  <2>1. OneCarrier' /\ TickAlone'
    BY <1>2, <1>4 DEF InOrder, vars, OneCarrier, TickAlone, Holding, Carried, InTick
  <2>2. Charged' /\ Claimed'
    BY <1>2, <1>4 DEF InOrder, vars, Charged, Claimed
  <2>3. QED
    BY <2>1, <2>2 DEF InOrder
<1>5. QED
  BY <1>3, <1>4

LEMMA InOrderInvariant == Spec => [](IInv /\ InOrderUnlessLost)
<1>1. Init => InOrderUnlessLost
  BY InitInOrder DEF InOrderUnlessLost
<1>2. QED
  BY <1>1, InitIInv, IInvStep, InOrderStep, PTL DEF Spec

\* However often an interview's job is delivered, cancelled, retried and enqueued again,
\* its run's questions are added once, unless Redis loses a job: a task that persists
\* holds the only claim of a run that has no questions yet.
THEOREM PersistedOnceInvariant == Spec => []PersistedOnce
<1>1. IInv /\ InOrderUnlessLost => PersistedOnce
  <2> SUFFICES ASSUME IInv, InOrder, kind = "interview", NEW r \in RunIds
               PROVE  history.persisted[r] <= 1
    BY DEF InOrderUnlessLost, PersistedOnce
  <2>1. /\ history.persisted[r] \in Nat
        /\ history.persisted[r] <= IF run[r].status = "completed" THEN 1 ELSE 0
    BY DEF IInv, TypeOK, HistoryType, InOrder, Claimed
  <2>2. QED
    BY <2>1
<1>2. QED
  BY <1>1, InOrderInvariant, PTL

\* The reaper enqueues a run at most MaxReaps times unless Redis loses a job: no task
\* that merges its stale copy of the column gives back what the reaper has spent.
THEOREM WithinBudgetInvariant == Spec => []WithinBudget
<1>1. IInv /\ InOrderUnlessLost => WithinBudget
  <2> SUFFICES ASSUME IInv, InOrder, NEW r \in RunIds
               PROVE  history.requeued[r] <= MaxReaps
    BY DEF InOrderUnlessLost, WithinBudget
  <2>1. history.requeued[r] \in Nat /\ run[r].reaps \in 0 .. MaxReaps
    BY DEF IInv, TypeOK, HistoryType, RunType
  <2>2. \/ history.requeued[r] + 0 <= run[r].reaps
        \/ history.requeued[r] + 1 <= run[r].reaps
    BY DEF InOrder, Charged
  <2>3. QED
    BY <2>1, <2>2, ConstantsAssumption
<1>2. QED
  BY <1>1, InOrderInvariant, PTL

\* Only who holds an interview's run writes its status, and nobody holds a settled one.
LEMMA OutcomeStep ==
  ASSUME IInv, InOrder, [Next]_vars, NEW r \in RunIds, kind = "interview", run[r].status \in Settled
  PROVE  run'[r].status = run[r].status
<1>0. TypeOK /\ Named /\ OneCarrier /\ TickAlone /\ Charged /\ Claimed
  BY DEF IInv, InOrder
<1>1. run[r].status \notin {"none", "pending", "running"} /\ r \notin InTick
  BY <1>0 DEF Settled, TickAlone, Active
<1>2. CASE UNCHANGED run
  BY <1>2
<1>3. ASSUME NEW a \in Authors, NEW q \in RunIds, Open(a, q) PROVE run'[r].status = run[r].status
  BY <1>0, <1>1, <1>3 DEF Open, NextRun, TypeOK
<1>4. ASSUME NEW a \in Authors, DispatchFails(a) PROVE run'[r].status = run[r].status
  BY <1>0, <1>1, <1>4 DEF DispatchFails, TypeOK, RunType
<1>5. ASSUME NEW j \in JobIds, Work(j) \/ Progress(j) PROVE run'[r].status = run[r].status
  <2>1. CASE job[j].run # r
    BY <1>0, <1>5, <2>1, WorkCarries DEF Carries
  <2>2. CASE job[j].run = r
    <3>1. job[j].pc \notin {"started", "generating", "checked"} /\ ~PastCheck(j)
      BY <1>0, <1>1, <2>2 DEF Claimed, PastCheck
    <3>2. UNCHANGED run
      BY <1>1, <1>5, <2>2, <3>1
      DEF Work, Progress, StartQuiz, StartInterview, CheckParent, Persist, Fail, Retry, Finish
    <3>3. QED
      BY <3>2
  <2>3. QED
    BY <2>1, <2>2
<1>6. ASSUME NEW q \in RunIds, Requeue(q) PROVE run'[r].status = run[r].status
  <2>1. r \notin reaper.failing /\ q # r
    BY <1>1, <1>6 DEF Requeue, InTick
  <2>2. FailRows(reaper.failing)[r] = run[r]
    BY <2>1 DEF FailRows
  <2>3. QED
    BY <1>6, <2>1, <2>2 DEF Requeue, FailRows
<1>7. CASE TickEnds
  BY <1>1, <1>7 DEF TickEnds, FailRows, InTick
<1>8. ASSUME NEW q \in RunIds, Age(q) PROVE run'[r].status = run[r].status
  BY <1>0, <1>8 DEF Age, TypeOK, RunType
<1>9. QED
  BY <1>2, <1>3, <1>4, <1>5, <1>6, <1>7, <1>8
  DEF Next, vars, Request, Ask, Refuse, Dispatch, DispatchRaises, RequestDies, Authoring, Approve,
      Delete, Publish, Archive, Reopen, Disturb, Kill, Timeout, Lose, Reap, Scan, Select, GiveUp,
      ReapEnqueue, ReapEnqueueRaises, ReaperDies

\* A settled run of an interview stays as it is unless Redis loses a job: no redelivered
\* job, late request or reaper with an old row reopens it or changes its outcome.
THEOREM OutcomeFinalAlways == Spec => OutcomeFinal
<1>1. IInv /\ InOrderUnlessLost /\ [Next]_vars =>
        [\A r \in RunIds :
           kind = "interview" /\ ~history.lost /\ run[r].status \in Settled
             => run'[r].status = run[r].status]_vars
  BY OutcomeStep DEF InOrderUnlessLost
<1>2. QED
  BY <1>1, InOrderInvariant, PTL DEF Spec, OutcomeFinal
=============================================================================

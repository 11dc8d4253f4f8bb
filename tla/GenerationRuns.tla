--------------------------- MODULE GenerationRuns ---------------------------
(* AI generation of the questions of one quiz or of one interview: the         *)
(* generation_runs rows teachers open, the ARQ jobs that carry them, the       *)
(* worker tasks, the reaper's quiz and interview halves and the publication of *)
(* the quiz or interview meanwhile (features/quizzes, features/interviews,     *)
(* features/materials/workers/reaper.py).  The two kinds share the table and   *)
(* the reaper's protocol and differ in how a worker takes a run, when it looks *)
(* at the status of the quiz or interview, and what it does to its questions:  *)
(* kind is chosen once.  A batch is what one commit of a worker adds.          *)
(*                                                                             *)
(* A worker or request keeps the row it loaded (expire_on_commit=False), so    *)
(* only what a step reads again is read from the current state.  fresh is      *)
(* "not settled, and updated_at within the reaper's grace of 300 s": every      *)
(* UPDATE sets it.                                                             *)
EXTENDS Integers

CONSTANTS Kinds,        \* subset of {"quiz", "interview"}
          Authors,      \* generation requests running at the same time
          MaxRuns,      \* bound: generation_runs rows
          MaxJobs,      \* bound: ARQ jobs at the same time
          MaxBatches,   \* bound: batches of questions added
          MaxTries,     \* ARQ's max_tries, GENERATION_MAX_TRIES
          MaxReaps,     \* _QUIZ_MAX_REQUEUE_ATTEMPTS, _INTERVIEW_MAX_REQUEUE_ATTEMPTS
          Faults,       \* the faults of this instance
          MaxFaults     \* bound: faults

ASSUME ConstantsAssumption ==
    /\ Kinds \subseteq {"quiz", "interview"}
    /\ MaxRuns \in Nat /\ MaxJobs \in Nat /\ MaxBatches \in Nat
    /\ MaxTries \in Nat \ {0} /\ MaxReaps \in Nat /\ MaxFaults \in Nat
    /\ Faults \subseteq {"enqueue", "crash", "kill", "timeout", "lose"}

VARIABLES kind,      \* generation_type of every run here
          parent,    \* status of the quiz or interview config
          batch,     \* review_status of each batch of questions
          run,       \* generation_runs rows
          job,       \* ARQ jobs: arq:job:* keys and the tasks working on them
          author,    \* generation requests
          reaper,    \* one tick of the reaper
          faults,    \* faults so far
          history    \* what no row remembers: see NoHistory

vars == <<kind, parent, batch, run, job, author, reaper, faults, history>>

RunIds == 1 .. MaxRuns
JobIds == 1 .. MaxJobs
Batches == 0 .. MaxBatches     \* 0 is what the quiz or interview has at first

Active == {"pending", "running"}
Settled == {"completed", "failed"}
Modes == {"append", "replace", "regenerate"}

NoRun == [status |-> "none", mode |-> "append", targets |-> {}, reaps |-> 0, fresh |-> FALSE]
NoJob == [pc |-> "none", run |-> 0, try |-> 1, live |-> FALSE, reaps |-> 0]
NoAuthor == [pc |-> "idle", mode |-> "append", targets |-> {}, run |-> 0]
NoTick == [pc |-> "idle", todo |-> {}, failing |-> {}, pending |-> {}, run |-> 0,
           reaps |-> [r \in RunIds |-> 0]]
NoHistory == [persisted |-> [r \in RunIds |-> 0],   \* commits of questions, per run
              requeued |-> [r \in RunIds |-> 0],    \* the reaper's enqueue_job calls, per run
              lost |-> FALSE,                       \* Redis lost a job
              ahead |-> {}]     \* the jobs past their check of parent when it was published

Init ==
    /\ kind \in Kinds
    /\ parent = "draft"
    /\ batch = [b \in Batches |-> IF b = 0 THEN "approved" ELSE "none"]
    /\ run = [r \in RunIds |-> NoRun]
    /\ job = [j \in JobIds |-> NoJob]
    /\ author = [a \in Authors |-> NoAuthor]
    /\ reaper = NoTick
    /\ faults = 0
    /\ history = NoHistory

-----------------------------------------------------------------------------
(* Rows and the queue *)

Live(b) == batch[b] \in {"pending", "approved"}
LiveBatches == {b \in Batches : Live(b)}
Approved == {b \in Batches : batch[b] = "approved"}

InFlight == \E r \in RunIds : run[r].status \in Active

\* _assert_quiz_editable; published_freeze.assert_questions_editable.
Editable == IF kind = "quiz" THEN parent = "draft" ELSE parent # "published"

NextRun(r) == run[r].status = "none" /\ \A q \in RunIds : (q < r) => run[q].status # "none"
NextBatch(b) == batch[b] = "none" /\ \A c \in Batches : (c < b) => batch[c] # "none"
FreeJob(j) == job[j].pc = "none" /\ \A k \in JobIds : (k < j) => job[k].pc # "none"

\* enqueue_job writes arq:job:* and queues the job at its first try.
Enqueue(j, r) == /\ FreeJob(j)
                 /\ job' = [job EXCEPT ![j] = [NoJob EXCEPT !.pc = "queued", !.run = r,
                                                            !.live = TRUE]]

\* The runs an arq:job:* key names.
LiveRuns == {job[j].run : j \in {k \in JobIds : job[k].live}}

\* The job's task will commit questions without another look at parent.
PastCheck(j) == job[j].pc = (IF kind = "quiz" THEN "generating" ELSE "checked")

Fault(f) == f \in Faults /\ faults < MaxFaults /\ faults' = faults + 1

-----------------------------------------------------------------------------
(* Requests that start a generation *)

\* start_generation_run, regenerate_question: the checks, and the ids of the
\* questions to replace.  Nothing is locked.
Ask(a, mode, targets) ==
    /\ author[a].pc = "idle"
    /\ \E r \in RunIds : NextRun(r)
    /\ Editable
    /\ (kind = "quiz" /\ mode # "regenerate") => ~InFlight
    /\ CASE mode = "append" -> targets = {}
         [] mode = "replace" -> kind = "quiz" /\ targets = LiveBatches
         [] OTHER -> kind = "quiz" /\ \E b \in LiveBatches : targets = {b}
    /\ author' = [author EXCEPT ![a] = [pc |-> "checked", mode |-> mode,
                                        targets |-> targets, run |-> 0]]
    /\ UNCHANGED <<kind, parent, batch, run, job, reaper, faults, history>>

\* Mutant: the run of an interview has no dedup_key.
OpenUnkeyed(a, r) ==
    /\ author[a].pc = "checked"
    /\ NextRun(r)
    /\ run' = [run EXCEPT ![r].status = "pending", ![r].fresh = TRUE]
    /\ author' = [author EXCEPT ![a].pc = "opened", ![a].run = r]
    /\ UNCHANGED <<kind, parent, batch, job, reaper, faults, history>>

\* The run's INSERT and commit.
Open(a, r) ==
    /\ author[a].pc = "checked"
    /\ NextRun(r)
    /\ kind = "interview" => ~InFlight
    /\ run' = [run EXCEPT ![r] = [status |-> "pending", mode |-> author[a].mode,
                                  targets |-> author[a].targets, reaps |-> 0, fresh |-> TRUE]]
    /\ author' = [author EXCEPT ![a].pc = "opened", ![a].run = r]
    /\ UNCHANGED <<kind, parent, batch, job, reaper, faults, history>>

\* uq_generation_runs_active_dedup refuses the INSERT (an interview's run has a
\* dedup_key); or the model's last row is taken.
Refuse(a) ==
    /\ author[a].pc = "checked"
    /\ (kind = "interview" /\ InFlight) \/ ~ \E r \in RunIds : NextRun(r)
    /\ author' = [author EXCEPT ![a] = NoAuthor]
    /\ UNCHANGED <<kind, parent, batch, run, job, reaper, faults, history>>

Dispatch(a, j) ==
    /\ author[a].pc = "opened"
    /\ Enqueue(j, author[a].run)
    /\ author' = [author EXCEPT ![a] = NoAuthor]
    /\ UNCHANGED <<kind, parent, batch, run, reaper, faults, history>>

\* enqueue_job raises, and Redis may have the job all the same.
EnqueueRaises(r) == Fault("enqueue") /\ (UNCHANGED job \/ \E j \in JobIds : Enqueue(j, r))

DispatchRaises(a) ==
    /\ author[a].pc = "opened"
    /\ EnqueueRaises(author[a].run)
    /\ author' = [author EXCEPT ![a].pc = "raised"]
    /\ UNCHANGED <<kind, parent, batch, run, reaper, history>>

\* Mutant: the run is failed whatever its status.
DispatchFailsAnyway(a) ==
    /\ author[a].pc = "raised"
    /\ run' = [run EXCEPT ![author[a].run].status = "failed"]
    /\ author' = [author EXCEPT ![a] = NoAuthor]
    /\ UNCHANGED <<kind, parent, batch, job, reaper, faults, history>>

\* The interview's request fails the run if it is still pending
\* (mark_pending_generation_run_failed), the quiz's leaves it.
DispatchFails(a) ==
    /\ author[a].pc = "raised"
    /\ LET r == author[a].run IN
       run' = IF kind = "interview" /\ run[r].status = "pending"
              THEN [run EXCEPT ![r].status = "failed", ![r].fresh = FALSE] ELSE run
    /\ author' = [author EXCEPT ![a] = NoAuthor]
    /\ UNCHANGED <<kind, parent, batch, job, reaper, faults, history>>

RequestDies(a) ==
    /\ author[a].pc \in {"opened", "raised"}
    /\ Fault("crash")
    /\ author' = [author EXCEPT ![a] = NoAuthor]
    /\ UNCHANGED <<kind, parent, batch, run, job, reaper, history>>

-----------------------------------------------------------------------------
(* Authoring: one short transaction each *)

Approve(b) ==
    /\ Editable
    /\ batch[b] = "pending"
    /\ batch' = [batch EXCEPT ![b] = "approved"]
    /\ UNCHANGED <<kind, parent, run, job, author, reaper, faults, history>>

Delete(b) ==
    /\ Editable
    /\ Live(b)
    /\ batch' = [batch EXCEPT ![b] = "gone"]
    /\ UNCHANGED <<kind, parent, run, job, author, reaper, faults, history>>

\* publish_quiz, publish_interview_config: at least one approved question.
Publish ==
    /\ parent = "draft"
    /\ Approved # {}
    /\ parent' = "published"
    /\ history' = [history EXCEPT !.ahead = {j \in JobIds : PastCheck(j)}]
    /\ UNCHANGED <<kind, batch, run, job, author, reaper, faults>>

\* archive_quiz, archive_interview_config.
Archive ==
    /\ parent # "archived"
    /\ parent' = "archived"
    /\ UNCHANGED <<kind, batch, run, job, author, reaper, faults, history>>

\* unpublish_interview_config, unarchive_interview_config; a quiz has neither.
Reopen ==
    /\ kind = "interview"
    /\ parent # "draft"
    /\ parent' = "draft"
    /\ UNCHANGED <<kind, batch, run, job, author, reaper, faults, history>>

-----------------------------------------------------------------------------
(* Worker tasks *)

\* What a task that raised or was cancelled leaves of its job: the next try, or
\* nothing.  A job whose key Redis lost is not found again.
NextTry(j) == IF job[j].live /\ job[j].try < MaxTries
              THEN [job[j] EXCEPT !.pc = "queued", !.try = @ + 1]
              ELSE NoJob

\* Mutant: the column is replaced by what the task loaded.
MergedAway(j) == job[j].reaps

\* An interview task merges the config_json it loaded into the row: a reap_count
\* it loaded replaces the current one.
Merged(j) == IF kind = "interview" /\ job[j].reaps > 0 THEN job[j].reaps
             ELSE run[job[j].run].reaps

\* run_quiz_generation up to its first commit: no look at the run's status; a
\* regeneration whose question is gone raises before the try block.
StartQuiz(j) ==
    LET r == job[j].run IN
    /\ kind = "quiz"
    /\ job[j].pc = "queued"
    /\ IF run[r].mode = "regenerate" /\ run[r].targets \cap LiveBatches = {}
       THEN /\ job' = [job EXCEPT ![j] = NoJob]
            /\ UNCHANGED run
       ELSE /\ job' = [job EXCEPT ![j].pc = "started"]
            /\ run' = [run EXCEPT ![r].status = "running", ![r].fresh = TRUE]
    /\ UNCHANGED <<kind, parent, batch, author, reaper, faults, history>>

\* Mutant: the claim does not look at the status.
StartInterviewAnyway(j) ==
    /\ kind = "interview"
    /\ job[j].pc = "queued"
    /\ job' = [job EXCEPT ![j].pc = "generating", ![j].reaps = run[job[j].run].reaps]
    /\ run' = [run EXCEPT ![job[j].run].status = "running", ![job[j].run].fresh = TRUE]
    /\ UNCHANGED <<kind, parent, batch, author, reaper, faults, history>>

\* run_interview_generation: _claim_pending_run; a job that finds the run taken
\* or settled returns.
StartInterview(j) ==
    LET r == job[j].run IN
    /\ kind = "interview"
    /\ job[j].pc = "queued"
    /\ IF run[r].status = "pending"
       THEN /\ job' = [job EXCEPT ![j].pc = "generating", ![j].reaps = run[r].reaps]
            /\ run' = [run EXCEPT ![r].status = "running", ![r].fresh = TRUE]
       ELSE /\ job' = [job EXCEPT ![j] = NoJob]
            /\ UNCHANGED run
    /\ UNCHANGED <<kind, parent, batch, author, reaper, faults, history>>

\* Mutant: the quiz or interview is not loaded again.
CheckParentSkipped(j) ==
    /\ job[j].pc = (IF kind = "quiz" THEN "started" ELSE "generating")
    /\ job' = [job EXCEPT ![j].pc = IF kind = "quiz" THEN "generating" ELSE "checked"]
    /\ UNCHANGED <<kind, parent, batch, run, author, reaper, faults, history>>

\* The check of the quiz before the model calls, of the interview after them.
CheckParent(j) ==
    /\ job[j].pc = (IF kind = "quiz" THEN "started" ELSE "generating")
    /\ Editable
    /\ job' = [job EXCEPT ![j].pc = IF kind = "quiz" THEN "generating" ELSE "checked"]
    /\ UNCHANGED <<kind, parent, batch, run, author, reaper, faults, history>>

\* record_stage, record_config_patch; _update_run of the retrieval, _write_progress.
Progress(j) ==
    /\ job[j].pc = "generating"
    /\ LET r == job[j].run IN
       run' = [run EXCEPT ![r].fresh = run[r].status \in Active, ![r].reaps = Merged(j)]
    /\ UNCHANGED <<kind, parent, batch, job, author, reaper, faults, history>>

\* The questions a commit leaves, by the mode of the run.
Written(r, b) ==
    CASE run[r].mode = "regenerate" ->
           [c \in Batches |-> IF c \in run[r].targets \cap LiveBatches THEN "pending" ELSE batch[c]]
      [] run[r].mode = "replace" ->
           [c \in Batches |-> IF c \in run[r].targets THEN "gone"
                              ELSE IF c = b THEN "pending" ELSE batch[c]]
      [] OTHER -> [batch EXCEPT ![b] = "pending"]

\* persist_questions, _finalize_replace or replace_question_in_place, and the
\* run completed: one commit, whatever the status of the run is by now.
Persist(j, b) ==
    LET r == job[j].run IN
    /\ PastCheck(j)
    /\ NextBatch(b)
    /\ batch' = Written(r, b)
    /\ run' = [run EXCEPT ![r].status = "completed", ![r].fresh = FALSE, ![r].reaps = Merged(j)]
    /\ job' = [job EXCEPT ![j].pc = "notifying"]
    /\ history' = [history EXCEPT !.persisted[r] = @ + 1]
    /\ UNCHANGED <<kind, parent, author, reaper, faults>>

\* An exception: rolled back, the run failed whatever its status is by now.
\* ARQ does not run a task that raised again.
Fail(j) ==
    /\ job[j].pc \in {"started", "generating", "checked"}
    /\ run' = [run EXCEPT ![job[j].run].status = "failed", ![job[j].run].fresh = FALSE]
    /\ job' = [job EXCEPT ![j].pc = "notifying"]
    /\ UNCHANGED <<kind, parent, batch, author, reaper, faults, history>>

\* A transient failure of an interview's run with a try left: pending again, and
\* the task raises Retry; or the unique index refuses, and the job is over.
Retry(j) ==
    LET r == job[j].run IN
    /\ kind = "interview"
    /\ job[j].pc \in {"generating", "checked"}
    /\ job[j].try < MaxTries
    /\ IF run[r].status \in Settled /\ InFlight
       THEN job' = [job EXCEPT ![j] = NoJob] /\ UNCHANGED run
       ELSE /\ run' = [run EXCEPT ![r].status = "pending", ![r].fresh = TRUE]
            /\ job' = [job EXCEPT ![j] = NextTry(j)]
    /\ UNCHANGED <<kind, parent, batch, author, reaper, faults, history>>

\* The notification was sent; ARQ deletes the job's key.
Finish(j) ==
    /\ job[j].pc = "notifying"
    /\ job' = [job EXCEPT ![j] = NoJob]
    /\ UNCHANGED <<kind, parent, batch, run, author, reaper, faults, history>>

Working(j) == job[j].pc \notin {"none", "queued"}

\* The worker is shut down or killed: rolled back, ARQ runs the job again.
Kill(j) ==
    /\ Working(j)
    /\ Fault("kill")
    /\ job' = [job EXCEPT ![j] = NextTry(j)]
    /\ UNCHANGED <<kind, parent, batch, run, author, reaper, history>>

\* job_timeout cancels the task: rolled back, and the job is over.
Timeout(j) ==
    /\ job[j].pc \in {"generating", "checked"}
    /\ Fault("timeout")
    /\ job' = [job EXCEPT ![j] = NoJob]
    /\ UNCHANGED <<kind, parent, batch, run, author, reaper, history>>

\* Redis loses a job's key: a queued job is gone, a task works on unseen.
Lose(j) ==
    /\ job[j].live
    /\ Fault("lose")
    /\ job' = [job EXCEPT ![j] = IF Working(j) THEN [@ EXCEPT !.live = FALSE] ELSE NoJob]
    /\ history' = [history EXCEPT !.lost = TRUE]
    /\ UNCHANGED <<kind, parent, batch, run, author, reaper>>

-----------------------------------------------------------------------------
(* The reaper: a tick every three minutes *)

\* Mutant: only runs a worker took are looked for.
StaleRunning(r) == run[r].status = "running" /\ ~run[r].fresh

Stale(r) == run[r].status \in Active /\ ~run[r].fresh

\* The cutoff, then _live_quiz_run_ids or _live_interview_run_ids.  (A tick that
\* would find no stale row changes nothing.)
Scan ==
    /\ reaper.pc = "idle"
    /\ \E r \in RunIds : Stale(r)
    /\ reaper' = [reaper EXCEPT !.pc = "scanned",
                                !.todo = {r \in RunIds : Stale(r)} \ LiveRuns]
    /\ UNCHANGED <<kind, parent, batch, run, job, author, faults, history>>

\* Active rows older than the cutoff that no key names.
Select ==
    /\ reaper.pc = "scanned"
    /\ reaper' = [reaper EXCEPT !.pc = "acting",
                                !.todo = {r \in @ : Stale(r)},
                                !.pending = {r \in RunIds : run[r].status = "pending"},
                                !.reaps = [r \in RunIds |-> run[r].reaps]]
    /\ UNCHANGED <<kind, parent, batch, run, job, author, faults, history>>

\* The rows the tick has marked failed reach the database with its next commit.
FailRows(rows) == [r \in RunIds |-> IF r \in rows
                                    THEN [run[r] EXCEPT !.status = "failed", !.fresh = FALSE]
                                    ELSE run[r]]

GiveUp(r) ==
    /\ reaper.pc = "acting"
    /\ r \in reaper.todo
    /\ reaper.reaps[r] >= MaxReaps
    /\ reaper' = [reaper EXCEPT !.todo = @ \ {r}, !.failing = @ \cup {r}]
    /\ UNCHANGED <<kind, parent, batch, run, job, author, faults, history>>

\* The run pending, the budget charged, committed, from the row as selected: the
\* status is written if it was running then.  The unique index refuses a second
\* active run of an interview, and the tick ends.
Requeue(r) ==
    /\ reaper.pc = "acting"
    /\ r \in reaper.todo
    /\ reaper.reaps[r] < MaxReaps
    /\ LET failed == FailRows(reaper.failing)
           status == IF r \in reaper.pending THEN run[r].status ELSE "pending"
       IN IF /\ kind = "interview" /\ status \in Active
             /\ \E q \in RunIds \ {r} : failed[q].status \in Active
          THEN reaper' = NoTick /\ UNCHANGED run
          ELSE /\ run' = [failed EXCEPT ![r].status = status, ![r].fresh = status \in Active,
                                        ![r].reaps = reaper.reaps[r] + 1]
               /\ reaper' = [reaper EXCEPT !.pc = "charged", !.run = r, !.failing = {},
                                           !.todo = @ \ {r}]
    /\ UNCHANGED <<kind, parent, batch, job, author, faults, history>>

ReapEnqueue(j) ==
    /\ reaper.pc = "charged"
    /\ Enqueue(j, reaper.run)
    /\ reaper' = [reaper EXCEPT !.pc = "acting", !.run = 0]
    /\ history' = [history EXCEPT !.requeued[reaper.run] = @ + 1]
    /\ UNCHANGED <<kind, parent, batch, run, author, faults>>

ReapEnqueueRaises ==
    /\ reaper.pc = "charged"
    /\ EnqueueRaises(reaper.run)
    /\ reaper' = [reaper EXCEPT !.pc = "acting", !.run = 0]
    /\ history' = [history EXCEPT !.requeued[reaper.run] = @ + 1]
    /\ UNCHANGED <<kind, parent, batch, run, author>>

ReaperDies ==
    /\ reaper.pc \in {"acting", "charged"}
    /\ Fault("crash")
    /\ reaper' = NoTick
    /\ UNCHANGED <<kind, parent, batch, run, job, author, history>>

TickEnds ==
    /\ reaper.pc = "acting"
    /\ reaper.todo = {}
    /\ run' = FailRows(reaper.failing)
    /\ reaper' = NoTick
    /\ UNCHANGED <<kind, parent, batch, job, author, faults, history>>

\* 300 s pass without an UPDATE.  The moments between a commit and its enqueue
\* are shorter than that.
Age(r) ==
    /\ run[r].status \in Active
    /\ run[r].fresh
    /\ \A a \in Authors : author[a].run # r
    /\ reaper.run # r
    /\ run' = [run EXCEPT ![r].fresh = FALSE]
    /\ UNCHANGED <<kind, parent, batch, job, author, reaper, faults, history>>

-----------------------------------------------------------------------------
Request(a) == \/ \E mode \in Modes, targets \in SUBSET Batches : Ask(a, mode, targets)
              \/ \E r \in RunIds : Open(a, r)
              \/ Refuse(a)
              \/ \E j \in JobIds : Dispatch(a, j)
              \/ DispatchRaises(a)
              \/ DispatchFails(a)
              \/ RequestDies(a)

Authoring == \/ \E b \in Batches : Approve(b) \/ Delete(b)
             \/ Publish
             \/ Archive
             \/ Reopen

\* Every step of a task but its progress reports.
Work(j) == \/ StartQuiz(j)
           \/ StartInterview(j)
           \/ CheckParent(j)
           \/ \E b \in Batches : Persist(j, b)
           \/ Fail(j)
           \/ Retry(j)
           \/ Finish(j)

Disturb(j) == Kill(j) \/ Timeout(j) \/ Lose(j)

Reap == \/ Scan
        \/ Select
        \/ \E r \in RunIds : GiveUp(r) \/ Requeue(r)
        \/ \E j \in JobIds : ReapEnqueue(j)
        \/ ReapEnqueueRaises
        \/ ReaperDies
        \/ TickEnds

Next == \/ \E a \in Authors : Request(a)
        \/ Authoring
        \/ \E j \in JobIds : Work(j) \/ Progress(j) \/ Disturb(j)
        \/ Reap
        \/ \E r \in RunIds : Age(r)

Spec == Init /\ [][Next]_vars

\* ARQ and the cron run on, requests end, a task ends (job_timeout cancels it),
\* time passes.  Nothing obliges a teacher.
Fairness ==
    /\ \A a \in Authors : WF_vars((\E r \in RunIds : Open(a, r)) \/ Refuse(a)
                                 \/ (\E j \in JobIds : Dispatch(a, j)) \/ DispatchFails(a))
    /\ \A j \in JobIds : WF_vars(Work(j))
    /\ WF_vars(Reap)
    /\ \A r \in RunIds : WF_vars(Age(r))

FairSpec == Spec /\ Fairness

-----------------------------------------------------------------------------
(* Properties *)

RunType == [status : {"none"} \cup Active \cup Settled, mode : Modes,
            targets : SUBSET Batches, reaps : 0 .. MaxReaps, fresh : BOOLEAN]
JobType == [pc : {"none", "queued", "started", "generating", "checked", "notifying"},
            run : 0 .. MaxRuns, try : 1 .. MaxTries, live : BOOLEAN, reaps : 0 .. MaxReaps]
AuthorType == [pc : {"idle", "checked", "opened", "raised"}, mode : Modes,
               targets : SUBSET Batches, run : 0 .. MaxRuns]
TickType == [pc : {"idle", "scanned", "acting", "charged"}, todo : SUBSET RunIds,
             failing : SUBSET RunIds, pending : SUBSET RunIds, run : 0 .. MaxRuns,
             reaps : [RunIds -> 0 .. MaxReaps]]
HistoryType == [persisted : [RunIds -> Nat], requeued : [RunIds -> Nat], lost : BOOLEAN,
                ahead : SUBSET JobIds]

\* Rows, jobs and budgets keep their types: no try or requeue beyond its limit.
TypeOK ==
    /\ kind \in Kinds
    /\ parent \in {"draft", "published", "archived"}
    /\ batch \in [Batches -> {"none", "pending", "approved", "gone"}]
    /\ run \in [RunIds -> RunType]
    /\ job \in [JobIds -> JobType]
    /\ author \in [Authors -> AuthorType]
    /\ reaper \in TickType
    /\ faults \in 0 .. MaxFaults
    /\ history \in HistoryType

\* An interview has at most one generation run that is not settled, whichever
\* requests race and whatever the reaper reopens: two runs would fill its bank
\* twice (dedup_key and uq_generation_runs_active_dedup).
OneActiveRun ==
    kind = "interview" =>
      \A q, r \in RunIds : run[q].status \in Active /\ run[r].status \in Active => q = r

\* An interview's run adds its questions at most once, however often its job is
\* delivered, cancelled, retried and enqueued again, as long as Redis forgets no
\* job (_claim_pending_run: "duplicate worker deliveries no-op").
PersistedOnce ==
    kind = "interview" /\ ~history.lost => \A r \in RunIds : history.persisted[r] <= 1

\* The reaper enqueues a run at most MaxReaps times, as long as Redis forgets no
\* job: the budget survives what the tasks write into the same column.
WithinBudget ==
    ~history.lost => \A r \in RunIds : history.requeued[r] <= MaxReaps

\* The outcome of an interview's run is final as long as Redis forgets no job: no
\* late request, redelivered job or stale reaper changes it.
OutcomeFinal ==
    [][\A r \in RunIds :
         kind = "interview" /\ ~history.lost /\ run[r].status \in Settled
           => run'[r].status = run[r].status]_vars

\* What students are served, the approved questions of a published quiz or
\* interview, changes only under a quiz's run whose task was already past its look
\* at the quiz when the quiz was published.
ServedFrozen ==
    [][parent = "published" /\ parent' = "published" /\ Approved' # Approved
         => kind = "quiz" /\ \E j \in history.ahead : job[j].pc = "generating"
                                                     /\ job'[j].pc = "notifying"]_vars

\* Every run ends completed or failed: its teacher is told, and an interview can be
\* generated again.
RunsSettle == \A r \in RunIds : run[r].status \in Active ~> run[r].status \in Settled
=============================================================================

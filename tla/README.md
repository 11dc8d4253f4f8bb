# co4029-backend: a TLA+ development

The repository is the backend of a learning platform: a FastAPI application over
PostgreSQL (async SQLAlchemy; READ COMMITTED, `autoflush=False`,
`expire_on_commit=False`), with ARQ tasks and crons over Redis, objects in S3, LiveKit
for interviews by voice and text, and an optional knowledge graph in Neo4j. The code is
under `src/abridgeai`; paths below are relative to `src/abridgeai/features` unless they
start with `core`, `workers`, `ai`, `tests`, `docs` or `migrations`.

Most of the system is create-read-update-delete inside one request. Its core logic is in
protocols between requests, workers and crons that share rows and nothing else: hardly any
code takes a lock or tests a row's status in its `UPDATE`, so what holds is decided by
unique indexes and by the order of reads, flushes, commits and enqueues. That is what the
modules here follow.

Contents: [inventory](#inventory), [modules](#modules), [conventions](#conventions),
[runs](#runs), [fairness](#fairness), [proofs](#proofs),
[disagreements](#disagreements-with-the-repositorys-own-words),
[observations](#observations), [not modelled](#not-modelled), [plan](#plan).

## Inventory

### Materials ingest (`materials`, `ai/models.py`) - modelled in part

A teacher uploads a file: `init_upload`, a presigned PUT, `complete_upload`. Completing
writes the version row (`processing_status` `pending`, `is_current`), opens a
`processing_jobs` row and enqueues `ingest_material_version_task`. The task downloads the
object and runs extract, preprocess, chunk, embed, persist and graph in one transaction.
Every three minutes the reaper looks for job rows older than two minutes that no ARQ job
backs, enqueues each up to three times, then fails it.

- State: `learning_material_versions`, `processing_jobs`, `material_chunks`, the
  `arq:job:*` keys.
- Operations: `init_upload`, `complete_upload`, `link_existing_material`,
  `reprocess_material`, `rollback_material_version`, `abort_multipart`; the task with its
  captured and uncaptured failures; the reaper's tick.
- Interaction: request -> Redis -> worker, all three write the same two rows; the reaper
  reads Redis, then the rows, and writes both.
- Hard: the request enqueues before its router commits; a version can have several open
  rows and several tasks; a captured failure commits half of what a stage did; the reaper
  acts on rows it read earlier; workers die at any step and Redis forgets.
- Correct when: a ready version has its chunks; every row is settled, once; the reaper
  reopens nothing and stays within its budget; recovery ends; no version stays pending.

### Quiz and interview generation runs (`quizzes`, `interviews`, the other two halves of the reaper) - modelled

A teacher asks for questions: `start_generation_run` looks for a run in flight, commits a
`generation_runs` row and then enqueues its job. The worker takes the run (the interview's
with a conditional `UPDATE`, the quiz's without looking), calls models for minutes, and
appends, replaces or regenerates questions. The reaper enqueues runs without a live job
again, within a budget kept in the run's `config_json`.

- State: `generation_runs`, the review status of questions, the status of the quiz or
  interview, ARQ jobs.
- Operations: request, dispatch and its failures, the worker with progress reports,
  cancellation, retry and failure, the reaper's tick; approval, deletion, publication,
  archiving and reopening meanwhile (**quiz lifecycle**, **interview authoring**: modelled in
  part).
- Hard: check-then-insert; a job is enqueued after the commit and may exist although the
  call raised; jobs are delivered again; the status of the quiz is looked at minutes before
  its questions are replaced; the reaper's budget shares a column with progress reports.
- Correct when: an interview has one run in flight with a final outcome; its questions are
  added once; what students are served does not change under them; the budget holds; every
  run ends.

### Quiz attempts, marking and gradebook (`quizzes`) - modelled in part

`start_attempt` locks the quiz row and counts attempts; `answer_attempt` saves one answer
and grades it; `submit_attempt` and the minute cron `sweep_overdue` close the attempt
(submitted, or expired under `autoabandon`); `grade_answer_manually` marks open and code
answers; `recompute_final_grade` reduces the attempts to the gradebook row by `highest`,
`first`, `last` or `average`.

- State: `quiz_attempts`, `quiz_attempt_answers`, `quiz_grades`.
- Hard: no row is read `FOR UPDATE` except the quiz; each handler decides on what it
  loaded; unique indexes turn a lost race into a conflict; `autoflush=False` makes the
  order of flushes and queries matter inside one transaction.
- Correct when: concurrent starts respect the limit; an overdue attempt is closed without
  its student; a closed attempt has its score once everything is marked, and the score is
  the sum of its answers; the gradebook is what the attempts reduce to.

**Overdue sweep batch** (`quizzes/services/sweep.py`) - modelled. The same cron across
students takes the 500 oldest attempts in progress, in one transaction. Correct when every
overdue attempt is closed in the end, whichever batches fail.

### Interview session lifecycle (`interviews`) - modelled in part

`start_session` resolves an idempotency key, returns the session in progress or makes a new
one within the retake policy. `onboarding.respond` takes it through five stages to
`completed`. `take_session_step` binds a turn to the current question, versions the runtime
row, records the answer under its key and asks a follow-up or attaches the next question.
The student, the deadline sweep or the agent ends it.

- State: `interview_sessions`, `interview_session_questions`, `interview_session_messages`,
  `interview_runtime_states`; in the browser: the page a tab shows and the key it waits for.
- Interaction: two requests share rows and are kept apart by the unique indexes on
  (config, student, attempt number), start key, (session, turn key), (session, sequence
  number), ceremony message, and by the version of the runtime row.
- Hard: requests are sent again while the first copy runs; answers are lost; what a request
  checked is old when it writes; errors are answered by sending again.
- Correct when: a student has one session in progress; no question is skipped or asked
  twice; the setup never goes back.

### Interview realtime agent and typed-turn receipts (`interviews/realtime`) - modelled in part

In the room, a typed answer arrives as a text stream. The agent stores a receipt
(`received`), takes the processing token, folds the answer into its state, saves the row
with a version check, and settles the receipt (`applied` or `failed`). A worker re-analyses
each answer later and writes the same row. The client resends whatever has no confirmation.

- State: receipts, `interview_runtime_states`, the process's ledger, mutex and state object,
  the finish.
- Hard: duplicates to the same process and to a new one; three transactions per answer; a
  lease that lapses under its holder; a second writer of the row; a process that dies between
  any two steps; a finish that drains the callbacks.
- Correct when: an applied answer is in the stored state; one callback at a time folds an
  answer; it counts once; a re-analysis is kept; the transcript is closed by the submit;
  no answer waits for ever.

### Interview recording and egress (`interviews/services/recording.py`) - modelled in part

With the candidate's consent a row is claimed; a token request starts an egress job at
LiveKit and stamps its id; the paths that end a session stop it; webhooks and a cron attach
the output, or charge and fail the row; retention deletes the audio and then leaves a
tombstone.

- State: consent, `interview_recordings`, `storage_objects`, the session's pointer, the
  provider's jobs, the bucket.
- Hard: the provider's callbacks come late, twice or never; two requests start a job; the
  cron and a webhook attach the same output; a deletion and its commit are two steps.
- Correct when: nothing is recorded without consent; the session offers complete audio only;
  a settled row stays settled; every recording settles.

### Interview evaluation and its recovery (`interviews`) - modelled in part

Finishing a session (submit, deadline, abandon) dispatches
`evaluate_interview_session_task`, which claims the session under a 30-minute lease, reads
the answers, calls the judge for minutes and publishes the verdict if it still holds the
claim. Every five minutes a sweep re-drives sessions without a verdict, or whose verdict
predates an answer, within a budget of three recovery attempts kept in the session row.

- State: `interview_sessions` (status, verdict, claim, `summary_json.evaluation_recovery`),
  turn receipts, ARQ's jobs, kept results and tries.
- Hard: the first dispatch, its retries and recovery jobs may run at once; a lease may
  lapse under a running judge; the record is moved by compare-and-set in some places and
  overwritten wholesale in others; attempts are charged before the job exists and
  refunded when Redis refuses; receipts are applied after the end.
- Correct when: one execution judges at a time; a published verdict is neither judged
  again nor relabelled; the budget is spent on jobs only, and is a budget; every finished
  session gets a verdict or exhausts it.

### Course completion, career paths, progress (`enrollments`, `career_paths`, `progress`) - modelled in part

A lesson, a grade or a verdict calls `sync_course_completion` in its own transaction: it
tallies the units, promotes or demotes the enrollment, grants the award once, latches
complete stages and completes the path. At 02:00 a cron resyncs drifted pairs, at 02:30
another evaluates every active path.

- State: units done, `course_enrollments.status`, awards, stage latches, the path's status.
- Hard: two tallies miss each other's last unit; two promotions insert one award; two
  courses complete one stage at once; errors are swallowed so that the grade survives.
- Correct when: the award's index never rolls back a grade; whatever was missed is repaired.

### Learning programs (`learning_programs`) - modelled in part

Managers enroll and withdraw students, who select career paths and ask to change or drop
them; managers decide. Access to a path is shared by the programs that run it.

- State: `program_enrollments`, `program_path_attempts`, `path_change_requests`,
  `student_career_enrollments`.
- Hard: a decision comes long after its request; a withdrawal reads without the lock every
  other operation takes; two programs share one path's access row.
- Correct when: an active enrollment runs a path; a withdrawn one runs none; the student
  has access to every path attempted.

### Components without a module

| Component | State and operations | Why not |
| --- | --- | --- |
| Quiz question banks and imports | rows created and parsed under advisory locks | little state beyond unique constraints |
| Quiz regrade | runs, proposed points; dry run, commit | the questions of a published quiz are frozen (`quizzes/services/authoring.py:258`), so a regrade finds no changed key |
| Session owner, integrity events | Redis owner, `integrity_score` | planned as guards of `QuizAttempt` |
| Quiz reports, statistics, review views | reads | no state |
| Spoken turns, the adaptive path | runtime state, audio | as typed turns; the decisions are model calls |
| Spaced repetition | cards; review, remediation, due scan | SM-2 arithmetic with jitter; planned |
| Cache (`core/cache`) | Redis keys; read-through, invalidation after the flush | planned last |
| Notifications and email | inserts, best-effort enqueue after the commit | nothing re-sends |
| Identity, sessions, MFA; access control, organizations | rows of one request | left out on purpose |
| Courses, syllabus import, materials reads, policies, discussions, admin | rows of one request | no protocol between processes |
| AI pipelines | model calls, text, graph | outcome is a choice |
| Infrastructure, schema | adapters | assumptions below |

## Modules

| Module | Models | Code |
| --- | --- | --- |
| `JobLedger` | What `processing_jobs` promises, whoever writes it (abstract). | `ai/models.py` |
| `MaterialIngest` | Requests, ARQ queue, ingest workers and the reaper over the committed tables. | `materials/services/authoring`, `materials/workers`, `materials/ingestion/pipeline.py` |
| `GenerationRuns` | One quiz or interview: requests, jobs, workers, reaper, publication. | `{quizzes,interviews}/services/generation*.py`, `interviews/ai/pipelines`, `materials/workers/reaper.py` |
| `AttemptLedger` | What a quiz promises of a student's attempts (abstract). | `quizzes/models.py` |
| `QuizAttempt` | One student at one quiz: requests, the sweep, graders. | `quizzes/services/{taking,sweep,manual_grading,gradebook,timing}.py`, `quizzes/queries` |
| `OverdueSweep` | The sweep's batch across students. | `quizzes/services/sweep.py`, `quizzes/workers/timing.py` |
| `InterviewSession` | One student's sessions of one interview over REST: tabs, starts, onboarding, turns. | `interviews/services/{taking,onboarding,retake,session_entry,ceremony}.py`, `interviews/orchestrator/repository.py` |
| `InterviewTurns` | Typed answers of one session with the realtime agent. | `interviews/realtime/native_*.py`, `interviews/services/turn_reconciliation.py` |
| `InterviewRecording` | The recording of one session. | `interviews/services/recording.py`, `interviews/queries/recordings.py` |
| `InterviewEvaluation` | One session: finishing requests, ARQ jobs, the recovery sweep. | `interviews/services/{taking,lifecycle,evaluation*}.py`, `interviews/workers/evaluation.py` |
| `CourseCompletion` | One student's courses, awards, stages and path. | `enrollments/services/completion.py`, `career_paths/services` |
| `LearningProgram` | One student's enrollments in programs and path attempts. | `learning_programs/services.py`, `career_paths/api/public.py` |
| `MCMaterialIngest`, `MCQuizAttempt` | A next-state relation without the actions an instance does not use. | |
| `MCIngestRecovery` | `MaterialIngest` in two halves: `faulty` and `sound`. | |
| `MCGenerationRuns`, `MCInterviewTurns` | Instances of one module. | |
| `FinishedInterview` | What follows the end of a session: `InterviewRecording` or `InterviewEvaluation`. | |
| `LearnerWork` | `InterviewSession`, `InterviewEvaluation` or `QuizAttempt`. | |
| `LearnerRecords` | `LearningProgram`, `CourseCompletion` or `OverdueSweep`. | |
| `MCLearnerWork`, `MCLearnerRecords` | Their instances: symmetry, and which unit and stage belong to which course and path. | |
| `...Proofs` | Inductive invariants, lemmas and theorems. | |

`FinishedInterview`, `LearnerWork` and `LearnerRecords` put several components side by side:
a variable `part`, chosen once, says which of them a behaviour is, and the others keep their
initial values. They share no row, so nothing is lost by it, and the fairness of the two that
state any is that of each part. One run of TLC checks the parts together, and a theorem about the
composition follows from one about the part: `FinishedSpec`, `WorkSpec` and `RecordsSpec` imply
the specification of each, without fairness (`EvaluationPart`, `TakingPart`, `MarkingPart`,
`ProgramPart`, `CoursePart`, `BatchPart`).

### MaterialIngest and JobLedger

`version[v]` is the committed version row (status, `is_current`, whether chunks exist),
`job[j]` a `processing_jobs` row numbered in the order of `created_at` (`"inserting"` is
a flushed row no other transaction sees; `pending` and `running` are one status, since
`running` is never committed), `queued[v][t]` the number of ARQ jobs of a version that
wait for try `t`. `request`, `worker` and `reaper` are the open transactions: what they
loaded and where they are.

| Code | Actions |
| --- | --- |
| `init_upload` | `InitUpload` |
| `complete_upload`, `reprocess_material`, `link_existing_material`, `rollback_material_version`, `abort_multipart` | `CompleteBegin`, `ReprocessBegin`, `LinkBegin`, `RollbackBegin`, `AbortBegin`, then `Flush` (INSERT, locks, enqueue) and `Commit` (the router), or `RequestFail` between them |
| `ingest_material_version_task`, `run_material_ingest` | `WorkerStart`, `WorkerAttach` (`_ensure_processing_job`), `WorkerRun` (first flush), `WorkerPersist`, `WorkerCommit` or `WorkerFail` (`_capture_failure`), `WorkerFinish` |
| an exception outside the stages; death, timeout, shutdown; Redis losing keys | `WorkerAbandon`; `WorkerCrash`; `RedisLoss` |
| `reconcile_orphaned_ingests` | `ReaperScan` (cutoff, live set), `ReaperSelect`, `ReaperSkip`, `ReaperRequeue`, `ReaperExhaust`, `ReaperCommit`, `ReaperEnqueue`, `ReaperEnd`, `ReaperCrash` |

`JobLedger` has one action, `Write`: a commit opens or settles rows and re-enqueues at
most one. `MaterialIngest` implements it under
`row = LedgerRow(j)`, `requeues = job[j].retry` (`LedgerSpec`).

### GenerationRuns

`kind` is `"quiz"` or `"interview"`, chosen at first. `run[r]` is a row (`fresh`: within the
reaper's grace), `job[j]` an ARQ job with its task (`live`: Redis still has its key; `reaps`:
the budget in the `config_json` it loaded), `batch[b]` the review status of what one commit
added (0: what was there), `parent` the status of the quiz or interview. `history` holds what
no row remembers.

| Code | Actions |
| --- | --- |
| `start_generation_run` | `Ask` (the check), `Open` or `Refuse` (INSERT and commit), `Dispatch`, or `DispatchRaises` and `DispatchFails`; `RequestDies` |
| the authoring routes | `Approve`, `Delete`, `Publish`, `Archive`, `Reopen` |
| `run_quiz_generation`, `run_interview_generation` | `StartQuiz`, `StartInterview` (the claim), `CheckParent`, `Progress`, `Persist`, `Finish`, `Fail`, `Retry`; `Kill`, `Timeout` |
| ARQ's keys | `Lose` |
| `_run_reconcile_quiz`, `_run_reconcile_interview` | `Scan`, `Select`, `GiveUp`, `Requeue`, `ReapEnqueue`, `ReapEnqueueRaises`, `TickEnds`, `ReaperDies` |
| the clock | `Age` |

### QuizAttempt, AttemptLedger and OverdueSweep

`attempt[n]`, `answer[n][q]` and `grade` are the rows; `tx[p]` is the transaction of a
student's request, of the sweep or of a grader, with the rows as loaded (`loaded`, `row`,
`grade`) and as they will be flushed (`new`, `newRow`, `final`). `Updated` is the UPDATE
SQLAlchemy emits: the attributes that differ from the loaded ones, by primary key.
`AttemptLedger` has two actions, `Open(n)` and `Close(n)`, on a phase per attempt; `QuizAttempt`
implements it under `phase[n] = Phase(n)` (`AttemptsSpec`), where submitted, graded and expired are
closed and marks are stutters.

| Code | Actions |
| --- | --- |
| `start_attempt` | `StartGate` (lock and count), `StartInsert` or `StartRefused` |
| `answer_attempt` | `AnswerLoad`, `AnswerRead`, `AnswerSave` |
| `submit_attempt`; `sweep_overdue` | `SubmitLoad`; `SweepLoad`; then `CloseRead` (`_finalize_attempt`, `_expire_attempt`), `CloseUngraded` or `CloseFlush` and `Record` (`recompute_final_grade`) |
| `grade_answer_manually` | `MarkLoad`, `MarkFlush`, then as a close |
| the clock | `DeadlinePasses` |

A choice stands for an answer's content: right or wrong, one point or none, and whether
it has to be marked by hand. A score is the sum of the points over the served questions;
the constant divisor and the rounding of `score_percent` are left out.

`OverdueSweep` keeps a status per attempt and follows the batch: `SweepBegin` (the
oldest `BatchLimit` attempts in progress), `SweepSkip`, `SweepFinalize`, `SweepRecord`
(the grade row), `SweepConflict` (the unique index refuses the grade row; the session is
rolled back and the exception ends the batch), `SweepCommit`.

### InterviewSession

`session[n]` is the session with attempt number n and what is its own: the stage and the
ceremony messages of its onboarding, the questions asked in order, the places that have an
answer, the turn keys of user messages, follow-ups per question, and the runtime row's
version and last key. `start[s]` and `request[p]` are transactions; `tab[t]` is what a
browser tab shows and the key it waits for. A tab sends a request again with the same key
while it has no answer; each answer may be lost, and one that comes after the tab went on is
ignored.

| Code | Actions |
| --- | --- |
| the tab | `NewStart`, `SendStart`, `Send` |
| `start_session` | `StartKeyed`, `StartActive`, `StartGate` (`_enforce_retake_policy`), `StartNumber`, `StartInsert`, `StartCommit` |
| `onboarding.respond`, `ensure_ceremony_message` | `OnboardLoad`, `OnboardRecord` (the reply and what it decides), `OnboardLook`, `OnboardWrite`, `OnboardCommit` |
| `take_session_step` | `TurnLoad` (binding), `TurnState` (`load_or_init` and the replay), `TurnCreate` or `TurnSave` (`repository.save`; a stale version makes the stage fail), `TurnRecord`, `TurnFollowUp`, `TurnNext`, `TurnNumber`, `TurnAttach`, `TurnCommit` |
| a dropped connection, a dead process, the database | `StartFails`, `RequestFails` |
| `terminalize_in_progress_session` | `Finish` |

### InterviewTurns

`receipt[k]` is the row of a turn key with its processing token; `row` the runtime row (how
often each answer was folded, which were re-analysed, the last key); `ledger`, `mutex` and
`memory` belong to the agent's process and die with it; `memory.held` says what the writer's
version is relative to the row's, `torn` that a conflict left plain values in the state.

| Code | Actions |
| --- | --- |
| `_on_text_input`, `_duplicate_receipt_outcome` | `Arrive`, `Acquire`, `Lookup`, `Resume` |
| `persist_receipt`, `claim_received_receipt`, `reclaim_receipt_failed` | `Persist`, `PersistFails`, `Claim`, `Reclaim`, `Lapse` |
| `_process_answer_turn` | `Probe`, `Raised`, `SaveLoad`, `SaveFold`, `SaveCounters`, `SaveFails`, `SettleApplied`, `SettleFailed`, `SettleRaises` |
| `reconcile_turn_analysis_task` | `Analyse`, `Reconcile`, `ReconcileAgain` |
| `HardStopTimer`; a new room | `Close`, `Submit`; `Reopen` |
| the process | `Crash` |

### InterviewRecording

`row` is `interview_recordings`, `object` and `pointer` the storage row and the session's
reference to it, `egress[e]` a job of the provider, `bytes` the audio, `tx[p]` a request, a
callback or the cron.

| Code | Actions |
| --- | --- |
| consent endpoint | `Accept` |
| `realtime_token`, `start_recording_for_session` | `Mint`, `Claim`, `StartEgress`, `StartRaises`, `StartFailed`, `Attach` |
| the finish and `stop_recording_for_session` | `Finish`, `StopLoad`, `StopCall`, `StopCancels` |
| LiveKit | `EgressEnds`, `EgressForgotten` |
| webhook | `Callback`, `WriteOutput`, `WriteNoOutput` |
| reconcile cron | `ReconcileLoad`, `ReconcileUnknown`, `ReconcileKnown` |
| retention cron | `RetentionPasses`, `ExpireLoad`, `DeleteBytes`, `Expire` |
| a process | `Dies` |

### InterviewEvaluation

`session` is the row with its recovery record (`attempts`, `current` = job and phase);
`verdict` is `none`, `given` or `retired`; `claim` is the job holding the lease, or
`Orphan` when its execution died. `late` are the receipts newer than `evaluated_at`,
`graded` those the published verdict was judged on. `arq`, `tries` and `run` are ARQ's
state, `job_try` and the execution of each job id (0 for the session's own id, n for
`recover-n`). `accepted` is a history variable: the job ids ARQ ever took.

| Code | Actions |
| --- | --- |
| `mark_receipt_applied` | `ApplyReceipt` |
| `terminalize_in_progress_session`, `finalize_expired_in_progress_session` | `Finish` |
| `submit_session` of a terminal row | `Refinish` |
| `dispatch_evaluation_or_record_missing`, the deadline sweep's dispatch | `DispatchJob`, `DispatchFails`, `DispatchLost`, `RecordMissing`, `StampRedriven` |
| `evaluate_interview_session_task` | `Pick`, `PickRefused`, `Load`, `Claim`, `Judge`, `Publish`, `Fail`, `Settle`; `Killed`, `Cancelled`, `TimedOut` |
| lease and kept result | `LeaseLapses`, `ResultExpires` |
| `recover_stalled_evaluations` | `Select`, `Retire`, `Charge`, `EnqueueJob`, `EnqueueFails`, `MarkQueued`, `Refund`, `SweepCrashes` |

### CourseCompletion

`done`, `enrollment`, `award`, `latch` and `career` are committed; `tx[t]` is what a
transaction (a request or job of the student, the drift sweep, the readiness snapshot) has
read and written. A transaction sees committed rows and its own.

| Code | Actions |
| --- | --- |
| lessons, grades; verdicts; curriculum; enrolling | `Do`, `Undo`; `Verdict`; `Curriculum`; `Manage` |
| `sync_course_completion` | `Load`, `Tally`, `Promote` or `Demote` |
| `ensure_completion_award` | `LookForAward`, `InsertAward` |
| `sync_paths_after_course_completion`, `latch_completed_stages` | `Evaluate`, `Latch`, `Prepare`, `Commit` |
| 02:00 and 02:30 | `SweepBegin`, `SnapshotBegin` |
| a swallowed exception, a dead process | `SyncRaises`, `Dies` |

### LearningProgram

`enrolled`, `attempt`, `request`, `access` are the rows by program and path. A request that
holds its enrollment's lock to the end is one step; a withdrawal, which holds none, is three.
`raced` remembers programs in which a path was started between them.

| Code | Actions |
| --- | --- |
| `enroll_students`, `_activate_default_path` | `Enroll` |
| `withdraw_student` | `Withdraw`, `WithdrawLists`, `Withdrawn` |
| `select_path` | `SelectPath` |
| `request_path_change`, `request_path_drop`, `cancel_change_request` | `RequestChange`, `RequestDrop`, `Close` |
| `decide_change_request` | `ApproveChange`, `ApproveDrop`, `Close` |
| completion of a path | `Finish`, `Complete` |

## Conventions

- A step of a model is what happens between two points where another process can act: a
  statement that reads, a flush that takes locks, a commit, a call to Redis, an await.
- A transaction reads committed rows, keeps each row it loaded in its identity map, and
  flushes only attributes it changed. A flushed row is locked until commit: a flush that
  needs the lock waits (the action is disabled), it never fails; an insert that meets an
  equal unique key waits for it, and fails if it was committed.
- Names follow the code. Definitions commented `Mutant` are not part of a specification:
  each is a plausible bug of the definition below it which a run's property was shown to fail.
- Bounds are constants named `Max...`; they occur only in guards and in index sets.


## Runs

Twelve runs: nine must pass, three must find a violation
([below](#disagreements-with-the-repositorys-own-words)).

| Run | Instance | Distinct states | Shows |
| --- | --- | --- | --- |
| `ingest_interleavings` | 1 version, 2 requests (complete, reprocess), 2 workers, 3 requested rows of 4, 1 try, 1 re-enqueue, no faults, symmetry | 1.87 M | `ReadyIsSearchable`: a ready version has its chunks or an open row that will rebuild them; `LedgerSpec`: the implementation of `JobLedger`. |
| `ingest_recovery` | 1 version, 1 request, 1 worker, 5 rows, 2 tries, 1 re-enqueue. `faulty`: complete, link, abort, rollback, 1 requested row, 1 fault. `sound`: complete, reprocess, 2 requested rows, no fault | 91 k | `LedgerSettles`: every open row is settled; `RecoveryQuiesces`: the reaper and ARQ stop; `VersionsSettle`: while nothing fails, no current version stays pending, rows buried under a newer one included. |
| `generation_races` | 1 author, 2 runs, 2 jobs, 2 batches, 2 tries, 1 re-enqueue, 1 fault of 5 kinds; a quiz or an interview | 3.73 M | `OneActiveRun`: an interview has one run in flight; `OutcomeFinal`: a settled outcome of an interview's run stays; `ServedFrozen`: what students are served changes only under a quiz's task that was past its look at the quiz when it was published. |
| `generation_recovery` | 1 run, 2 jobs, 2 faults | 341 k | `PersistedOnce`: an interview's run adds its questions once; `WithinBudget`: the reaper's budget holds; `RunsSettle`: every run ends. |
| `quiz_closing` | 2 requests of the student, the sweep, limit 1, 2 questions, `average`, nobody marks | 42 k | `AttemptsWithinLimit`; `AttemptsSpec`: the implementation of `AttemptLedger`; `GradebookMatchesAttempts` whichever of submit and sweep commits last; `OverdueCloses` although answers keep arriving. |
| `learner_work`: taking | 1 tab that resends, 2 starts and 2 requests at once, 3 questions, last stage 2, 2 sessions, 1 follow-up, 5 keys, 1 failure | 476 k with the two below | `OneLive`: one session in progress; `NoQuestionSkipped`; `OnboardingForward`. |
| `learner_work`: judging | 1 finisher, 2 sweeps, 1 receipt, 1 recovery attempt, 1 fault of 8 kinds, a lease that may lapse under a running job | | `VerdictStands`: a verdict is neither judged again nor relabelled. |
| `learner_work`: marking | 1 request, 1 grader, the sweep with `autoabandon`, limit 1, an open, a code and a closed question, `last` | | `ScoredOnceMarked`, `ScoreMatchesAnswers`, marks and re-marks included. |
| `typed_turns` | 2 answers, 2 callbacks, 2 save attempts, 2 folds, the worker's re-analysis, 1 crash or database error | 1.52 M | `AppliedIsFolded`, `OneFolder`, `GradedOnce`, `AnalysisKept`, `TranscriptClosed`, `ReceivedSettles`. |
| `finished_interview`: recording | 2 token requests, 1 finish, 1 webhook, 2 provider jobs, 2 reconciliations, 1 fault of 7 kinds | 418 k with the one below | `PlaybackSound`: what the session offers is a complete row's audio; `RecordingFinal`: what is settled stays; `RecordingSettles`. |
| `finished_interview`: evaluation | 1 finisher, 1 sweep, 1 receipt, 3 faults of provider, lost dispatch, Redis outage, 2 tries, 2 recovery attempts, a lease that outlives a job | | `OneGrader`; `BudgetSpentOnJobs`, which includes the ceiling; `Settles`: every finished session gets a verdict or exhausts its budget. |
| `learner_records`: programs | 2 programs, 2 paths, 1 withdrawal, cap 2, 1 switch | 270 k with the two below | `ActiveHasPath`, `WithdrawnRunsNothing`, `AccessHeld`. |
| `learner_records`: completion | 3 units, 2 courses, 1 stage, 2 requests, 2 events | | `AwardNeverRefused`: no promotion is rolled back by the award's index; `DriftRepaired`; `StagesSettle`. |
| `learner_records`: sweep | 3 attempts, batches of 3 | | `OverdueCloses` although batches fail. |
| `evaluation_stuck`, `recording_unconsented`, `session_two_tabs` | the smallest instances that meet the case | violated | `Settles`; `ConsentedOnly`; `NoQuestionSkipped`. |

Why the bounds are enough.

- *Ingest*: every conflict is on one version (versions share no row, so one is enough) and
  between two transactions of one kind; two requests and two workers give two open rows, a
  task attached to each or both to one, a reprocess between, and the reaper's own re-enqueue
  as a third job. Four rows are the three that requests open and one that a task opens for
  itself. One re-enqueue reaches both sides of the budget. The liveness run keeps one request
  and one worker, because a second one adds work and not a new way to wait; `MaxJobs` leaves
  room for every row the requests, re-enqueues and retries can open (deadlock is checked in
  both runs: the bound is never what stops them).
- *Generation*: two runs give one that was settled and one in flight, two jobs the first
  delivery and the reaper's, two batches a replacement of what was there and of what a run
  added. Two authoring requests at once are beyond this instance;
  `OneActiveRunInvariant` covers any number of them. Two faults and one re-enqueue reach a
  lost job, its recovery and the end of the budget.
- *Quiz*: two requests give every pair of start, save and submit; the limit is 1 so that the
  second start is the illegal one. For marking, one attempt is enough, since a mark touches the
  rows of its attempt; three questions are one of each kind, so that a score sums points and two
  marks. *Sweep*: three attempts are one before, one failing and one after.
- *Sessions*: one tab with two requests in flight is every resend racing its first copy; three
  questions are one before, the current and one a step too far; two sessions are one ended
  and the one in progress. Five keys are a start, two stages and two turns. A second tab is
  what `session_two_tabs` adds.
- *Turns*: two callbacks are the delivery and its duplicate, or two answers; two answers are
  one held by a callback while another is saved; two folds let a mistake count twice.
- *Evaluation*: two sweeps overlap on one session; one recovery attempt suffices for two jobs
  to run at once, and two for the budget to be charged, refunded and charged again; the job
  ids leave room for one past the ceiling.
- *Recording*: two token requests start two provider jobs for one row; two reconciliations are
  one short of, and at, the budget.
- *Records*: two courses of one stage are needed for the latch each leaves to the other, and a
  third unit for a tally that is neither empty nor full; two programs sharing a path are what
  makes one's withdrawal matter to the other's access.

`CHECK_DEADLOCK FALSE` is set where the system stops for good: attempts used up, a session,
run or recording settled, no path left to choose.

Each property was shown to fail under a mutant of the code, in the run that checks it. Some of
them: the reaper reopens a row, or forgets its count; the claim of an interview's run is
unconditional; the quiz is not looked at again before its questions are replaced; the quiz row
is not locked; a flush comes after the read that needs it; the key of a start or of a turn is
not unique; ownership is not checked before the verdict is written; the lease is short; a failed
save of a fold is only logged; a live lease is taken over; the submit does not wait for the
callbacks; the award is inserted before the enrollment's update is flushed; a withdrawal cancels
one attempt; a saved answer writes back the status of the attempt it loaded; the playback pointer is set whether or not the row took the output.

## Fairness

- *Ingest*: weak fairness of each handler and each worker slot (a running process goes
  on, and PostgreSQL grants a lock that is free), of the reaper's steps (a cron every three
  minutes), strong fairness of `ReaperScan(j)` for each row: the clock in the end makes
  every row older than the cutoff at the start of some tick. No fairness for teachers or
  faults; faults are finitely many (`MaxFaults`). `MCIngestRecovery` assumes the same of each
  half.
- *Generation*: weak fairness of what a request goes on to do, of each job (an ARQ worker), of
  the reaper and of the clock that takes a row out of its grace. Nothing obliges a teacher to
  approve, publish or ask again.
- *Quiz*: strong fairness of what a running handler goes on to do, since another
  transaction may hold a row again and again and PostgreSQL queues its waiters in turn; weak
  fairness of `SweepLoad` (the minute cron). Students and graders owe nothing.
- *Sweep*: weak fairness of the sweep; students, teachers and clocks owe nothing.
- *Turns*: weak fairness of each callback: the event loop runs and every await ends. No client
  has to resend.
- *Evaluation*: weak fairness of a request's dispatch, of each job (an ARQ worker), of the
  lease's expiry and of each sweep (a cron every five minutes). Nothing makes a student
  finish, answer, or submit again (`Refinish`).
- *Recording*: weak fairness of the two crons, and of `EgressEnds`: a provider's job ends at
  the latest with its room. Nothing obliges a callback to come.
- *Completion*: weak fairness of a running transaction and of the two nightly crons.
- `InterviewSession` and `LearningProgram` state safety only and assume none.

## Proofs

All proofs are checked by TLAPS with SMT, Zenon and PTL. The only assumptions are the
modules' `ConstantsAssumption` (bounds are naturals, sets of processes are disjoint, questions
are finitely many), which TLC evaluates on every run, and the hypotheses named below, which a
theorem states itself; `InterviewRecording`, `LearningProgram` and `OverdueSweep` need none. A
composition states the assumptions of its parts again, since `INSTANCE` does not bring them. An
invariant stated here was first checked by TLC on the instance of its run. Every invariant and
every action property of the passing runs, and both refinements, is stated by a theorem.

A theorem of one proof module is used in another through an instance of it (`EP`, `QP`). The
instance's definitions are the component's own only after they are expanded, which the lemmas
`SameEvaluation` and `SameMarking` do; `EvaluationConstants` and `MarkingConstants` discharge its
assumptions.

**`MaterialIngestProofs`** (1331 obligations). `TypeCorrect`: `Spec => []TypeOK`, which
includes `retry <= MaxRequeue`. `Refinement`: `Spec => LedgerSpec`.
`ReadyIsSearchableInvariant`. The inductive invariant is
`IInv == TypeOK /\ RowsOwned /\ ReaperSees`. Types alone are not inductive:
the reaper's commit increments the count of a row whose count it tested two steps
before, so `ReaperSees` records that the row it is committing still has budget - true
because only the reaper increments it, and there is one. Rolling back a request or a
task removes a row; the ledger would see a settled row vanish if another process had
attached to it. `RowsOwned` says that an uncommitted row belongs to one transaction, that
a row two tasks share is committed, and that what a task refers to exists. One frame lemma
per variable (`JobFrame`, ...) says which actions write it; the step is one case per
action that does. That a ready version can be searched is `Searchable`, whose difficulty is the
reaper: it assigns `failed` to the version of a row it gives up, but the UPDATE writes nothing if
the copy it loaded says `failed` already. `Rebuilt(v)` therefore says that a ready version without
chunks has an open row that the tick leaves alone, or a tick that has not loaded the version, or
one that loaded it as ready, so that what it assigns is written (`TickLoads`).

**`GenerationRunsProofs`** (1762 obligations). `TypesInvariant`; `OneActiveRunInvariant`:
`Spec => []OneActiveRun`; `ServedFrozenAlways`: `Spec => ServedFrozen`; `PersistedOnceInvariant`;
`WithinBudgetInvariant`; `OutcomeFinalAlways`. The invariant is
`IInv == TypeOK /\ Named`: a task's, a request's or the reaper's run is one that was
committed, so no write of theirs creates a row. One active run then follows step by step from
the unique partial index: an insert meets it, and so do a worker's return to `pending` and the
reaper's, when Redis lost a job and a run that was settled is written again. `ServedFrozen`
needs that interviews only append and that a quiz's task which generates while the quiz is
published looked at it before (`Ahead`). The last three hold while Redis loses no job, and need
`InOrder == OneCarrier /\ TickAlone /\ Charged /\ Claimed`. `OneCarrier`: one job of ARQ
carries a run, or one request that is about to dispatch it. `TickAlone`: the
reaper holds a run only after it saw that nothing carries it. `Charged`: what the reaper enqueued
is counted in the row, whatever a task wrote into the same column. `Claimed`: a task works on an
interview's run only while the run is `running`, and only a completed run has questions. A lost job
breaks this: the reaper takes up a run that an old task still writes to.

**`QuizAttemptProofs`** (1737 obligations). `WithinLimit`: `Spec => []AttemptsWithinLimit`.
`AttemptsRefinement`: `Spec => AttemptsSpec`.
The number of attempts is counted by one step and inserted by the next, so the invariant
has `Gate`: at most one process holds the quiz row, and what it counted still holds while
it does. `Numbered` turns the set of attempts into an interval so that cardinalities are
arithmetic. "At most one active" needs `Closers`: a close or a mark never puts an attempt
back in progress, though it writes a status loaded earlier; with `FlushedPhase`, what a flush may do
to a status, it also gives the refinement: a close is `Close(n)`, or a stutter when somebody closed
the attempt first. The shapes of rows and
transactions (`AttemptShape`, `TxShape`) are parts of the invariant; `RowsInvariant` says what
the rows hold, a score being the sum of some sheet of answers.
`ScoreMatchesAnswersInvariant` and `ScoredOnceMarkedInvariant` follow from `ScoredExactly`, with the
invariant `Work`: what each transaction carries, `Taken`, `Abandoned` or `Marked`, against the rows
it will write. They assume `OneAtATime`: one request of the student and one of a teacher at a time,
and a sweep that abandons if there is one. Without it they are false, as the
[observations](#observations) say: a save may commit after the attempt was scored, and two graders
each see the other's answer as pending. That a sum of points is a number is an
induction over the questions; the induction theorems of the library take an operator, so
`SumIsNatural` unfolds the fold and reasons on a least set of exceptions (`LeastSet`,
`SetInduction`), which the well-foundedness of finite sets gives.
`GradebookMatchesAttemptsInvariant` assumes `OnlyClosed`: one attempt, which is submitted
or swept and not marked, as in `quiz_closing`. `Recorded` says that of all who close it the row
lock leaves one between its flush and its commit, and that its grade is that of the attempts.

**`InterviewTurnsProofs`** (1368 obligations). `TypesInvariant`; `OneFolderInvariant`;
`AppliedIsFoldedInvariant`; `TranscriptClosedAlways`; `GradedOnceInvariant`; `AnalysisKeptAlways`.
The invariant is `IInv == TypeOK /\ Holds /\ Ahead /\ AppliedIsFolded`. `Holds`: a callback between
its claim and its settlement owns the receipt's token, and a token is that of a live lease on a
received receipt - which makes two folders of one answer impossible even where the mutex is not
held. `Ahead`: the process has folded whatever the row has, so that no save of its own takes an
answer away, and a callback about to settle has its answer in the row already. The transcript needs
`Drained` in addition: the callbacks a submit leaves behind have stored their answers. The last two
theorems need `Settled`, which says more the less has gone wrong: always, who owns what a callback
saves (`Owned`, `OneSaver`); without failed calls, that the process's version is the row's or the
next save is refused (`Synced`), which keeps what a re-analysis stored; with one crash besides, at
most one fold (`Once`); and before any crash, that a stored fold of an answer not yet applied is the
row's last (`Uncrashed`), which is what makes the retry after the crash recognise it.

**`InterviewRecordingProofs`** (976 obligations). `TypesInvariant`;
`PlaybackSoundInvariant`; `RecordingFinalAlways`. The invariant is
`IInv == TypeOK /\ PlaybackSound /\ Uploaded /\ Deleting /\ Quiet`. Whoever found the audio
writes the row later, so `Uploaded` says it is still there then; `Deleting` that the retention
cron deletes the bytes of a complete row past its time only; `Quiet` that no job runs, and none
is about to start, once retention has passed. The module extends `FinishedInterview`, and proves
for that composition what its run checks: `FinishedRecording`, and, from the theorems of
`InterviewEvaluationProofs` and under their hypotheses, `OneGraderInvariant` and
`BudgetSpentOnJobsInvariant`. The run's instance satisfies the hypotheses.

**`InterviewEvaluationProofs`** (1165 obligations). `TypesInvariant`: `Spec => []TypeOK`.
`VerdictStandsAlways`: `Spec => VerdictStands`, whether or not a lease outlives a job.
`OneGraderInvariant`: `Spec => []OneGrader`, assuming `LeaseOutlivesJob`, that is
`EVALUATION_LEASE_SECONDS` (1800) above the worker's `job_timeout` (1200). The inductive
invariant is `IInv == TypeOK /\ Executing /\ Owned`. `Owned`: a claim held by a job is
that of a running grader of an ungraded session, and a grader has its claim until its
lease may lapse. So a session with a verdict has no owner, and neither `Publish` nor a
failure writes over it; with a long lease every grader owns the one claim. `Executing`
(a job that executes is the one ARQ runs) is what keeps a second `Pick` from replacing an
execution that holds the claim. The recovery budget has two theorems. `ChargesAreJobs`, for any
number of overlapping sweeps: an attempt charged in the row is a job ARQ took or the one being
dispatched (`Backed`), and so it is in every copy of the summary that an execution has loaded and
may write back. It assumes that no dispatch of a request fails, since that writes `pending` over
the record. `BudgetSpentOnJobsInvariant` assumes in addition that runs of the sweep do not overlap
and that none dies between the charge and the enqueue: `Alone` then says what the one sweep in
flight has charged. Two overlapping sweeps can exceed the ceiling, and a sweep that dies leaves a charge
without a job, both of which the observations record.

**`LearnerWorkProofs`** (1831 obligations). `OneLiveInvariant`, `NoQuestionSkippedInvariant` and
`OnboardingForwardAlways` are about the sessions one tab takes (`OneTab`), however many copies of
a start and of a turn are on their way, for any number of questions, stages, retakes, keys and
failed requests. With two tabs the second is false, which is what `session_two_tabs` shows, and the
others are too (see [Observations](#observations)). The invariant is `TakingInv == TakingTypes /\
SessionOnce /\ KeysKnown /\ OneStarts /\ OneTurn /\ Taking!NoQuestionSkipped`. `SessionOnce`:
a session is what one key made, so the unique index on the key refuses the second copy of a
start. That does not refuse a copy that arrives when its session has ended; `OneStarts`
says why it makes none: the tab gives a start up when it has an answer, and the copies it leaves
behind are of a key that has made a session, or find the retakes used up. `OneTurn` says the
same of turns: a request is a copy of what its tab waits for, or its message is posted already, or
its session has ended (`OnItsWay`); of those that have read the session and not posted, all carry
one key and were shown the place the session is at; and one of them at most has its message
flushed. So whoever moves the session on answers the question it was shown, and what it attaches
next has not been asked (`Carries`). `ScoreMatchesAnswersInvariant` and `ScoredOnceMarkedInvariant`
carry the theorems of `QuizAttemptProofs` over to the composition, under `OneAtATime`.

**`LearnerRecordsProofs`** (807 obligations), one part after the other.
*Programs.* `ProgramInvariant`: `Spec => []IInv` with `IInv == Rows /\ Unique /\ Locks /\
ActiveHasPath /\ WithdrawnRunsNothing /\ AccessHeld`, and from it the three last conjuncts as
theorems of their own. `Unique`: no path runs in two programs,
which the partial index `uq_program_path_attempts_active_student_path` gives; without it one
program's completion could take another's path.
`Locks`: what a withdrawal has locked is still running, and what runs unlocked was started
behind its back. `TypesInvariant` assumes that the limit of switches is a number.
*Completion.* `CourseTypes`; `AwardNeverRefusedInvariant`: `RecordsSpec => []AwardNeverRefused`,
assuming that every unit has a course. The `SELECT` before the
insert keeps nobody out, since it does not see what others inserted; `CourseInv == CourseRows /\
Transactions /\ AwardNeverRefused` says what does: whoever is to insert an award, or inserted
one and has not committed, holds that course's enrollment (`Sane`), and no two transactions
hold one together (`Apart`). So the awards of a commit are of courses nobody else is awarding.
*Sweep.* `BatchSound`, of which no run states a part: for any number of attempts and size of
batch, the sweep closes only what is overdue, commits no first grade that somebody else has
inserted, and every submitted attempt has its grade. `BatchInv == BatchRows /\ BatchTaken /\
BatchAlone` says that what the batch has closed was overdue when it began, and that of the grades
it is to insert nobody else has inserted any but that of the attempt in hand, whose conflict is
still to come. That the batch comes to close what is overdue (`OverdueCloses`) is liveness.

Types are proved for all constants and not repeated in a run.

Model-checked only: liveness, which is out of the prover's reach (as is `ENABLED`):
`LedgerSettles`, `RecoveryQuiesces`, `VersionsSettle`, `RunsSettle`, `OverdueCloses`,
`ReceivedSettles`, `RecordingSettles`, `Settles`, `DriftRepaired`, `StagesSettle`.

## Disagreements with the repository's own words

| Run | Property | What TLC shows |
| --- | --- | --- |
| `evaluation_stuck` | `Settles` | A recovery job cancelled by `job_timeout` leaves its phase `running`; the candidate query skips active phases (`queries/sessions.py:539`), so the reconciliation that would move it never sees it. `interviews/workers/evaluation.py:222` says the sweep reconciles it. |
| `recording_unconsented` | `ConsentedOnly` | `realtime_token` starts the recording with `consented=True` for every candidate (`interviews/routers/learner_sessions.py:293`), and the claim inserts the row a declined consent did not. `recording.py:16` says "No consent, no recording", `learner_sessions.py:282` that the row comes from the consent endpoint, `docs/interview-audio-recording.md:49` that a declined consent starts no job. |
| `session_two_tabs` | `NoQuestionSkipped` | A turn is bound to the current question by a plain read and the runtime row is read in a later statement (`taking.py:414`): a second tab's answer recorded in between moves the session on once more and a question is never answered. `taking.py:343` says tab B's submit must not skip a question. |

The instances are those of the passing runs with one thing changed: timeouts among the faults;
a property that asks whether the candidate accepted; a second tab.

## Observations

Met while modelling; the models allow them, and no property above excludes them, unless the
property names the exception.

*Ingest.*

- The reaper demotes a version that is ready: a second row of the version, opened because
  the enqueue precedes the commit or by a second `complete_upload`, stays open after the
  first made it ready; its re-enqueue sets the version back to `pending`
  (`materials/workers/reaper.py:205`). A later task makes it ready again, or the budget
  ends in `failed`.
- Two tasks that share a row each write their own outcome; the row settled by the first is
  rewritten by the second (`pipeline.py:225`). The ledger counts both as settled.
- A re-enqueue whose ARQ call fails has already committed `pending`; if a worker settled the
  row meanwhile no later tick sees it (`reaper.py:269`).

*Generation.*

- A publication during a quiz's run is not seen by a task past its look at the quiz: it replaces
  the questions students are being served, and may leave a published quiz without an approved
  one (`quizzes/services/generation_runs.py:138`). This is `ServedFrozen`'s exception.
- The quiz worker does not look at the status of its run (`generation.py:323`): a job delivered
  again generates again. Regeneration of a question deleted meanwhile raises before the `try`;
  the run waits for the reaper to give up.
- If Redis lost jobs, a zombie task writes its outcome over the run's, and the budget can be
  written back from a stale copy of the column. `WithinBudget` and `OutcomeFinal` say so.

*Quiz.*

- Two graders who mark the last two answers at once each see the other's as pending; neither
  closes the attempt, although `manual_grading.py:81` says it is flipped once nothing needs
  grading. `ScoredOnceMarked` is checked with one grader for this reason.
- A mark has no upper bound (`manual_grading.py:106`), so `score_percent` can exceed 100 and the
  flush then fails on the column's CHECK.
- Attempts without a deadline are candidates of the sweep too; 500 old ones fill each batch,
  although `workers/arq_app.py:93` says a timed quiz closes even if its student never submits.
- One attempt's conflict aborts the sweep's whole batch, though `sweep.py` speaks of
  candidates handled independently (`sweep.py:90`); the next minute repairs it.
- Submit and an autoabandoning sweep that load the attempt together can leave it `expired`
  with a score (`taking.py:899`). Submit and a mark, or two marks on different attempts,
  that recompute the gradebook together can leave the older value (`gradebook.py:86`);
  `GradebookMatchesAttempts` is therefore checked with closers only.
- Two saves of one question mix their columns (`taking.py:668`), and a save may commit
  after the attempt was scored (`taking.py:597`): the marking half of `learner_work` has one
  session for this reason.

*Interview sessions.*

- Two tabs can have two live sessions: B reads that none is active, A commits, B numbers its own
  2. `taking.py:232` says one active session per configuration. A start that passed the retake
  gate before another session was made and ended can exceed `max_attempts`.
- Two tabs at the setup: an unconditional stage write (`onboarding.py:286`) moves a completed
  setup back (`tests/integration/test_interview_onboarding_race.py:4` asks that it does not).
- A resent turn which read its question before the first copy committed, and the runtime row
  after, is answered by `_replay_legacy_step` (`taking.py:1787`) with `is_finished: True` though
  questions remain. A hint that loses the version race is recorded, and graded, as an answer. A
  turn saved as a message only makes each resend fail for ever with a unique violation. A turn
  without a key that is resent after a follow-up counts as new.
- The loser of a start key or of the first runtime row gets a 500. A step past the status check
  commits its answer after the end. On the adaptive path a duplicate is not replayed.

*Typed turns.*

- Three transactions make one answer: two crashes, or one and a failed save, fold it twice, though
  `native_typed_turn.py:21` says "never a second fold" and `native_text_input.py:402` "never
  graded twice". `GradedOnce` has these as its premise.
- A save that lost to another writer sets plain dictionaries into the state; the next save raises
  `AttributeError` for ever in that process, contrary to
  `tests/unit/test_interview_state_writer_strict.py:6`. A non-strict save that is lost forgets
  the version, and the next one overwrites a re-analysis.
- A duplicate of a receipt that is `received` gets no acknowledgement. A retry of a failed one runs
  outside the mutex. A persist whose commit raised but was carried out is folded by nobody until
  the lease lapses.

*Recording.*

- A second token request whose start raises marks the row the first made active as failed
  (`recording.py:185`); a reconciliation that read the row before its id was stamped charges, or
  fails, an active one (`recording.py:366`); a stop that read `pending` cancels a row made active
  meanwhile (`recording.py:258`).
- A finish while a token request holds its uncommitted insert sees no row, and the empty room is
  recorded after the end (`recording.py:224`). A failed stop is never repeated, although
  `_recording_egress.py:112` says reconciliation retries it.
- A conflict of webhook and cron on the storage object aborts the cron's whole transaction. The
  row of a candidate long in the setup is charged and failed before the room opens. Two jobs share
  one key.

*Evaluation.*

- An answer applied while the judge runs is older than `evaluated_at`
  (`evaluation_persistence.py:308`), and the verdict without it is not recoverable, although
  `queries/sessions.py:513` says that a verdict which predates an applied receipt is.
- A publication writes the whole summary back as loaded (`evaluation_persistence.py:298`),
  which undoes a refund or a newer charge; the charge does not look at the ceiling again
  (`queries/evaluation_recovery.py:128`), so overlapping sweeps can exceed it. Hence one
  sweep and no killed jobs in `finished_interview`.

*Completion and programs.*

- A resync may revive a dropped enrollment (`completion.py:120`). Two courses of a stage that are
  finished at once are latched by the nightly snapshot only. The SQL that lists drifted pairs
  claims to match `completion_units` exactly, but lacks the module's status, pending grading and
  overrides. A manager's `completed` gets no award.
- A withdrawal overwrites `completed`, and a path started while it has listed the attempts stays in
  the withdrawn enrollment and blocks the next. A second withdrawal during a re-enrollment leaves
  an active enrollment without a path, which the comment of `_approve_path_drop` excludes. Path
  and enrollment limits may be exceeded by two requests together. A path finished before it is
  selected in another program never completes there. Approved switches count across
  re-enrollments. The lock orders of a withdrawal and a decision differ; PostgreSQL ends one.
- Spaced repetition reads and writes a card without a lock: a failure racing the pass that retires
  it revives the card, and a count of reviews can be lost.

## Not modelled

- *In modelled components.* Ingest: S3 and Neo4j contents, previews and drafts; `uq` races on
  `is_current` (a conflict is a failed request). Generation: deletion of the quiz, `lock_timeout`
  skips, the content the models write, conflicts of positions; two authoring requests at once are
  proved about and not run. Quiz attempts: reviews fired by a first answer, integrity events,
  idempotency keys and cooldowns. Sessions: a guard mode other than shadow, the adaptive path,
  keyless turns, deadlines and cooldowns, hints, language and name, the wording of the ceremony,
  spoken turns; a tab that reloads while its request is in flight counts as a second one. Turns:
  spoken turns, non-answer actions, echo suppression, acknowledgements, the budget of follow-ups,
  the ledger's capacity of 512, a submit by the deadline sweep or REST, two agent processes, errors
  in the claim and the lookup. Recording: a new policy version, the grace window, signed URLs,
  webhook signatures, several sessions in one transaction of the cron. Evaluation: the rubric, the
  prompts and the judge (its outcome is a choice). Completion and programs: archived paths and
  programs, versions, entitlements and course drops, acknowledgement, a manager who unenrolls from
  the path, courses without units, courses unpublished from a path, database deadlocks, waiting
  lists, invitation codes.
- ARQ is external: it is modelled from the settings in `workers/arq_app.py` and from how the tasks
  use `job_try` and `Retry`. So are LiveKit's egress and the browser's tabs.
- Regrades: a published quiz's questions are frozen, so a regrade finds no changed key.
- Identity, sessions, MFA and access control: left out on purpose; this development is
  about the learning workflows.
- Courses, policies, discussions, administration, question banks, reports: one request over its
  own rows. This is most of the repository's lines, together with schemas, routers, queries,
  migrations, tests and scripts.
- AI pipelines: calls to models and text processing; their outcome is a choice.
- Infrastructure: adapters. The conventions above are what the modules assume of it.

## Plan

Done, in this order: `JobLedger`, `MaterialIngest`, `QuizAttempt`, `OverdueSweep`,
`InterviewEvaluation`, `GenerationRuns`, `InterviewTurns`, `CourseCompletion`,
`LearningProgram`, `InterviewRecording`, `InterviewSession`, `AttemptLedger`, with the proofs above.

Next, the most important behaviour first:

1. The session owner as a guard of the actions of `QuizAttempt`.
2. The guard modes and the adaptive path of `InterviewSession`.
3. Pure operators: SM-2 steps against a reference over small ranges; the cards' due scan.
4. The cache: deletion before the commit.

Theorems worth proving next: `ScoredExactly` for several requests that touch different attempts;
what still holds of the sessions when there are two tabs.

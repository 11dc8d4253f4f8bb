--------------------------- MODULE MaterialIngest ---------------------------
(* Uploaded learning materials, the processing_jobs rows that track their      *)
(* ingestion, the ARQ jobs in Redis, the ingest workers and the reaper cron    *)
(* (features/materials, ai/models.py).  No code creates a second version of a  *)
(* material, so a version stands for its material: is_current and the          *)
(* material's current_version_id are one flag.                                 *)
(*                                                                             *)
(* Database conventions the actions follow.  A transaction reads committed     *)
(* rows (READ COMMITTED) into an identity map and, when it flushes, updates by *)
(* primary key only the attributes whose value differs from the one it loaded; *)
(* a flushed row stays locked until commit.  processing_jobs rows are numbered *)
(* in the order of their created_at.                                           *)
EXTENDS Integers, FiniteSets, FiniteSetsExt

CONSTANTS Versions,      \* uploaded versions, each of its own material
          NoVersion,
          Requests,      \* teacher request handlers running at the same time
          Workers,       \* ingest tasks ARQ runs at the same time (max_jobs)
          Enabled,       \* the operations teachers use in this instance
          MaxOpened,     \* bound: the last processing_jobs row a request opens
          MaxJobs,       \* bound: processing_jobs rows
          MaxQueued,     \* bound: ARQ jobs of one version waiting at one try
          MaxTries,      \* ARQ's max_tries
          MaxRequeue,    \* the reaper's _MAX_REQUEUE_ATTEMPTS
          MaxFaults      \* bound: crashes and Redis losses

ASSUME ConstantsAssumption ==
    /\ NoVersion \notin Versions
    /\ MaxJobs \in Nat /\ MaxOpened \in Nat /\ MaxQueued \in Nat /\ MaxRequeue \in Nat
    /\ MaxTries \in Nat \ {0} /\ MaxFaults \in Nat

VARIABLES version,   \* learning_material_versions, committed rows
          job,       \* processing_jobs rows
          queued,    \* arq:job:* keys not yet running: version -> try -> count
          request,   \* transaction of each request handler
          worker,    \* transaction of each ingest task
          reaper,    \* the reconcile_orphaned_ingests tick
          faults     \* crashes and losses so far

vars == <<version, job, queued, request, worker, reaper, faults>>

JobIds == 1 .. MaxJobs
Tries == 1 .. MaxTries
VersionStatus == {"absent", "pending", "ready", "failed", "cancelled"}
Terminal == {"completed", "failed"}
Ops == {"none", "link", "complete", "reprocess", "rollback", "abort"}

NoRow == [status |-> "absent", version |-> NoVersion, retry |-> 0]
NoRequest == [pc |-> "idle", op |-> "none", version |-> NoVersion,
              status |-> "absent", current |-> FALSE, purge |-> FALSE, job |-> 0]
NoTask == [pc |-> "idle", version |-> NoVersion, try |-> 1, job |-> 0, live |-> FALSE]
NoTick == [pc |-> "idle", cutoff |-> 0, live |-> {}, stuck |-> {}, failing |-> {}, job |-> 0,
           loaded |-> [v \in Versions |-> "absent"],
           memory |-> [v \in Versions |-> "absent"]]

Init ==
    /\ version = [v \in Versions |->
                    [status |-> "absent", current |-> FALSE, chunks |-> FALSE]]
    /\ job = [j \in JobIds |-> NoRow]
    /\ queued = [v \in Versions |-> [t \in Tries |-> 0]]
    /\ request = [r \in Requests |-> NoRequest]
    /\ worker = [w \in Workers |-> NoTask]
    /\ reaper = NoTick
    /\ faults = 0

-----------------------------------------------------------------------------
(* Rows, locks and the queue *)

Uncommitted == "inserting"   \* a flushed INSERT no other transaction can see

JobsOf(v) == {j \in JobIds : job[j].version = v /\ job[j].status \notin {"absent", Uncommitted}}

IsLatest(j, v) == j \in JobsOf(v) /\ \A k \in JobsOf(v) : k <= j

Open(v) == {j \in JobsOf(v) : job[j].status = "pending"}

LatestIsOpen(v) == \E j \in Open(v) : IsLatest(j, v)

\* The row the next INSERT gets: created_at grows.
IsNextJob(j) == /\ j \in JobIds
                /\ \A k \in JobIds : (k >= j) => job[k].status = "absent"
                /\ \A k \in JobIds : (k = j - 1) => job[k].status # "absent"

InTransaction(w) == worker[w].pc \in {"running", "persisted"}
Holds(w, v) == InTransaction(w) /\ worker[w].version = v

\* What a request's flush updates in its version row: the attributes that differ
\* from what it loaded.
TurnsOn(r) == request[r].op \in {"complete", "rollback"} /\ ~request[r].current
NewStatus(r) == CASE request[r].op \in {"complete", "reprocess"} -> "pending"
                  [] request[r].op = "abort" -> "cancelled"
                  [] OTHER -> request[r].status
Updates(r) == TurnsOn(r) \/ NewStatus(r) # request[r].status
Locks(r, v) == request[r].pc = "flushed" /\ request[r].version = v /\ Updates(r)

Enqueue(v) == /\ queued[v][1] < MaxQueued
              /\ queued' = [queued EXCEPT ![v][1] = @ + 1]

Live == {v \in Versions : \/ \E t \in Tries : queued[v][t] > 0
                          \/ \E w \in Workers : worker[w].live /\ worker[w].version = v}

-----------------------------------------------------------------------------
(* Teacher requests *)

\* init_upload: the router commits the new version row; nothing is scheduled.
InitUpload(v) ==
    /\ version[v].status = "absent"
    /\ \A r \in Requests : request[r].op = "link" => request[r].version # v
    /\ version' = [version EXCEPT ![v].status = "pending"]
    /\ UNCHANGED <<job, queued, request, worker, reaper, faults>>

Load(r, op, v) ==
    /\ op \in Enabled
    /\ request[r].pc = "idle"
    /\ request' = [request EXCEPT ![r] =
         [NoRequest EXCEPT !.pc = "loaded", !.op = op, !.version = v,
                           !.status = version[v].status, !.current = version[v].current]]
    /\ UNCHANGED <<version, job, queued, worker, reaper, faults>>

\* complete_upload reads the rows, then awaits head_object.
CompleteBegin(r, v) == version[v].status # "absent" /\ Load(r, "complete", v)

\* reprocess_material takes the current version and refuses while its latest job
\* row is pending or running.
ReprocessBegin(r, v) ==
    /\ version[v].current
    /\ ~LatestIsOpen(v)
    /\ Load(r, "reprocess", v)

\* rollback_material_version: only to a ready version that is not current.
RollbackBegin(r, v) ==
    /\ version[v].status = "ready"
    /\ ~version[v].current
    /\ Load(r, "rollback", v)

\* abort_multipart looks at neither the status nor the jobs of the version.
AbortBegin(r, v) == version[v].status # "absent" /\ Load(r, "abort", v)

\* link_existing_material creates the material with its only version.
LinkBegin(r, v) ==
    /\ version[v].status = "absent"
    /\ \A o \in Requests : request[o].version # v
    /\ Load(r, "link", v)

\* Flush, INSERT of the job row, enqueue: all before the router commits.
Flush(r) ==
    LET q == request[r] IN
    /\ q.pc = "loaded"
    /\ Updates(r) => /\ \A w \in Workers : ~Holds(w, q.version)
                     /\ \A o \in Requests : ~Locks(o, q.version)
    /\ q.op = "reprocess" => \A w \in Workers :
          ~(worker[w].pc = "persisted" /\ worker[w].version = q.version)
    /\ \/ /\ q.op \in {"link", "complete", "reprocess"}
          /\ \E j \in JobIds :
                /\ IsNextJob(j) /\ j <= MaxOpened
                /\ job' = [job EXCEPT ![j] = [status |-> Uncommitted,
                                              version |-> q.version, retry |-> 0]]
                /\ request' = [request EXCEPT ![r].pc = "flushed", ![r].job = j,
                     ![r].purge = (q.op = "reprocess" /\ version[q.version].chunks)]
          /\ Enqueue(q.version)
       \/ /\ q.op \in {"rollback", "abort"}
          /\ request' = [request EXCEPT ![r].pc = "flushed"]
          /\ UNCHANGED <<job, queued>>
    /\ UNCHANGED <<version, worker, reaper, faults>>

Commit(r) ==
    LET q == request[r] IN
    /\ q.pc = "flushed"
    /\ version' = [version EXCEPT
         ![q.version].status = IF q.op = "link" THEN "pending"
                               ELSE IF NewStatus(r) # q.status THEN NewStatus(r) ELSE @,
         ![q.version].current = @ \/ TurnsOn(r) \/ q.op = "link",
         ![q.version].chunks = @ /\ ~q.purge]
    /\ job' = [j \in JobIds |-> IF j = q.job THEN [job[j] EXCEPT !.status = "pending"]
                                ELSE job[j]]
    /\ request' = [request EXCEPT ![r] = NoRequest]
    /\ UNCHANGED <<queued, worker, reaper, faults>>

\* An error, a lost connection or a crash before the commit: what was enqueued
\* stays in Redis, what was flushed is rolled back.
RequestFail(r) ==
    /\ request[r].pc = "flushed"
    /\ faults < MaxFaults
    /\ faults' = faults + 1
    /\ job' = [j \in JobIds |-> IF j = request[r].job
                 THEN NoRow ELSE job[j]]
    /\ request' = [request EXCEPT ![r] = NoRequest]
    /\ UNCHANGED <<version, queued, worker, reaper>>

-----------------------------------------------------------------------------
(* ingest_material_version_task *)

\* ARQ hands a queued job to a free slot; a version row that is not (yet)
\* visible ends the task at once.
WorkerStart(w, v, t) ==
    /\ worker[w].pc = "idle"
    /\ queued[v][t] > 0
    /\ queued' = [queued EXCEPT ![v][t] = @ - 1]
    /\ worker' = IF version[v].status = "absent" THEN worker
                 ELSE [worker EXCEPT ![w] = [NoTask EXCEPT !.pc = "downloading",
                                    !.version = v, !.try = t, !.live = TRUE]]
    /\ UNCHANGED <<version, job, request, reaper, faults>>

\* _ensure_processing_job: reuse the latest row unless it is over.
WorkerAttach(w) ==
    LET v == worker[w].version IN
    /\ worker[w].pc = "downloading"
    /\ \/ /\ \E j \in Open(v) :
                /\ IsLatest(j, v)
                /\ worker' = [worker EXCEPT ![w].pc = "attached", ![w].job = j]
          /\ UNCHANGED job
       \/ /\ ~LatestIsOpen(v)
          /\ \E j \in JobIds :
                /\ IsNextJob(j)
                /\ job' = [job EXCEPT ![j] = [status |-> Uncommitted, version |-> v,
                                              retry |-> 0]]
                /\ worker' = [worker EXCEPT ![w].pc = "attached", ![w].job = j]
    /\ UNCHANGED <<version, queued, request, reaper, faults>>

\* The first flush of _run_stages takes the row locks.
WorkerRun(w) ==
    LET v == worker[w].version IN
    /\ worker[w].pc = "attached"
    /\ \A o \in Workers : ~Holds(o, v)
    /\ \A r \in Requests : ~Locks(r, v)
    /\ worker' = [worker EXCEPT ![w].pc = "running"]
    /\ UNCHANGED <<version, job, queued, request, reaper, faults>>

\* _persist_chunks: DELETE then INSERT.
WorkerPersist(w) ==
    /\ worker[w].pc = "running"
    /\ \A r \in Requests : request[r].pc = "flushed" /\ request[r].purge
                              => request[r].version # worker[w].version
    /\ worker' = [worker EXCEPT ![w].pc = "persisted"]
    /\ UNCHANGED <<version, job, queued, request, reaper, faults>>

Settle(w, vstatus, jstatus, chunks) ==
    /\ version' = [version EXCEPT ![worker[w].version].status = vstatus,
                                  ![worker[w].version].chunks = chunks]
    /\ job' = [job EXCEPT ![worker[w].job].status = jstatus]
    /\ worker' = [worker EXCEPT ![w].pc = "notifying"]
    /\ UNCHANGED <<queued, request, reaper, faults>>

\* The last stage and the task's only commit of pipeline work.
WorkerCommit(w) == worker[w].pc = "persisted" /\ Settle(w, "ready", "completed", TRUE)

\* Mutant: the captured failure leaves processing_status alone.
WorkerFailKeepsStatus(w) ==
    /\ InTransaction(w)
    /\ \E chunks \in BOOLEAN :
          Settle(w, version[worker[w].version].status, "failed", chunks)

\* A stage raises: _capture_failure flushes and the task commits what the
\* transaction holds - before the chunks are touched, after they are deleted
\* (zero vectors), or after they are inserted.
WorkerFail(w) ==
    /\ InTransaction(w)
    /\ \E chunks \in IF worker[w].pc = "persisted" THEN {TRUE}
                     ELSE {version[worker[w].version].chunks, FALSE} :
          Settle(w, "failed", "failed", chunks)

\* The best-effort notification is over: ARQ deletes the job.
WorkerFinish(w) ==
    /\ worker[w].pc = "notifying"
    /\ worker' = [worker EXCEPT ![w] = NoTask]
    /\ UNCHANGED <<version, job, queued, request, reaper, faults>>

\* Everything uncommitted of w is undone.
RolledBack(w) == [j \in JobIds |->
    IF j = worker[w].job /\ job[j].status = Uncommitted
      THEN NoRow ELSE job[j]]

\* An exception outside the captured stages (download, bootstrap, a database
\* error that aborts the transaction): ARQ does not retry it.
WorkerAbandon(w) ==
    /\ worker[w].pc \notin {"idle", "notifying"}
    /\ faults < MaxFaults
    /\ faults' = faults + 1
    /\ job' = RolledBack(w)
    /\ worker' = [worker EXCEPT ![w] = NoTask]
    /\ UNCHANGED <<version, queued, request, reaper>>

\* Cancellation (job_timeout, shutdown) or a crash: ARQ retries up to max_tries.
WorkerCrash(w) ==
    LET v == worker[w].version  t == worker[w].try IN
    /\ worker[w].pc # "idle"
    /\ faults < MaxFaults
    /\ faults' = faults + 1
    /\ job' = RolledBack(w)
    /\ IF worker[w].live /\ t < MaxTries
         THEN queued' = [queued EXCEPT ![v][t + 1] = @ + 1]
         ELSE UNCHANGED queued
    /\ worker' = [worker EXCEPT ![w] = NoTask]
    /\ UNCHANGED <<version, request, reaper>>

\* Redis forgets its keys; running tasks go on without theirs.
RedisLoss ==
    /\ faults < MaxFaults
    /\ faults' = faults + 1
    /\ queued' = [v \in Versions |-> [t \in Tries |-> 0]]
    /\ worker' = [w \in Workers |-> [worker[w] EXCEPT !.live = FALSE]]
    /\ UNCHANGED <<version, job, request, reaper>>

-----------------------------------------------------------------------------
(* The reaper: _run_reconcile *)

\* The tick first fixes the cutoff (rows created before it are old enough; here
\* a prefix of the rows there are), then reads the live ARQ jobs.
ReaperScan(cutoff) ==
    /\ reaper.pc = "idle"
    /\ cutoff # 0 => job[cutoff].status # "absent"
    /\ reaper' = [NoTick EXCEPT !.pc = "scanned", !.cutoff = cutoff, !.live = Live]
    /\ UNCHANGED <<version, job, queued, request, worker, faults>>

\* The stuck rows, in a later transaction.
ReaperSelect ==
    /\ reaper.pc = "scanned"
    /\ reaper' = [reaper EXCEPT !.pc = "walking", !.cutoff = 0,
           !.stuck = {j \in JobIds : j <= reaper.cutoff /\ job[j].status = "pending"}]
    /\ UNCHANGED <<version, job, queued, request, worker, faults>>

ReaperSkip(j) ==
    /\ reaper.pc = "walking"
    /\ j \in reaper.stuck
    /\ job[j].version \in reaper.live
    /\ reaper' = [reaper EXCEPT !.stuck = @ \ {j}]
    /\ UNCHANGED <<version, job, queued, request, worker, faults>>

\* db.get of the version (the identity map keeps the first load of the tick),
\* then the attribute assignments of one of the two branches.
Consider(j, status) ==
    LET v == job[j].version
        first == reaper.loaded[v] = "absent" IN
    [reaper EXCEPT !.stuck = @ \ {j},
                   !.loaded[v] = IF first THEN version[v].status ELSE @,
                   !.memory[v] = status]

\* Mutant: no re-enqueue budget is ever spent.
ReaperNeverGivesUp(j) == FALSE

ReaperExhaust(j) ==
    /\ reaper.pc = "walking"
    /\ j \in reaper.stuck
    /\ job[j].version \notin reaper.live
    /\ job[j].retry >= MaxRequeue
    /\ reaper' = [Consider(j, "failed") EXCEPT !.failing = @ \cup {j}]
    /\ UNCHANGED <<version, job, queued, request, worker, faults>>

ReaperRequeue(j) ==
    /\ reaper.pc = "walking"
    /\ j \in reaper.stuck
    /\ job[j].version \notin reaper.live
    /\ job[j].retry < MaxRequeue
    /\ reaper' = [Consider(j, "pending") EXCEPT !.pc = "committing", !.job = j]
    /\ UNCHANGED <<version, job, queued, request, worker, faults>>

Dirty == {v \in Versions : reaper.memory[v] # reaper.loaded[v]}

\* Mutant: the tick writes job.status = 'pending' over what a worker committed.
ReaperWriteReopens ==
    /\ version' = [v \in Versions |-> IF v \in Dirty
                     THEN [version[v] EXCEPT !.status = reaper.memory[v]] ELSE version[v]]
    /\ job' = [j \in JobIds |->
                 IF j \in reaper.failing THEN [job[j] EXCEPT !.status = "failed"]
                 ELSE IF j = reaper.job
                   THEN [job[j] EXCEPT !.retry = @ + 1, !.status = "pending"]
                 ELSE job[j]]

\* Mutant: the durable counter is not incremented.
ReaperWriteForgetsCount ==
    /\ version' = [v \in Versions |-> IF v \in Dirty
                     THEN [version[v] EXCEPT !.status = reaper.memory[v]] ELSE version[v]]
    /\ job' = [j \in JobIds |->
                 IF j \in reaper.failing THEN [job[j] EXCEPT !.status = "failed"]
                 ELSE job[j]]

\* db.commit(): the rows the session changed, unless another transaction holds
\* their locks.
ReaperWrite ==
    /\ \A w \in Workers : InTransaction(w) =>
          /\ worker[w].version \notin Dirty
          /\ worker[w].job \notin reaper.failing \cup {reaper.job}
    /\ \A r \in Requests, v \in Dirty : ~Locks(r, v)
    /\ version' = [v \in Versions |-> IF v \in Dirty
                     THEN [version[v] EXCEPT !.status = reaper.memory[v]] ELSE version[v]]
    /\ job' = [j \in JobIds |->
                 IF j \in reaper.failing THEN [job[j] EXCEPT !.status = "failed"]
                 ELSE IF j = reaper.job THEN [job[j] EXCEPT !.retry = @ + 1]
                 ELSE job[j]]

\* The durable counter is committed before the enqueue.
ReaperCommit ==
    /\ reaper.pc = "committing"
    /\ ReaperWrite
    /\ reaper' = [reaper EXCEPT !.pc = "enqueueing", !.failing = {},
                                !.loaded = reaper.memory]
    /\ UNCHANGED <<queued, request, worker, faults>>

\* A failed enqueue is logged and left to the next tick.
ReaperEnqueue ==
    /\ reaper.pc = "enqueueing"
    /\ \/ Enqueue(job[reaper.job].version)
       \/ UNCHANGED queued
    /\ reaper' = [reaper EXCEPT !.pc = "walking", !.job = 0]
    /\ UNCHANGED <<version, job, request, worker, faults>>

ReaperEnd ==
    /\ reaper.pc = "walking"
    /\ reaper.stuck = {}
    /\ ReaperWrite
    /\ reaper' = NoTick
    /\ UNCHANGED <<queued, request, worker, faults>>

ReaperCrash ==
    /\ reaper.pc # "idle"
    /\ faults < MaxFaults
    /\ faults' = faults + 1
    /\ reaper' = NoTick
    /\ UNCHANGED <<version, job, queued, request, worker>>

-----------------------------------------------------------------------------
RequestBegin(r) ==
    \E v \in Versions : \/ CompleteBegin(r, v) \/ ReprocessBegin(r, v)
                        \/ RollbackBegin(r, v) \/ AbortBegin(r, v) \/ LinkBegin(r, v)

RequestStep(r) == Flush(r) \/ Commit(r)

WorkerStep(w) ==
    \/ \E v \in Versions, t \in Tries : WorkerStart(w, v, t)
    \/ WorkerAttach(w) \/ WorkerRun(w) \/ WorkerPersist(w)
    \/ WorkerCommit(w) \/ WorkerFail(w) \/ WorkerFinish(w)

ReaperStep ==
    \/ \E cutoff \in 0 .. MaxJobs : ReaperScan(cutoff)
    \/ ReaperSelect
    \/ \E j \in JobIds : ReaperSkip(j) \/ ReaperExhaust(j) \/ ReaperRequeue(j)
    \/ ReaperCommit \/ ReaperEnqueue \/ ReaperEnd

Fault ==
    \/ \E r \in Requests : RequestFail(r)
    \/ \E w \in Workers : WorkerAbandon(w) \/ WorkerCrash(w)
    \/ RedisLoss
    \/ ReaperCrash

Next ==
    \/ \E v \in Versions : InitUpload(v)
    \/ \E r \in Requests : RequestBegin(r) \/ RequestStep(r)
    \/ \E w \in Workers : WorkerStep(w)
    \/ ReaperStep
    \/ Fault

Spec == Init /\ [][Next]_vars

-----------------------------------------------------------------------------
(* Properties *)

JobRow == [status : {"absent", Uncommitted, "pending"} \cup Terminal,
           version : Versions \cup {NoVersion}, retry : 0 .. MaxRequeue]

VersionOK == version \in [Versions -> [status : VersionStatus, current : BOOLEAN,
                                        chunks : BOOLEAN]]
JobOK == job \in [JobIds -> JobRow]
QueueOK == queued \in [Versions -> [Tries -> Nat]]
RequestOK == request \in [Requests ->
    [pc : {"idle", "loaded", "flushed"}, op : Ops, version : Versions \cup {NoVersion},
     status : VersionStatus, current : BOOLEAN, purge : BOOLEAN, job : JobIds \cup {0}]]
WorkerOK == worker \in [Workers ->
    [pc : {"idle", "downloading", "attached", "running", "persisted", "notifying"},
     version : Versions \cup {NoVersion}, try : Tries, job : JobIds \cup {0},
     live : BOOLEAN]]
ReaperOK == reaper \in
    [pc : {"idle", "scanned", "walking", "committing", "enqueueing"},
     cutoff : JobIds \cup {0}, live : SUBSET Versions, stuck : SUBSET JobIds,
     failing : SUBSET JobIds, job : JobIds \cup {0},
     loaded : [Versions -> VersionStatus], memory : [Versions -> VersionStatus]]

\* The values every variable takes.
TypeOK ==
    /\ VersionOK /\ JobOK /\ QueueOK
    /\ RequestOK /\ WorkerOK /\ ReaperOK
    /\ faults \in 0 .. MaxFaults

\* A version served as ready has its chunks, or a job row that will rebuild them.
ReadyIsSearchable ==
    \A v \in Versions : version[v].status = "ready" /\ ~version[v].chunks => Open(v) # {}

Fairness ==
    /\ \A r \in Requests : WF_vars(RequestStep(r))
    /\ \A w \in Workers : WF_vars(WorkerStep(w))
    /\ WF_vars(ReaperStep)
    /\ \A j \in JobIds : SF_vars(ReaperScan(j))

FairSpec == Spec /\ Fairness

LedgerRow(j) == CASE job[j].status \in {"absent", Uncommitted} -> "none"
                  [] job[j].status = "pending" -> "open"
                  [] OTHER -> "settled"

\* The ledger the table of job rows is read as.
Ledger == INSTANCE JobLedger WITH
    Rows <- JobIds, Budget <- MaxRequeue,
    row <- [j \in JobIds |-> LedgerRow(j)],
    requeues <- [j \in JobIds |-> job[j].retry]

\* The processing_jobs table is the ledger it is meant to be: no commit, of a request,
\* a worker or the reaper, reopens a settled row, and the reaper's re-enqueues of a row
\* stay within their budget (reaper.py, pipeline._ensure_processing_job).
LedgerSpec == Ledger!Spec

\* Every row a request opened is settled, by a worker or, its budget of re-enqueues
\* spent, by the reaper.
LedgerSettles == Ledger!Settles

\* A scheduled version does not stay pending for ever, while nothing fails.
VersionsSettle ==
    \A v \in Versions : version[v].current /\ version[v].status = "pending"
                          ~> version[v].status # "pending" \/ faults > 0

\* Automatic recovery ends: once teachers stop, no ARQ job is left and none is
\* added any more.
RecoveryQuiesces == <>[](Live = {})
=============================================================================

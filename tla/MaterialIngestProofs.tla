------------------------ MODULE MaterialIngestProofs ------------------------
(* Theorems about MaterialIngest, for every number of versions, requests,      *)
(* workers and rows: the types, the refinement of JobLedger, and the chunks of *)
(* every version served as ready.                                              *)
EXTENDS MaterialIngest, TLAPS

\* A row other transactions can see.
Visible(j) == job[j].status \in {"pending"} \cup Terminal

\* An uncommitted row has exactly one owner, and what a transaction refers to
\* is still there.
RowsOwned ==
    /\ \A r \in Requests : request[r].job # 0 =>
          request[r].pc = "flushed" /\ job[request[r].job].status = Uncommitted
    /\ \A r, o \in Requests : request[r].job # 0 /\ request[r].job = request[o].job => r = o
    /\ \A w \in Workers, r \in Requests : worker[w].job # 0 => worker[w].job # request[r].job
    /\ \A w, x \in Workers :
          worker[w].job # 0 /\ worker[w].job = worker[x].job /\ w # x => Visible(worker[w].job)
    /\ \A w \in Workers : worker[w].job # 0 => job[worker[w].job].status # "absent"
    /\ \A w \in Workers : worker[w].pc \in {"attached", "running", "persisted"} =>
          worker[w].job # 0
    /\ \A j \in JobIds : ~Visible(j) => job[j].retry = 0

\* The rows a tick of the reaper works on are committed rows, and the one it
\* re-enqueues has budget left.
ReaperSees ==
    /\ \A j \in reaper.stuck \cup reaper.failing : Visible(j)
    /\ reaper.job # 0 => Visible(reaper.job)
    /\ reaper.pc = "committing" => reaper.job # 0 /\ job[reaper.job].retry < MaxRequeue
    /\ reaper.pc \notin {"committing", "enqueueing"} => reaper.job = 0

IInv == TypeOK /\ RowsOwned /\ ReaperSees
-----------------------------------------------------------------------------
LEMMA InitIInv == Init => IInv
  BY ConstantsAssumption, SMT
  DEF Init, IInv, TypeOK, VersionOK, JobOK, QueueOK, RequestOK, WorkerOK, ReaperOK,
      RowsOwned, ReaperSees, Visible, NoRow, NoRequest, NoTask, NoTick,
      JobIds, Tries, VersionStatus, Terminal, Ops, JobRow, Uncommitted

(* Which actions write which variable. *)

LEMMA VersionFrame ==
  [Next]_vars => \/ version' = version
                 \/ \E v \in Versions : InitUpload(v)
                 \/ \E r \in Requests : Commit(r)
                 \/ \E w \in Workers : WorkerCommit(w) \/ WorkerFail(w)
                 \/ ReaperCommit \/ ReaperEnd
  BY ZenonT(30)
  DEF Next, RequestBegin, RequestStep, WorkerStep, ReaperStep, Fault, vars,
      CompleteBegin, ReprocessBegin, RollbackBegin, AbortBegin, LinkBegin, Load, Flush,
      RequestFail, WorkerStart, WorkerAttach, WorkerRun, WorkerPersist, WorkerFinish,
      WorkerAbandon, WorkerCrash, RedisLoss, ReaperScan, ReaperSelect, ReaperSkip,
      ReaperExhaust, ReaperRequeue, ReaperEnqueue, ReaperCrash

LEMMA JobFrame ==
  [Next]_vars => \/ job' = job
                 \/ \E r \in Requests : Flush(r) \/ Commit(r) \/ RequestFail(r)
                 \/ \E w \in Workers : \/ WorkerAttach(w) \/ WorkerCommit(w) \/ WorkerFail(w)
                                       \/ WorkerAbandon(w) \/ WorkerCrash(w)
                 \/ ReaperCommit \/ ReaperEnd
  BY ZenonT(30)
  DEF Next, RequestBegin, RequestStep, WorkerStep, ReaperStep, Fault, vars, InitUpload,
      CompleteBegin, ReprocessBegin, RollbackBegin, AbortBegin, LinkBegin, Load,
      WorkerStart, WorkerRun, WorkerPersist, WorkerFinish,
      RedisLoss, ReaperScan, ReaperSelect, ReaperSkip,
      ReaperExhaust, ReaperRequeue, ReaperEnqueue, ReaperCrash

LEMMA QueueFrame ==
  [Next]_vars => \/ queued' = queued
                 \/ \E r \in Requests : Flush(r)
                 \/ \E w \in Workers, v \in Versions, t \in Tries : WorkerStart(w, v, t)
                 \/ \E w \in Workers : WorkerCrash(w)
                 \/ RedisLoss \/ ReaperEnqueue
  BY ZenonT(30)
  DEF Next, RequestBegin, RequestStep, WorkerStep, ReaperStep, Fault, vars, InitUpload,
      CompleteBegin, ReprocessBegin, RollbackBegin, AbortBegin, LinkBegin, Load, Commit,
      RequestFail, WorkerAttach, WorkerRun, WorkerPersist, WorkerCommit, WorkerFail, Settle,
      WorkerFinish, WorkerAbandon, ReaperScan, ReaperSelect, ReaperSkip,
      ReaperExhaust, ReaperRequeue, ReaperCommit, ReaperEnd, ReaperCrash

LEMMA RequestFrame ==
  [Next]_vars => \/ request' = request
                 \/ \E r \in Requests : \/ RequestBegin(r) \/ Flush(r)
                                        \/ Commit(r) \/ RequestFail(r)
  BY ZenonT(30)
  DEF Next, RequestStep, WorkerStep, ReaperStep, Fault, vars, InitUpload,
      WorkerStart, WorkerAttach, WorkerRun, WorkerPersist, WorkerCommit, WorkerFail, Settle,
      WorkerFinish, WorkerAbandon, WorkerCrash, RedisLoss, ReaperScan, ReaperSelect,
      ReaperSkip, ReaperExhaust, ReaperRequeue, ReaperCommit, ReaperEnqueue, ReaperEnd,
      ReaperCrash

LEMMA WorkerFrame ==
  [Next]_vars => \/ worker' = worker
                 \/ \E w \in Workers : WorkerStep(w) \/ WorkerAbandon(w) \/ WorkerCrash(w)
                 \/ RedisLoss
  BY ZenonT(30)
  DEF Next, RequestBegin, RequestStep, ReaperStep, Fault, vars, InitUpload,
      CompleteBegin, ReprocessBegin, RollbackBegin, AbortBegin, LinkBegin, Load, Flush,
      Commit, RequestFail, ReaperScan, ReaperSelect, ReaperSkip, ReaperExhaust,
      ReaperRequeue, ReaperCommit, ReaperEnqueue, ReaperEnd, ReaperCrash

LEMMA ReaperFrame == [Next]_vars => reaper' = reaper \/ ReaperStep \/ ReaperCrash
  BY ZenonT(30)
  DEF Next, RequestBegin, RequestStep, WorkerStep, Fault, vars, InitUpload,
      CompleteBegin, ReprocessBegin, RollbackBegin, AbortBegin, LinkBegin, Load, Flush,
      Commit, RequestFail, WorkerStart, WorkerAttach, WorkerRun, WorkerPersist,
      WorkerCommit, WorkerFail, Settle, WorkerFinish, WorkerAbandon, WorkerCrash, RedisLoss

LEMMA FaultFrame == [Next]_vars => faults' = faults \/ (faults < MaxFaults /\ faults' = faults + 1)
  BY ZenonT(30)
  DEF Next, RequestBegin, RequestStep, WorkerStep, ReaperStep, Fault, vars, InitUpload,
      CompleteBegin, ReprocessBegin, RollbackBegin, AbortBegin, LinkBegin, Load, Flush,
      Commit, RequestFail, WorkerStart, WorkerAttach, WorkerRun, WorkerPersist,
      WorkerCommit, WorkerFail, Settle, WorkerFinish, WorkerAbandon, WorkerCrash, RedisLoss,
      ReaperScan, ReaperSelect, ReaperSkip, ReaperExhaust, ReaperRequeue, ReaperCommit,
      ReaperEnqueue, ReaperEnd, ReaperCrash

-----------------------------------------------------------------------------
(* Every action keeps the types. *)

LEMMA WriteVersion ==
  ASSUME VersionOK, NEW u, NEW s, NEW c, NEW k,
         u \in Versions => s \in VersionStatus /\ c \in BOOLEAN /\ k \in BOOLEAN,
         version' = [version EXCEPT ![u].status = s, ![u].current = c, ![u].chunks = k]
  PROVE  VersionOK'
<1>1. CASE u \in Versions
  <2> DEFINE a == [version EXCEPT ![u].status = s]
             b == [a EXCEPT ![u].current = c]
  <2>1. a \in [Versions -> [status : VersionStatus, current : BOOLEAN, chunks : BOOLEAN]]
    BY <1>1 DEF VersionOK
  <2>2. b \in [Versions -> [status : VersionStatus, current : BOOLEAN, chunks : BOOLEAN]]
    <3> HIDE DEF a
    <3> QED
      BY <1>1, <2>1
  <2> DEFINE d == [b[u] EXCEPT !.chunks = k]
  <2>3. version' = [b EXCEPT ![u] = d]
    OBVIOUS
  <2> HIDE DEF a, b
  <2>4. d \in [status : VersionStatus, current : BOOLEAN, chunks : BOOLEAN]
    BY <1>1, <2>2
  <2> HIDE DEF d
  <2> QED
    BY <1>1, <2>2, <2>3, <2>4 DEF VersionOK
<1>2. CASE u \notin Versions
  BY <1>2 DEF VersionOK
<1> QED
  BY <1>1, <1>2

LEMMA VersionTyped == TypeOK /\ [Next]_vars => VersionOK'
<1> SUFFICES ASSUME TypeOK, [Next]_vars PROVE VersionOK'
  OBVIOUS
<1>0. VersionOK /\ RequestOK /\ WorkerOK /\ ReaperOK
  BY DEF TypeOK
<1>1. CASE version' = version
  BY <1>0, <1>1 DEF VersionOK
<1>2. ASSUME NEW v \in Versions, InitUpload(v) PROVE VersionOK'
  BY <1>0, <1>2 DEF VersionOK, VersionStatus, InitUpload
<1>3. ASSUME NEW r \in Requests, Commit(r) PROVE VersionOK'
  <2> DEFINE u == request[r].version
             s == IF request[r].op = "link" THEN "pending"
                  ELSE IF NewStatus(r) # request[r].status THEN NewStatus(r)
                  ELSE version[u].status
             c == version[u].current \/ TurnsOn(r) \/ request[r].op = "link"
             k == version[u].chunks /\ ~request[r].purge
  <2>1. NewStatus(r) \in VersionStatus
    BY <1>0 DEF RequestOK, NewStatus, VersionStatus
  <2>2. u \in Versions => s \in VersionStatus
    BY <1>0, <2>1 DEF VersionOK, VersionStatus
  <2>3. c \in BOOLEAN /\ k \in BOOLEAN
    OBVIOUS
  <2>4. version' = [version EXCEPT ![u].status = s, ![u].current = c, ![u].chunks = k]
    BY <1>0, <1>3 DEF Commit, VersionOK
  <2> HIDE DEF s, c, k
  <2> QED
    BY <1>0, <2>2, <2>3, <2>4, WriteVersion
<1>4. ASSUME NEW w \in Workers, WorkerCommit(w) \/ WorkerFail(w) PROVE VersionOK'
  <2> DEFINE u == worker[w].version
  <2>1. PICK s \in {"ready", "failed"}, k \in BOOLEAN \cup {version[u].chunks} :
          version' = [version EXCEPT ![u].status = s, ![u].chunks = k]
    BY <1>4 DEF WorkerCommit, WorkerFail, Settle
  <2>2. CASE u \in Versions
    <3>1. k \in BOOLEAN
      BY <1>0, <2>2 DEF VersionOK
    <3> QED
      BY <1>0, <2>1, <2>2, <3>1 DEF VersionOK, VersionStatus
  <2>3. CASE u \notin Versions
    BY <1>0, <2>1, <2>3 DEF VersionOK
  <2> QED
    BY <2>2, <2>3
<1>5. CASE ReaperCommit \/ ReaperEnd
  <2>1. version' = [v \in Versions |-> IF v \in Dirty
                      THEN [version[v] EXCEPT !.status = reaper.memory[v]] ELSE version[v]]
    BY <1>5 DEF ReaperCommit, ReaperEnd, ReaperWrite
  <2> QED
    BY <1>0, <2>1 DEF VersionOK, ReaperOK
<1> QED
  BY <1>1, <1>2, <1>3, <1>4, <1>5, VersionFrame

LEMMA QueueTyped == TypeOK /\ [Next]_vars => QueueOK'
<1> SUFFICES ASSUME TypeOK, [Next]_vars PROVE QueueOK'
  OBVIOUS
<1>0. QueueOK /\ WorkerOK /\ 1 \in Tries
  BY ConstantsAssumption DEF TypeOK, Tries
<1>1. CASE queued' = queued
  BY <1>0, <1>1 DEF QueueOK
<1>2. ASSUME NEW v, Enqueue(v) PROVE QueueOK'
  <2>1. CASE v \in Versions
    <3>1. queued[v] \in [Tries -> Nat]
      BY <1>0, <2>1 DEF QueueOK
    <3>2. [queued[v] EXCEPT ![1] = queued[v][1] + 1] \in [Tries -> Nat]
      BY <1>0, <3>1
    <3>3. queued' = [queued EXCEPT ![v] = [queued[v] EXCEPT ![1] = queued[v][1] + 1]]
      BY <1>0, <1>2, <2>1 DEF QueueOK, Enqueue
    <3> QED
      BY <1>0, <3>2, <3>3 DEF QueueOK
  <2>2. CASE v \notin Versions
    BY <1>0, <1>1, <1>2, <2>2 DEF QueueOK, Enqueue
  <2> QED
    BY <2>1, <2>2
<1>3. ASSUME NEW r \in Requests, Flush(r) PROVE QueueOK'
  BY <1>1, <1>2, <1>3 DEF Flush
<1>4. ASSUME NEW w \in Workers, NEW v \in Versions, NEW t \in Tries, WorkerStart(w, v, t)
      PROVE  QueueOK'
  BY <1>0, <1>4 DEF QueueOK, WorkerStart
<1>5. ASSUME NEW w \in Workers, WorkerCrash(w) PROVE QueueOK'
  <2>1. \/ queued' = queued
        \/ \E v, t : queued' = [queued EXCEPT ![v][t] = @ + 1]
    BY <1>5 DEF WorkerCrash
  <2> QED
    BY <1>0, <2>1 DEF QueueOK
<1>6. CASE RedisLoss
  BY <1>6 DEF QueueOK, RedisLoss
<1>7. CASE ReaperEnqueue
  BY <1>1, <1>2, <1>7 DEF ReaperEnqueue
<1> QED
  BY <1>1, <1>3, <1>4, <1>5, <1>6, <1>7, QueueFrame

LEMMA RequestTyped == TypeOK /\ [Next]_vars => RequestOK'
<1> SUFFICES ASSUME TypeOK, [Next]_vars PROVE RequestOK'
  OBVIOUS
<1> DEFINE Transactions == [Requests ->
      [pc : {"idle", "loaded", "flushed"}, op : Ops, version : Versions \cup {NoVersion},
       status : VersionStatus, current : BOOLEAN, purge : BOOLEAN, job : JobIds \cup {0}]]
<1>0. VersionOK /\ RequestOK
  BY DEF TypeOK
<1>1. CASE request' = request
  BY <1>0, <1>1 DEF RequestOK
<1>2. ASSUME NEW r \in Requests, RequestBegin(r) PROVE RequestOK'
  <2>1. PICK v \in Versions, op \in Ops : Load(r, op, v)
    BY <1>2 DEF RequestBegin, CompleteBegin, ReprocessBegin, RollbackBegin, AbortBegin,
                LinkBegin, Ops
  <2> QED
    BY <1>0, <2>1 DEF Load, RequestOK, VersionOK, NoRequest, VersionStatus, Ops
<1>3. ASSUME NEW r \in Requests, Flush(r) PROVE RequestOK'
  <2>1. CASE request' = [request EXCEPT ![r].pc = "flushed"]
    BY <1>0, <2>1 DEF RequestOK
  <2>2. ASSUME NEW j \in JobIds,
               request' = [request EXCEPT ![r].pc = "flushed", ![r].job = j,
                 ![r].purge = (request[r].op = "reprocess"
                                 /\ version[request[r].version].chunks)]
        PROVE  RequestOK'
    <3> DEFINE purge == (request[r].op = "reprocess" /\ version[request[r].version].chunks)
    <3>1. purge \in BOOLEAN
      OBVIOUS
    <3> DEFINE a == [request EXCEPT ![r].pc = "flushed"]
               b == [a EXCEPT ![r].job = j]
    <3>2. a \in Transactions
      BY <1>0 DEF RequestOK
    <3>3. b \in Transactions
      <4> HIDE DEF a
      <4> QED
        BY <3>2
    <3>4. request' = [b EXCEPT ![r].purge = purge]
      BY <2>2
    <3> HIDE DEF purge, a, b
    <3> QED
      BY <3>1, <3>3, <3>4 DEF RequestOK
  <2> QED
    BY <1>3, <2>1, <2>2 DEF Flush
<1>4. ASSUME NEW r \in Requests, Commit(r) \/ RequestFail(r) PROVE RequestOK'
  <2>1. request' = [request EXCEPT ![r] = NoRequest]
    BY <1>4 DEF Commit, RequestFail
  <2> QED
    BY <1>0, <2>1 DEF RequestOK, NoRequest, VersionStatus, Ops
<1> QED
  BY <1>1, <1>2, <1>3, <1>4, RequestFrame

LEMMA WorkerTyped == TypeOK /\ [Next]_vars => WorkerOK'
<1> SUFFICES ASSUME TypeOK, [Next]_vars PROVE WorkerOK'
  OBVIOUS
<1>0. WorkerOK /\ NoTask \in [pc : {"idle"}, version : {NoVersion}, try : Tries, job : {0},
                              live : BOOLEAN]
  BY ConstantsAssumption DEF TypeOK, NoTask, Tries
<1>1. CASE worker' = worker
  BY <1>0, <1>1 DEF WorkerOK
<1>2. ASSUME NEW w \in Workers, NEW v \in Versions, NEW t \in Tries, WorkerStart(w, v, t)
      PROVE  WorkerOK'
  BY <1>0, <1>2 DEF WorkerStart, WorkerOK, NoTask
<1>3. ASSUME NEW w \in Workers, WorkerAttach(w) PROVE WorkerOK'
  <2>1. PICK j \in JobIds : worker' = [worker EXCEPT ![w].pc = "attached", ![w].job = j]
    BY <1>3 DEF WorkerAttach, Open, JobsOf
  <2> QED
    BY <1>0, <2>1 DEF WorkerOK
<1>4. ASSUME NEW w \in Workers, NEW pc \in {"running", "persisted", "notifying"},
             worker' = [worker EXCEPT ![w].pc = pc]
      PROVE  WorkerOK'
  BY <1>0, <1>4 DEF WorkerOK
<1>5. ASSUME NEW w \in Workers, worker' = [worker EXCEPT ![w] = NoTask] PROVE WorkerOK'
  BY <1>0, <1>5 DEF WorkerOK
<1>6. CASE RedisLoss
  BY <1>0, <1>6 DEF WorkerOK, RedisLoss
<1>7. ASSUME NEW w \in Workers, WorkerStep(w) PROVE WorkerOK'
  BY <1>2, <1>3, <1>4, <1>5, <1>7
  DEF WorkerStep, WorkerRun, WorkerPersist, WorkerCommit, WorkerFail, Settle, WorkerFinish
<1>8. ASSUME NEW w \in Workers, WorkerAbandon(w) \/ WorkerCrash(w) PROVE WorkerOK'
  BY <1>5, <1>8 DEF WorkerAbandon, WorkerCrash
<1> QED
  BY <1>1, <1>6, <1>7, <1>8, WorkerFrame

LEMMA ConsiderTyped ==
  ASSUME ReaperOK, VersionOK, NEW j, NEW st \in VersionStatus
  PROVE  Consider(j, st) \in
    [pc : {reaper.pc}, cutoff : {reaper.cutoff}, live : {reaper.live}, stuck : SUBSET JobIds,
     failing : {reaper.failing}, job : {reaper.job},
     loaded : [Versions -> VersionStatus], memory : [Versions -> VersionStatus]]
<1> DEFINE v == job[j].version
           l == IF reaper.loaded[v] = "absent" THEN version[v].status ELSE reaper.loaded[v]
           loaded == [reaper.loaded EXCEPT ![v] = l]
           memory == [reaper.memory EXCEPT ![v] = st]
           stuck == reaper.stuck \ {j}
<1>1. loaded \in [Versions -> VersionStatus]
  BY DEF ReaperOK, VersionOK
<1>2. memory \in [Versions -> VersionStatus]
  BY DEF ReaperOK
<1>3. stuck \in SUBSET JobIds
  BY DEF ReaperOK
<1>4. Consider(j, st) = [pc |-> reaper.pc, cutoff |-> reaper.cutoff, live |-> reaper.live,
                         stuck |-> stuck, failing |-> reaper.failing, job |-> reaper.job,
                         loaded |-> loaded, memory |-> memory]
  <2>1. Consider(j, st) = [reaper EXCEPT !.stuck = stuck, !.loaded = loaded, !.memory = memory]
    BY DEF Consider, ReaperOK
  <2> HIDE DEF loaded, memory, stuck
  <2> QED
    BY <2>1 DEF ReaperOK
<1> HIDE DEF loaded, memory, stuck
<1> QED
  BY <1>1, <1>2, <1>3, <1>4

LEMMA ReaperTyped == TypeOK /\ [Next]_vars => ReaperOK'
<1> SUFFICES ASSUME TypeOK, [Next]_vars PROVE ReaperOK'
  OBVIOUS
<1>0. ReaperOK /\ VersionOK
  BY DEF TypeOK
<1>1. CASE reaper' = reaper
  BY <1>0, <1>1 DEF ReaperOK
<1>2. CASE reaper' = NoTick
  BY <1>2 DEF ReaperOK, NoTick, VersionStatus
<1>3. ASSUME NEW cutoff \in 0 .. MaxJobs, ReaperScan(cutoff) PROVE ReaperOK'
  <2>1. cutoff \in JobIds \cup {0}
    BY ConstantsAssumption DEF JobIds
  <2>2. Live \in SUBSET Versions
    BY DEF Live
  <2> QED
    BY <1>3, <2>1, <2>2 DEF ReaperScan, ReaperOK, NoTick, VersionStatus
<1>4. CASE ReaperSelect
  BY <1>0, <1>4 DEF ReaperSelect, ReaperOK
<1>5. ASSUME NEW j \in JobIds, ReaperSkip(j) PROVE ReaperOK'
  BY <1>0, <1>5 DEF ReaperSkip, ReaperOK
<1>6. ASSUME NEW j \in JobIds, ReaperExhaust(j) PROVE ReaperOK'
  <2> DEFINE c == Consider(j, "failed")
  <2>1. reaper' = [c EXCEPT !.failing = c.failing \cup {j}]
    BY <1>6 DEF ReaperExhaust
  <2>2. c \in [pc : {reaper.pc}, cutoff : {reaper.cutoff}, live : {reaper.live},
               stuck : SUBSET JobIds, failing : {reaper.failing}, job : {reaper.job},
               loaded : [Versions -> VersionStatus], memory : [Versions -> VersionStatus]]
    BY <1>0, ConsiderTyped DEF VersionStatus
  <2> HIDE DEF c
  <2> QED
    BY <1>0, <2>1, <2>2 DEF ReaperOK
<1>7. ASSUME NEW j \in JobIds, ReaperRequeue(j) PROVE ReaperOK'
  <2> DEFINE c == Consider(j, "pending")
  <2>1. reaper' = [c EXCEPT !.pc = "committing", !.job = j]
    BY <1>7 DEF ReaperRequeue
  <2>2. c \in [pc : {reaper.pc}, cutoff : {reaper.cutoff}, live : {reaper.live},
               stuck : SUBSET JobIds, failing : {reaper.failing}, job : {reaper.job},
               loaded : [Versions -> VersionStatus], memory : [Versions -> VersionStatus]]
    BY <1>0, ConsiderTyped DEF VersionStatus
  <2> HIDE DEF c
  <2> QED
    BY <1>0, <2>1, <2>2 DEF ReaperOK
<1>8. CASE ReaperCommit
  BY <1>0, <1>8 DEF ReaperCommit, ReaperOK
<1>9. CASE ReaperEnqueue
  BY <1>0, <1>9 DEF ReaperEnqueue, ReaperOK
<1> QED
  BY <1>1, <1>2, <1>3, <1>4, <1>5, <1>6, <1>7, <1>8, <1>9, ReaperFrame
  DEF ReaperStep, ReaperEnd, ReaperCrash

LEMMA JobTyped == IInv /\ [Next]_vars => JobOK'
<1> SUFFICES ASSUME IInv, [Next]_vars PROVE JobOK'
  OBVIOUS
<1>0. JobOK /\ RequestOK /\ WorkerOK /\ ReaperOK /\ ReaperSees
  BY DEF IInv, TypeOK
<1>1. CASE job' = job
  BY <1>0, <1>1 DEF JobOK
<1>2. ASSUME NEW j \in JobIds, NEW row \in JobRow, job' = [job EXCEPT ![j] = row]
      PROVE  JobOK'
  BY <1>0, <1>2 DEF JobOK
<1>3. ASSUME NEW v \in Versions \cup {NoVersion}
      PROVE  [status |-> Uncommitted, version |-> v, retry |-> 0] \in JobRow /\ NoRow \in JobRow
  BY ConstantsAssumption DEF JobRow, NoRow
<1>4. ASSUME NEW r \in Requests, Flush(r) PROVE JobOK'
  <2>1. request[r].version \in Versions \cup {NoVersion}
    BY <1>0 DEF RequestOK
  <2> QED
    BY <1>1, <1>2, <1>3, <1>4, <2>1 DEF Flush
<1>5. ASSUME NEW r \in Requests, Commit(r) PROVE JobOK'
  <2>1. \A j \in JobIds : [job[j] EXCEPT !.status = "pending"] \in JobRow
    BY <1>0 DEF JobOK, JobRow
  <2> QED
    BY <1>0, <1>5, <2>1 DEF Commit, JobOK
<1>6. ASSUME NEW r \in Requests, RequestFail(r) PROVE JobOK'
  BY <1>0, <1>3, <1>6 DEF RequestFail, JobOK
<1>7. ASSUME NEW w \in Workers, WorkerAttach(w) PROVE JobOK'
  <2>1. worker[w].version \in Versions \cup {NoVersion}
    BY <1>0 DEF WorkerOK
  <2> QED
    BY <1>1, <1>2, <1>3, <1>7, <2>1 DEF WorkerAttach
<1>8. ASSUME NEW w \in Workers, WorkerCommit(w) \/ WorkerFail(w) PROVE JobOK'
  <2>1. PICK st \in Terminal : job' = [job EXCEPT ![worker[w].job].status = st]
    BY <1>8 DEF WorkerCommit, WorkerFail, Settle, Terminal
  <2>2. CASE worker[w].job \in JobIds
    BY <1>0, <2>1, <2>2 DEF JobOK, JobRow
  <2>3. CASE worker[w].job \notin JobIds
    BY <1>0, <2>1, <2>3 DEF JobOK
  <2> QED
    BY <2>2, <2>3
<1>9. ASSUME NEW w \in Workers, WorkerAbandon(w) \/ WorkerCrash(w) PROVE JobOK'
  <2>1. job' = RolledBack(w)
    BY <1>9 DEF WorkerAbandon, WorkerCrash
  <2>2. NoRow \in JobRow
    BY <1>3
  <2> QED
    BY <1>0, <2>1, <2>2 DEF RolledBack, JobOK
<1>10. CASE ReaperCommit \/ ReaperEnd
  <2>1. job' = [j \in JobIds |->
                 IF j \in reaper.failing THEN [job[j] EXCEPT !.status = "failed"]
                 ELSE IF j = reaper.job THEN [job[j] EXCEPT !.retry = job[j].retry + 1]
                 ELSE job[j]]
    BY <1>10 DEF ReaperCommit, ReaperEnd, ReaperWrite
  <2>2. ASSUME NEW j \in JobIds PROVE job[j] \in JobRow /\ [job[j] EXCEPT !.status = "failed"] \in JobRow
    BY <1>0 DEF JobOK, JobRow, Terminal
  <2>3. ASSUME NEW j \in JobIds, j = reaper.job
        PROVE  [job[j] EXCEPT !.retry = job[j].retry + 1] \in JobRow
    <3>1. job[j].retry \in 0 .. MaxRequeue /\ job[j].retry < MaxRequeue
      BY <1>0, <1>10, <2>3 DEF JobOK, JobRow, ReaperSees, ReaperCommit, ReaperEnd, JobIds
    <3>2. job[j].retry + 1 \in 0 .. MaxRequeue
      BY <3>1, ConstantsAssumption
    <3> QED
      BY <2>2, <3>2 DEF JobRow
  <2> QED
    BY <2>1, <2>2, <2>3 DEF JobOK
<1> QED
  BY <1>1, <1>4, <1>5, <1>6, <1>7, <1>8, <1>9, <1>10, JobFrame

-----------------------------------------------------------------------------
(* Ownership of rows. *)

LEMMA ActionCases ==
  [Next]_vars => \/ UNCHANGED <<job, request, worker>>
                 \/ \E r \in Requests : RequestBegin(r) \/ Flush(r) \/ Commit(r) \/ RequestFail(r)
                 \/ \E w \in Workers :
                      \/ /\ UNCHANGED <<job, request>>
                         /\ \/ WorkerRun(w) \/ WorkerPersist(w) \/ WorkerFinish(w)
                            \/ \E v \in Versions, t \in Tries : WorkerStart(w, v, t)
                      \/ WorkerAttach(w) \/ WorkerCommit(w) \/ WorkerFail(w)
                      \/ WorkerAbandon(w) \/ WorkerCrash(w)
                 \/ RedisLoss \/ ReaperCommit \/ ReaperEnd
  BY DEF Next, RequestStep, WorkerStep, ReaperStep, Fault, vars, InitUpload,
      WorkerStart, WorkerRun, WorkerPersist, WorkerFinish,
      ReaperScan, ReaperSelect, ReaperSkip, ReaperExhaust, ReaperRequeue, ReaperEnqueue,
      ReaperCrash

LEMMA OwnershipStep == IInv /\ [Next]_vars => RowsOwned'
<1> SUFFICES ASSUME IInv, [Next]_vars PROVE RowsOwned'
  OBVIOUS
<1>0. JobOK /\ RequestOK /\ WorkerOK /\ RowsOwned /\ ReaperSees /\ ReaperOK
  BY DEF IInv, TypeOK
<1>1. CASE UNCHANGED <<job, request, worker>>
  BY <1>0, <1>1 DEF RowsOwned, Visible
<1>2. ASSUME NEW r \in Requests, RequestBegin(r) PROVE RowsOwned'
  <2>1. PICK op, v : Load(r, op, v)
    BY <1>2 DEF RequestBegin, CompleteBegin, ReprocessBegin, RollbackBegin, AbortBegin, LinkBegin
  <2>2. request'[r].job = 0 /\ \A o \in Requests \ {r} : request'[o] = request[o]
    BY <1>0, <2>1 DEF RequestOK, Load, NoRequest
  <2> QED
    BY <1>0, <2>1, <2>2 DEF RowsOwned, Visible, Load
<1>3. ASSUME NEW r \in Requests, Flush(r) PROVE RowsOwned'
  <2>0. request[r].job = 0 /\ UNCHANGED worker
    BY <1>0, <1>3 DEF Flush, RowsOwned, RequestOK
  <2>1. CASE request' = [request EXCEPT ![r].pc = "flushed"] /\ UNCHANGED job
    <3>1. request'[r].job = 0 /\ \A o \in Requests \ {r} : request'[o] = request[o]
      BY <1>0, <2>0, <2>1 DEF RequestOK
    <3> QED
      BY <1>0, <2>0, <2>1, <3>1 DEF RowsOwned, Visible
  <2>2. ASSUME NEW j \in JobIds, IsNextJob(j),
               job' = [job EXCEPT ![j] = [status |-> Uncommitted,
                                          version |-> request[r].version, retry |-> 0]],
               request' = [request EXCEPT ![r].pc = "flushed", ![r].job = j,
                 ![r].purge = (request[r].op = "reprocess"
                                 /\ version[request[r].version].chunks)]
        PROVE  RowsOwned'
    <3>1. /\ request'[r].job = j /\ request'[r].pc = "flushed"
          /\ \A o \in Requests \ {r} : request'[o] = request[o]
      BY <1>0, <2>2 DEF RequestOK
    <3>2. /\ job'[j].status = Uncommitted /\ job'[j].retry = 0
          /\ \A k \in JobIds \ {j} : job'[k] = job[k]
      BY <1>0, <2>2 DEF JobOK
    <3>3. /\ job[j].status = "absent" /\ j # 0
          /\ \A o \in Requests : request[o].job # j
          /\ \A w \in Workers : worker[w].job # j
      BY <1>0, <2>2 DEF IsNextJob, JobIds, RowsOwned, Uncommitted
    <3>4. /\ \A o \in Requests : request[o].job \in JobIds \cup {0}
          /\ \A w \in Workers : worker[w].job \in JobIds \cup {0}
      BY <1>0 DEF RequestOK, WorkerOK
    <3> QED
      BY <1>0, <2>0, <3>1, <3>2, <3>3, <3>4 DEF RowsOwned, Visible
  <2> QED
    BY <1>3, <2>1, <2>2 DEF Flush
<1>4. ASSUME NEW r \in Requests, Commit(r) \/ RequestFail(r) PROVE RowsOwned'
  <2> DEFINE j == request[r].job
  <2>1. /\ request'[r].job = 0 /\ \A o \in Requests \ {r} : request'[o] = request[o]
        /\ UNCHANGED worker
    BY <1>0, <1>4 DEF Commit, RequestFail, RequestOK, NoRequest
  <2>2. /\ j \in JobIds \cup {0}
        /\ \A o \in Requests : request[o].job \in JobIds \cup {0}
        /\ \A w \in Workers : worker[w].job \in JobIds \cup {0}
    BY <1>0 DEF RequestOK, WorkerOK
  <2>3. /\ \A k \in JobIds \ {j} : job'[k] = job[k]
        /\ j # 0 => \/ job'[j].status = "pending"
                    \/ job'[j].status = "absent" /\ job'[j].retry = 0
    <3>1. CASE Commit(r)
      <4>1. job' = [k \in JobIds |-> IF k = j THEN [job[k] EXCEPT !.status = "pending"]
                                    ELSE job[k]]
        BY <3>1 DEF Commit
      <4>2. j \in JobIds => job[j] \in JobRow
        BY <1>0 DEF JobOK
      <4>3. j # 0 => job'[j].status = "pending"
        BY <2>2, <4>1, <4>2 DEF JobRow
      <4>4. QED
        BY <4>1, <4>3
    <3>2. CASE RequestFail(r)
      <4>1. job' = [k \in JobIds |-> IF k = j THEN NoRow ELSE job[k]]
        BY <3>2 DEF RequestFail
      <4>2. QED
        BY <2>2, <4>1 DEF NoRow
    <3>3. QED
      BY <1>4, <3>1, <3>2
  <2>4. CASE j = 0
    <3>1. \A k \in JobIds : job'[k] = job[k]
      BY <2>3, <2>4 DEF JobIds
    <3> QED
      BY <1>0, <2>1, <2>2, <3>1 DEF RowsOwned, Visible
  <2>5. CASE j # 0
    <3>1. /\ \A o \in Requests \ {r} : request[o].job # j
          /\ \A w \in Workers : worker[w].job # j
      BY <1>0, <2>5 DEF RowsOwned
    <3> HIDE DEF j
    <3> QED
      BY <1>0, <2>1, <2>2, <2>3, <2>5, <3>1 DEF RowsOwned, Visible, Terminal
  <2> QED
    BY <2>4, <2>5
<1>5. ASSUME NEW w \in Workers, UNCHANGED <<job, request>>,
             \/ WorkerRun(w) \/ WorkerPersist(w) \/ WorkerFinish(w)
             \/ \E v \in Versions, t \in Tries : WorkerStart(w, v, t)
      PROVE  RowsOwned'
  <2>1. \/ worker' = worker
        \/ \E pc \in {"running", "persisted"} :
             /\ worker[w].pc \in {"attached", "running"}
             /\ worker' = [worker EXCEPT ![w].pc = pc]
        \/ \E v \in Versions, t \in Tries : worker' = [worker EXCEPT ![w] =
                                 [NoTask EXCEPT !.pc = "downloading", !.version = v, !.try = t,
                                                !.live = TRUE]]
        \/ worker' = [worker EXCEPT ![w] = NoTask]
    BY <1>5 DEF WorkerRun, WorkerPersist, WorkerFinish, WorkerStart
  <2>2. /\ \A x \in Workers \ {w} : worker'[x] = worker[x]
        /\ \/ worker'[w].job = 0 /\ worker'[w].pc \in {"idle", "downloading"}
           \/ worker'[w].job = worker[w].job /\ worker[w].job # 0
           \/ worker'[w] = worker[w]
    <3>1. CASE worker' = worker
      BY <3>1
    <3>2. ASSUME NEW pc \in {"running", "persisted"},
                 worker[w].pc \in {"attached", "running"},
                 worker' = [worker EXCEPT ![w].pc = pc]
          PROVE  (\A x \in Workers \ {w} : worker'[x] = worker[x]) /\ worker'[w].job = worker[w].job /\ worker[w].job # 0
      BY <1>0, <3>2 DEF WorkerOK, RowsOwned
    <3>3. ASSUME NEW v \in Versions, NEW t \in Tries,
                 worker' = [worker EXCEPT ![w] = [NoTask EXCEPT
                              !.pc = "downloading", !.version = v, !.try = t, !.live = TRUE]]
          PROVE  /\ \A x \in Workers \ {w} : worker'[x] = worker[x]
                 /\ worker'[w].job = 0 /\ worker'[w].pc = "downloading"
      BY <1>0, <3>3 DEF WorkerOK, NoTask
    <3>4. ASSUME worker' = [worker EXCEPT ![w] = NoTask]
          PROVE  /\ \A x \in Workers \ {w} : worker'[x] = worker[x]
                 /\ worker'[w].job = 0 /\ worker'[w].pc = "idle"
      BY <1>0, <3>4 DEF WorkerOK, NoTask
    <3> QED
      BY <2>1, <3>1, <3>2, <3>3, <3>4
  <2>3. CASE worker'[w].job = 0 /\ worker'[w].pc \in {"idle", "downloading"}
    BY <1>0, <1>5, <2>2, <2>3 DEF RowsOwned, Visible
  <2>4. CASE worker'[w].job = worker[w].job /\ (worker[w].job # 0 \/ worker'[w] = worker[w])
    <3>1. \A x \in Workers : worker'[x].job = worker[x].job
      BY <2>2, <2>4
    <3>2. \A x \in Workers : worker'[x].pc \in {"attached", "running", "persisted"}
                               => worker'[x].job # 0
      BY <1>0, <2>2, <2>4 DEF RowsOwned
    <3> QED
      BY <1>0, <1>5, <3>1, <3>2 DEF RowsOwned, Visible
  <2> QED
    BY <2>2, <2>3, <2>4
<1>6. ASSUME NEW w \in Workers, WorkerAttach(w) PROVE RowsOwned'
  <2>1. PICK j \in JobIds :
          /\ worker' = [worker EXCEPT ![w].pc = "attached", ![w].job = j]
          /\ \/ job[j].status = "pending" /\ UNCHANGED job
             \/ IsNextJob(j) /\ job' = [job EXCEPT ![j] = [status |-> Uncommitted,
                                          version |-> worker[w].version, retry |-> 0]]
    <3>1. ASSUME NEW j \in Open(worker[w].version)
          PROVE  j \in JobIds /\ job[j].status = "pending"
      BY DEF Open, JobsOf
    <3> QED
      BY <1>6, <3>1 DEF WorkerAttach
  <2>2. /\ worker'[w].job = j /\ j # 0 /\ UNCHANGED request
        /\ \A x \in Workers \ {w} : worker'[x] = worker[x]
    <3>1. j # 0
      BY DEF JobIds
    <3> QED
      BY <1>0, <1>6, <2>1, <3>1, ZenonT(30) DEF WorkerOK, WorkerAttach
  <2>3. /\ \A k \in JobIds \ {j} : job'[k] = job[k]
        /\ \/ job[j].status = "pending" /\ job'[j] = job[j]
           \/ /\ job[j].status = "absent"
              /\ job'[j].status = Uncommitted /\ job'[j].retry = 0
    <3>1. IsNextJob(j) => job[j].status = "absent"
      BY DEF IsNextJob, JobIds
    <3>2. CASE job[j].status = "pending" /\ UNCHANGED job
      BY <3>2
    <3>3. CASE IsNextJob(j) /\ job' = [job EXCEPT ![j] = [status |-> Uncommitted,
                                          version |-> worker[w].version, retry |-> 0]]
      BY <1>0, <3>1, <3>3 DEF JobOK
    <3> QED
      BY <2>1, <3>1, <3>2, <3>3
  <2>4. /\ \A r \in Requests : request[r].job # j /\ request[r].job \in JobIds \cup {0}
        /\ \A x \in Workers : worker[x].job \in JobIds \cup {0}
    BY <1>0, <2>2, <2>3 DEF RowsOwned, RequestOK, WorkerOK, Uncommitted
  <2>5. job[j].status = "absent" => \A x \in Workers : worker[x].job # j
    BY <1>0, <2>2 DEF RowsOwned
  <2> QED
    BY <1>0, <2>2, <2>3, <2>4, <2>5 DEF RowsOwned, Visible, Uncommitted
<1>7. ASSUME NEW w \in Workers, WorkerCommit(w) \/ WorkerFail(w) PROVE RowsOwned'
  <2> DEFINE j == worker[w].job
  <2>1. j \in JobIds
    BY <1>0, <1>7 DEF WorkerOK, RowsOwned, WorkerCommit, WorkerFail, InTransaction
  <2>2. /\ job'[j].status \in Terminal /\ job'[j].retry = job[j].retry
        /\ \A k \in JobIds \ {j} : job'[k] = job[k]
    <3>1. PICK st \in Terminal : job' = [job EXCEPT ![j].status = st]
      BY <1>7 DEF WorkerCommit, WorkerFail, Settle, Terminal
    <3> QED
      BY <1>0, <2>1, <3>1 DEF JobOK, JobRow
  <2>3. /\ worker'[w].job = j /\ worker'[w].pc = "notifying" /\ UNCHANGED request
        /\ \A x \in Workers \ {w} : worker'[x] = worker[x]
    BY <1>0, <1>7, ZenonT(30) DEF WorkerCommit, WorkerFail, Settle, WorkerOK
  <2>4. /\ \A r \in Requests : request[r].job # j /\ request[r].job \in JobIds \cup {0}
        /\ \A x \in Workers : worker[x].job \in JobIds \cup {0}
        /\ j # 0
    BY <1>0, <2>1 DEF RowsOwned, RequestOK, WorkerOK, JobIds
  <2> QED
    BY <1>0, <2>2, <2>3, <2>4 DEF RowsOwned, Visible, Terminal
<1>8. ASSUME NEW w \in Workers, WorkerAbandon(w) \/ WorkerCrash(w) PROVE RowsOwned'
  <2> DEFINE j == worker[w].job
  <2>1. /\ worker'[w] = NoTask /\ UNCHANGED request
        /\ \A x \in Workers \ {w} : worker'[x] = worker[x]
    BY <1>0, <1>8 DEF WorkerAbandon, WorkerCrash, WorkerOK
  <2>2. \A k \in JobIds : \/ job'[k] = job[k]
                          \/ k = j /\ job[k].status = Uncommitted /\ job'[k] = NoRow
    BY <1>0, <1>8 DEF WorkerAbandon, WorkerCrash, RolledBack
  <2>3. /\ \A r \in Requests : request[r].job \in JobIds \cup {0}
        /\ \A x \in Workers : worker[x].job \in JobIds \cup {0}
    BY <1>0 DEF RequestOK, WorkerOK
  <2> QED
    BY <1>0, <2>1, <2>2, <2>3 DEF RowsOwned, Visible, Uncommitted, NoRow, NoTask, Terminal
<1>9. CASE RedisLoss
  <2>1. /\ UNCHANGED <<job, request>>
        /\ \A w \in Workers : worker'[w].job = worker[w].job /\ worker'[w].pc = worker[w].pc
    BY <1>0, <1>9 DEF RedisLoss, WorkerOK
  <2> QED
    BY <1>0, <2>1 DEF RowsOwned, Visible
<1>10. CASE ReaperCommit \/ ReaperEnd
  <2>1. /\ UNCHANGED <<request, worker>>
        /\ \A j \in JobIds : IF Visible(j) THEN job'[j].status \in Terminal \cup {"pending"}
                             ELSE job'[j] = job[j]
    <3>1. /\ UNCHANGED <<request, worker>>
          /\ job' = [j \in JobIds |->
                 IF j \in reaper.failing THEN [job[j] EXCEPT !.status = "failed"]
                 ELSE IF j = reaper.job THEN [job[j] EXCEPT !.retry = job[j].retry + 1]
                 ELSE job[j]]
      BY <1>10 DEF ReaperCommit, ReaperEnd, ReaperWrite
    <3>2. ASSUME NEW j \in JobIds
          PROVE  /\ j \in reaper.failing \/ j = reaper.job => Visible(j)
                 /\ [job[j] EXCEPT !.status = "failed"].status = "failed"
                 /\ [job[j] EXCEPT !.retry = job[j].retry + 1].status = job[j].status
      BY <1>0 DEF ReaperSees, JobIds, JobOK, JobRow
    <3> QED
      BY <3>1, <3>2 DEF Visible, Terminal
  <2>2. /\ \A r \in Requests : request[r].job \in JobIds \cup {0}
        /\ \A w \in Workers : worker[w].job \in JobIds \cup {0}
    BY <1>0 DEF RequestOK, WorkerOK
  <2> QED
    BY <1>0, <2>1, <2>2 DEF RowsOwned, Visible, Terminal, Uncommitted
<1> QED
  BY <1>1, <1>2, <1>3, <1>4, <1>5, <1>6, <1>7, <1>8, <1>9, <1>10, ActionCases

-----------------------------------------------------------------------------
(* What one step may do to a job row. *)

LEMMA StatusStep ==
  IInv /\ [Next]_vars =>
    \A j \in JobIds : Visible(j) => /\ job'[j].status \in {"pending"} \cup Terminal
                                    /\ job[j].status \in Terminal => job'[j].status \in Terminal
<1> SUFFICES ASSUME IInv, [Next]_vars, NEW j \in JobIds, Visible(j)
    PROVE  /\ job'[j].status \in {"pending"} \cup Terminal
           /\ job[j].status \in Terminal => job'[j].status \in Terminal
  OBVIOUS
<1>0. JobOK /\ RequestOK /\ WorkerOK /\ RowsOwned
  BY DEF IInv, TypeOK
<1>1. CASE job'[j].status = job[j].status
  BY <1>1 DEF Visible
<1>2. ASSUME NEW k, IsNextJob(k), NEW row, job' = [job EXCEPT ![k] = row]
      PROVE  job'[j] = job[j]
  <2>1. k # j
    BY <1>2 DEF IsNextJob, Visible, Terminal, JobIds
  <2> QED
    BY <1>0, <1>2, <2>1 DEF JobOK
<1>3. ASSUME NEW r \in Requests, Flush(r) \/ Commit(r) \/ RequestFail(r)
      PROVE  job'[j] = job[j]
  <2>1. j # request[r].job
    BY <1>0 DEF RowsOwned, Visible, Terminal, Uncommitted, JobIds
  <2>2. CASE Flush(r)
    BY <1>2, <2>2 DEF Flush
  <2> QED
    BY <1>3, <2>1, <2>2 DEF Commit, RequestFail
<1>4. ASSUME NEW w \in Workers, WorkerAttach(w) PROVE job'[j] = job[j]
  BY <1>2, <1>4 DEF WorkerAttach
<1>5. ASSUME NEW w \in Workers, WorkerCommit(w) \/ WorkerFail(w)
      PROVE  job'[j].status = job[j].status \/ job'[j].status \in Terminal
  <2>1. PICK st \in Terminal : job' = [job EXCEPT ![worker[w].job].status = st]
    BY <1>5 DEF WorkerCommit, WorkerFail, Settle, Terminal
  <2> QED
    BY <1>0, <2>1 DEF JobOK, JobRow
<1>6. ASSUME NEW w \in Workers, WorkerAbandon(w) \/ WorkerCrash(w) PROVE job'[j] = job[j]
  BY <1>6 DEF WorkerAbandon, WorkerCrash, RolledBack, Visible, Terminal, Uncommitted
<1>7. CASE ReaperCommit \/ ReaperEnd
  <2>1. \/ job'[j] = job[j]
        \/ job'[j] = [job[j] EXCEPT !.status = "failed"]
        \/ job'[j] = [job[j] EXCEPT !.retry = job[j].retry + 1]
    BY <1>7 DEF ReaperCommit, ReaperEnd, ReaperWrite
  <2> QED
    BY <1>0, <2>1 DEF JobOK, JobRow, Visible, Terminal
<1> QED
  BY <1>1, <1>3, <1>4, <1>5, <1>6, <1>7, JobFrame DEF Terminal

LEMMA RetryStep ==
  IInv /\ [Next]_vars =>
    \/ \A j \in JobIds : job'[j].retry = job[j].retry
    \/ ReaperCommit /\ \E j \in JobIds :
                         /\ Visible(j) /\ job[j].retry < MaxRequeue
                         /\ job'[j].retry = job[j].retry + 1
                         /\ \A k \in JobIds \ {j} : job'[k].retry = job[k].retry
<1> SUFFICES ASSUME IInv, [Next]_vars
    PROVE  \/ \A j \in JobIds : job'[j].retry = job[j].retry
           \/ ReaperCommit /\ \E j \in JobIds :
                                /\ Visible(j) /\ job[j].retry < MaxRequeue
                                /\ job'[j].retry = job[j].retry + 1
                                /\ \A k \in JobIds \ {j} : job'[k].retry = job[k].retry
  OBVIOUS
<1> DEFINE Same == \A j \in JobIds : job'[j].retry = job[j].retry
<1>0. JobOK /\ RequestOK /\ WorkerOK /\ RowsOwned /\ ReaperSees /\ ReaperOK
  BY DEF IInv, TypeOK
<1>1. CASE job' = job
  BY <1>1
<1>2. ASSUME NEW k \in JobIds, IsNextJob(k), NEW v,
             job' = [job EXCEPT ![k] = [status |-> Uncommitted, version |-> v, retry |-> 0]]
      PROVE  Same
  <2>1. job[k].retry = 0
    BY <1>0, <1>2 DEF IsNextJob, RowsOwned, Visible, Terminal, JobIds
  <2> QED
    BY <1>0, <1>2, <2>1 DEF JobOK
<1>3. ASSUME NEW r \in Requests, Flush(r) PROVE Same
  BY <1>1, <1>2, <1>3 DEF Flush
<1>4. ASSUME NEW r \in Requests, Commit(r) PROVE Same
  BY <1>0, <1>4 DEF Commit, JobOK, JobRow
<1>5. ASSUME NEW r \in Requests, RequestFail(r) PROVE Same
  <2>1. request[r].job \in JobIds => job[request[r].job].retry = 0
    BY <1>0 DEF RowsOwned, Visible, Terminal, Uncommitted, JobIds
  <2> QED
    BY <1>5, <2>1 DEF RequestFail, NoRow
<1>6. ASSUME NEW w \in Workers, WorkerAttach(w) PROVE Same
  BY <1>1, <1>2, <1>6 DEF WorkerAttach
<1>7. ASSUME NEW w \in Workers, WorkerCommit(w) \/ WorkerFail(w) PROVE Same
  <2>1. PICK st \in Terminal : job' = [job EXCEPT ![worker[w].job].status = st]
    BY <1>7 DEF WorkerCommit, WorkerFail, Settle, Terminal
  <2> QED
    BY <1>0, <2>1 DEF JobOK, JobRow
<1>8. ASSUME NEW w \in Workers, WorkerAbandon(w) \/ WorkerCrash(w) PROVE Same
  BY <1>0, <1>8
  DEF WorkerAbandon, WorkerCrash, RolledBack, RowsOwned, Visible, Terminal, Uncommitted, NoRow
<1>9. ASSUME ReaperCommit \/ ReaperEnd
      PROVE  \A j \in JobIds : job'[j].retry = IF j \notin reaper.failing /\ j = reaper.job
                                                 THEN job[j].retry + 1 ELSE job[j].retry
  <2>1. ASSUME NEW j \in JobIds
        PROVE  /\ [job[j] EXCEPT !.status = "failed"].retry = job[j].retry
               /\ [job[j] EXCEPT !.retry = job[j].retry + 1].retry = job[j].retry + 1
    BY <1>0 DEF JobOK, JobRow
  <2>2. job' = [j \in JobIds |->
                 IF j \in reaper.failing THEN [job[j] EXCEPT !.status = "failed"]
                 ELSE IF j = reaper.job THEN [job[j] EXCEPT !.retry = job[j].retry + 1]
                 ELSE job[j]]
    BY <1>9 DEF ReaperCommit, ReaperEnd, ReaperWrite
  <2> QED
    BY <2>1, <2>2
<1>10. CASE ReaperEnd
  BY <1>0, <1>9, <1>10 DEF ReaperEnd, ReaperSees, JobIds
<1>11. CASE ReaperCommit
  <2>1. /\ reaper.job \in JobIds /\ Visible(reaper.job) /\ job[reaper.job].retry < MaxRequeue
    BY <1>0, <1>11 DEF ReaperCommit, ReaperSees, ReaperOK
  <2> QED
    BY <1>9, <1>11, <2>1
<1> QED
  BY <1>1, <1>3, <1>4, <1>5, <1>6, <1>7, <1>8, <1>10, <1>11, JobFrame

LEMMA ReaperSeesStep == IInv /\ [Next]_vars => ReaperSees'
<1> SUFFICES ASSUME IInv, [Next]_vars PROVE ReaperSees'
  OBVIOUS
<1>0. ReaperOK /\ ReaperSees
  BY DEF IInv, TypeOK
<1>1. \A j \in JobIds : Visible(j) => Visible(j)'
  BY StatusStep DEF Visible, JobIds
<1>2. CASE ReaperCommit
  BY <1>0, <1>1, <1>2 DEF ReaperCommit, ReaperOK, ReaperSees
<1>3. CASE reaper' = NoTick
  BY <1>3 DEF ReaperSees, NoTick
<1>4. CASE ~ReaperCommit
  <2>1. \A j \in JobIds : job'[j].retry = job[j].retry
    BY <1>4, RetryStep
  <2>2. CASE reaper' = reaper
    BY <1>0, <1>1, <2>1, <2>2 DEF ReaperSees, ReaperOK
  <2>3. ASSUME NEW cutoff, ReaperScan(cutoff) PROVE ReaperSees'
    BY <2>3 DEF ReaperScan, ReaperSees, NoTick
  <2>4. CASE ReaperSelect
    <3>1. \A j \in JobIds : job[j].status = "pending" => Visible(j)'
      BY <1>1 DEF Visible
    <3>2. /\ reaper' = [reaper EXCEPT !.pc = "walking", !.cutoff = 0,
                !.stuck = {j \in JobIds : j <= reaper.cutoff /\ job[j].status = "pending"}]
          /\ reaper.pc = "scanned"
      BY <2>4 DEF ReaperSelect
    <3> QED
      BY <1>0, <1>1, <3>1, <3>2 DEF ReaperOK, ReaperSees
  <2>5. ASSUME NEW j \in JobIds, ReaperSkip(j) PROVE ReaperSees'
    BY <1>0, <1>1, <2>5 DEF ReaperSkip, ReaperOK, ReaperSees
  <2>6. ASSUME NEW j \in JobIds, ReaperExhaust(j) PROVE ReaperSees'
    <3>1. /\ reaper'.stuck = reaper.stuck \ {j} /\ reaper'.failing = reaper.failing \cup {j}
          /\ reaper'.job = reaper.job /\ reaper'.pc = reaper.pc
          /\ reaper.pc = "walking" /\ j \in reaper.stuck
      BY <1>0, <2>6 DEF ReaperExhaust, Consider, ReaperOK
    <3> QED
      BY <1>0, <1>1, <3>1 DEF ReaperOK, ReaperSees
  <2>7. ASSUME NEW j \in JobIds, ReaperRequeue(j) PROVE ReaperSees'
    <3>1. /\ reaper'.stuck = reaper.stuck \ {j} /\ reaper'.failing = reaper.failing
          /\ reaper'.job = j /\ reaper'.pc = "committing"
          /\ j \in reaper.stuck /\ job[j].retry < MaxRequeue
      BY <1>0, <2>7 DEF ReaperRequeue, Consider, ReaperOK
    <3>2. Visible(reaper.job)' /\ (job[reaper.job].retry < MaxRequeue)'
      BY <1>0, <1>1, <2>1, <3>1 DEF ReaperSees, Visible
    <3>3. reaper'.job # 0
      BY <3>1 DEF JobIds
    <3>4. \A k \in reaper'.stuck \cup reaper'.failing : Visible(k)'
      BY <1>0, <1>1, <3>1 DEF ReaperOK, ReaperSees
    <3> QED
      BY <3>1, <3>2, <3>3, <3>4 DEF ReaperSees
  <2>8. CASE ReaperEnqueue
    BY <1>0, <1>1, <2>8 DEF ReaperEnqueue, ReaperOK, ReaperSees
  <2> QED
    BY <1>3, <1>4, <2>2, <2>3, <2>4, <2>5, <2>6, <2>7, <2>8, ReaperFrame
    DEF ReaperStep, ReaperEnd, ReaperCrash
<1> QED
  BY <1>2, <1>4

LEMMA FaultsTyped == TypeOK /\ [Next]_vars => (faults \in 0 .. MaxFaults)'
  BY ConstantsAssumption, FaultFrame DEF TypeOK

-----------------------------------------------------------------------------
LEMMA IInvStep == IInv /\ [Next]_vars => IInv'
  BY VersionTyped, JobTyped, QueueTyped, RequestTyped, WorkerTyped, ReaperTyped, FaultsTyped,
     OwnershipStep, ReaperSeesStep
  DEF IInv, TypeOK

\* The strengthened invariant: the types, the single owner of every uncommitted
\* row, and a reaper that only works on rows it can see.
THEOREM Invariance == Spec => []IInv
<1>1. Init => IInv
  BY InitIInv
<1>2. IInv /\ [Next]_vars => IInv'
  BY IInvStep
<1> QED
  BY <1>1, <1>2, PTL DEF Spec

\* Every variable keeps its type, for any number of versions, requests, workers
\* and rows; in particular retry_count never exceeds _MAX_REQUEUE_ATTEMPTS.
THEOREM TypeCorrect == Spec => []TypeOK
<1>1. IInv => TypeOK
  BY DEF IInv
<1> QED
  BY <1>1, Invariance, PTL

-----------------------------------------------------------------------------
(* The refinement of JobLedger. *)

LEMMA LedgerStep == IInv /\ [Next]_vars => [Ledger!Next]_(Ledger!vars)
<1> SUFFICES ASSUME IInv, [Next]_vars PROVE Ledger!Write
  BY DEF Ledger!Next
<1>0. JobOK /\ JobOK'
  BY JobTyped DEF IInv, TypeOK
<1>1. ASSUME NEW j \in JobIds
      PROVE  LedgerRow(j)' \in {"none", "open", "settled"}
             /\ Ledger!MayBecome(LedgerRow(j), LedgerRow(j)')
  <2>1. /\ Visible(j) => job'[j].status \in {"pending"} \cup Terminal
        /\ Visible(j) /\ job[j].status \in Terminal => job'[j].status \in Terminal
    BY StatusStep
  <2>2. /\ job[j].status \in {"absent", Uncommitted, "pending"} \cup Terminal
        /\ job'[j].status \in {"absent", Uncommitted, "pending"} \cup Terminal
    BY <1>0 DEF JobOK, JobRow
  <2> QED
    BY <2>1, <2>2 DEF LedgerRow, Visible, Terminal, Uncommitted, Ledger!MayBecome
<1>2. \/ [j \in JobIds |-> job[j].retry]' = [j \in JobIds |-> job[j].retry]
      \/ \E j \in JobIds : /\ LedgerRow(j) # "none"
                           /\ job[j].retry < MaxRequeue
                           /\ [k \in JobIds |-> job[k].retry]' =
                              [[k \in JobIds |-> job[k].retry] EXCEPT ![j] = job[j].retry + 1]
  <2>1. CASE \A j \in JobIds : job'[j].retry = job[j].retry
    BY <2>1
  <2>2. ASSUME NEW j \in JobIds, Visible(j), job[j].retry < MaxRequeue,
               job'[j].retry = job[j].retry + 1,
               \A k \in JobIds \ {j} : job'[k].retry = job[k].retry
        PROVE  /\ LedgerRow(j) # "none"
               /\ [k \in JobIds |-> job[k].retry]' =
                  [[k \in JobIds |-> job[k].retry] EXCEPT ![j] = job[j].retry + 1]
    BY <2>2 DEF LedgerRow, Visible, Terminal, Uncommitted
  <2> QED
    BY <2>1, <2>2, RetryStep
<1>3. ASSUME NEW j \in JobIds
      PROVE  /\ [k \in JobIds |-> LedgerRow(k)][j] = LedgerRow(j)
             /\ [k \in JobIds |-> LedgerRow(k)]'[j] = LedgerRow(j)'
             /\ [k \in JobIds |-> job[k].retry][j] = job[j].retry
  OBVIOUS
<1>4. [k \in JobIds |-> LedgerRow(k)]' \in [JobIds -> {"none", "open", "settled"}]
  BY <1>1
<1> QED
  BY <1>1, <1>2, <1>3, <1>4 DEF Ledger!Write

\* The processing_jobs table implements the ledger: no commit reopens a settled
\* row and no row is re-enqueued more than _MAX_REQUEUE_ATTEMPTS times.
THEOREM Refinement == Spec => LedgerSpec
<1>1. Init => Ledger!Init
  BY DEF Init, Ledger!Init, LedgerRow, NoRow, Uncommitted
<1>2. IInv /\ [Next]_vars => [Ledger!Next]_(Ledger!vars)
  BY LedgerStep
<1> QED
  BY <1>1, <1>2, Invariance, PTL DEF Spec, LedgerSpec, Ledger!Spec
-----------------------------------------------------------------------------
(* Ready versions stay searchable *)

\* A transaction's row is a row of its version, and only a request that opened a row
\* deletes chunks.
RowsNamed ==
    /\ \A r \in Requests : request[r].job # 0 => job[request[r].job].version = request[r].version
    /\ \A r \in Requests : request[r].purge => request[r].job # 0
    /\ \A w \in Workers : worker[w].job # 0 => job[worker[w].job].version = worker[w].version

\* The reaper assigns no other status, and a tick starts with nothing loaded.
TickLoads ==
    /\ \A v \in Versions : reaper.memory[v] \in {"absent", "pending", "failed"}
    /\ reaper.pc = "scanned" =>
         /\ reaper.failing = {}
         /\ \A v \in Versions : reaper.loaded[v] = "absent" /\ reaper.memory[v] = "absent"

\* A row of v that is open stays open, or whoever settles it writes the status of v:
\* the tick leaves it alone, or has not loaded v, or has loaded it as ready, so that
\* what it assigns differs from what it loaded.
Rebuilt(v) ==
    \/ \E j \in Open(v) : j \notin reaper.stuck \cup reaper.failing
    \/ /\ Open(v) # {}
       /\ \/ /\ reaper.loaded[v] = "absent" /\ reaper.memory[v] = "absent"
             /\ Open(v) \cap reaper.failing = {}
          \/ reaper.loaded[v] = "ready"

Searchable ==
    \A v \in Versions : version[v].status = "ready" /\ ~version[v].chunks => Rebuilt(v)

LEMMA InitSearchable == Init => RowsNamed /\ TickLoads /\ Searchable
  BY DEF Init, RowsNamed, TickLoads, Searchable, NoRequest, NoTask, NoTick

\* Rows keep their version unless they are rolled back, which only their owner does.
LEMMA RowsNamedStep == IInv /\ RowsNamed /\ [Next]_vars => RowsNamed'
<1> SUFFICES ASSUME IInv, RowsNamed, [Next]_vars PROVE RowsNamed'
  OBVIOUS
<1>0. JobOK /\ RequestOK /\ WorkerOK /\ RowsOwned /\ ReaperSees /\ ReaperOK
  BY DEF IInv, TypeOK
<1>10. /\ \A o \in Requests : request[o].job \in JobIds \cup {0}
       /\ \A w \in Workers : worker[w].job \in JobIds \cup {0}
       /\ 0 \notin JobIds
  BY <1>0 DEF RequestOK, WorkerOK, JobIds
<1>1. CASE UNCHANGED <<job, request, worker>>
  BY <1>1 DEF RowsNamed
<1>2. ASSUME NEW r \in Requests, RequestBegin(r) PROVE RowsNamed'
  <2>1. PICK op, v : Load(r, op, v)
    BY <1>2 DEF RequestBegin, CompleteBegin, ReprocessBegin, RollbackBegin, AbortBegin, LinkBegin
  <2>2. /\ request'[r].job = 0 /\ ~request'[r].purge
        /\ \A o \in Requests \ {r} : request'[o] = request[o]
    BY <1>0, <2>1 DEF RequestOK, Load, NoRequest
  <2> QED
    BY <2>1, <2>2 DEF RowsNamed, Load
<1>3. ASSUME NEW r \in Requests, Flush(r) PROVE RowsNamed'
  <2>0. UNCHANGED worker
    BY <1>3 DEF Flush
  <2>1. CASE request' = [request EXCEPT ![r].pc = "flushed"] /\ UNCHANGED job
    <3>1. \A o \in Requests : /\ request'[o].job = request[o].job
                              /\ request'[o].version = request[o].version
                              /\ request'[o].purge = request[o].purge
      BY <1>0, <2>1 DEF RequestOK
    <3> QED
      BY <1>10, <2>0, <2>1, <3>1 DEF RowsNamed
  <2>2. ASSUME NEW j \in JobIds, IsNextJob(j),
               job' = [job EXCEPT ![j] = [status |-> Uncommitted,
                                          version |-> request[r].version, retry |-> 0]],
               request' = [request EXCEPT ![r].pc = "flushed", ![r].job = j,
                 ![r].purge = (request[r].op = "reprocess"
                                 /\ version[request[r].version].chunks)]
        PROVE  RowsNamed'
    <3>1. /\ request'[r].job = j /\ request'[r].version = request[r].version
          /\ \A o \in Requests \ {r} : request'[o] = request[o]
      BY <1>0, <2>2 DEF RequestOK
    <3>2. /\ job'[j].version = request[r].version
          /\ \A k \in JobIds \ {j} : job'[k] = job[k]
      BY <1>0, <2>2 DEF JobOK
    <3>3. /\ \A o \in Requests : request[o].job # j
          /\ \A w \in Workers : worker[w].job # j
      BY <1>0, <2>2 DEF IsNextJob, JobIds, RowsOwned, Uncommitted
    <3> QED
      BY <1>10, <2>0, <3>1, <3>2, <3>3 DEF RowsNamed
  <2> QED
    BY <1>3, <2>1, <2>2 DEF Flush
<1>4. ASSUME NEW r \in Requests, Commit(r) \/ RequestFail(r) PROVE RowsNamed'
  <2>1. /\ request'[r].job = 0 /\ ~request'[r].purge /\ UNCHANGED worker
        /\ \A o \in Requests \ {r} : request'[o] = request[o]
    BY <1>0, <1>4 DEF Commit, RequestFail, RequestOK, NoRequest
  <2>2. \A k \in JobIds : k # request[r].job => job'[k] = job[k]
    BY <1>4 DEF Commit, RequestFail
  <2>3. request[r].job # 0 => /\ \A o \in Requests \ {r} : request[o].job # request[r].job
                              /\ \A w \in Workers : worker[w].job # request[r].job
    BY <1>0 DEF RowsOwned
  <2> QED
    BY <1>10, <2>1, <2>2, <2>3 DEF RowsNamed
<1>5. ASSUME NEW w \in Workers, UNCHANGED <<job, request>>,
             \/ WorkerRun(w) \/ WorkerPersist(w) \/ WorkerFinish(w)
             \/ \E v \in Versions, t \in Tries : WorkerStart(w, v, t)
      PROVE  RowsNamed'
  <2>1. /\ \A x \in Workers \ {w} : worker'[x] = worker[x]
        /\ \/ worker'[w].job = 0
           \/ worker'[w].job = worker[w].job /\ worker'[w].version = worker[w].version
    <3>1. ASSUME NEW v \in Versions, NEW t \in Tries, WorkerStart(w, v, t)
          PROVE  /\ \A x \in Workers \ {w} : worker'[x] = worker[x]
                 /\ worker'[w].job = 0 \/ worker'[w] = worker[w]
      BY <1>0, <3>1 DEF WorkerOK, NoTask, WorkerStart
    <3>2. CASE WorkerRun(w) \/ WorkerPersist(w)
      BY <1>0, <3>2 DEF WorkerOK, WorkerRun, WorkerPersist
    <3>3. CASE WorkerFinish(w)
      BY <1>0, <3>3 DEF WorkerOK, NoTask, WorkerFinish
    <3> QED
      BY <1>5, <3>1, <3>2, <3>3
  <2> QED
    BY <1>5, <2>1 DEF RowsNamed
<1>6. ASSUME NEW w \in Workers, WorkerAttach(w) PROVE RowsNamed'
  <2>1. PICK j \in JobIds :
          /\ worker' = [worker EXCEPT ![w].pc = "attached", ![w].job = j]
          /\ \/ job[j].version = worker[w].version /\ UNCHANGED job
             \/ IsNextJob(j) /\ job' = [job EXCEPT ![j] = [status |-> Uncommitted,
                                          version |-> worker[w].version, retry |-> 0]]
    <3>1. ASSUME NEW j \in Open(worker[w].version)
          PROVE  j \in JobIds /\ job[j].version = worker[w].version
      BY DEF Open, JobsOf
    <3> QED
      BY <1>6, <3>1 DEF WorkerAttach
  <2>2. /\ worker'[w].job = j /\ worker'[w].version = worker[w].version
        /\ \A x \in Workers \ {w} : worker'[x] = worker[x]
    BY <1>0, <2>1 DEF WorkerOK
  <2>3. CASE job[j].version = worker[w].version /\ UNCHANGED job
    BY <1>6, <2>2, <2>3 DEF RowsNamed, WorkerAttach
  <2>4. CASE IsNextJob(j) /\ job' = [job EXCEPT ![j] = [status |-> Uncommitted,
                                          version |-> worker[w].version, retry |-> 0]]
    <3>1. /\ job'[j].version = worker[w].version
          /\ \A k \in JobIds \ {j} : job'[k] = job[k]
      BY <1>0, <2>4 DEF JobOK
    <3>2. /\ \A o \in Requests : request[o].job # j
          /\ \A x \in Workers : worker[x].job # j
      BY <1>0, <2>4 DEF IsNextJob, JobIds, RowsOwned, Uncommitted
    <3> QED
      BY <1>6, <1>10, <2>2, <3>1, <3>2 DEF RowsNamed, WorkerAttach
  <2> QED
    BY <2>1, <2>3, <2>4
<1>7. ASSUME NEW w \in Workers, WorkerCommit(w) \/ WorkerFail(w) PROVE RowsNamed'
  <2>1. PICK st \in Terminal : job' = [job EXCEPT ![worker[w].job].status = st]
    BY <1>7 DEF WorkerCommit, WorkerFail, Settle, Terminal
  <2>2. \A k \in JobIds : job'[k].version = job[k].version
    BY <1>0, <2>1 DEF JobOK, JobRow
  <2>3. /\ UNCHANGED request
        /\ \A x \in Workers : worker'[x].job = worker[x].job /\ worker'[x].version = worker[x].version
    <3>1. UNCHANGED request /\ worker' = [worker EXCEPT ![w].pc = "notifying"]
      BY <1>7 DEF WorkerCommit, WorkerFail, Settle
    <3> QED
      BY <1>0, <3>1 DEF WorkerOK
  <2> QED
    BY <1>10, <2>2, <2>3 DEF RowsNamed
<1>8. ASSUME NEW w \in Workers, WorkerAbandon(w) \/ WorkerCrash(w) PROVE RowsNamed'
  <2>1. /\ worker'[w].job = 0 /\ UNCHANGED request
        /\ \A x \in Workers \ {w} : worker'[x] = worker[x]
    BY <1>0, <1>8 DEF WorkerAbandon, WorkerCrash, WorkerOK, NoTask
  <2>2. \A k \in JobIds : \/ job'[k] = job[k]
                          \/ k = worker[w].job /\ job[k].status = Uncommitted
    BY <1>0, <1>8 DEF WorkerAbandon, WorkerCrash, RolledBack
  <2>3. worker[w].job # 0 /\ job[worker[w].job].status = Uncommitted =>
          /\ \A o \in Requests : request[o].job # worker[w].job
          /\ \A x \in Workers \ {w} : worker[x].job # worker[w].job
    BY <1>0 DEF RowsOwned, Visible, Uncommitted, Terminal
  <2> QED
    BY <1>10, <2>1, <2>2, <2>3 DEF RowsNamed
<1>9. CASE RedisLoss \/ ReaperCommit \/ ReaperEnd
  <2>1. /\ UNCHANGED request
        /\ \A x \in Workers : worker'[x].job = worker[x].job /\ worker'[x].version = worker[x].version
    BY <1>0, <1>9 DEF RedisLoss, ReaperCommit, ReaperEnd, WorkerOK
  <2>2. \A k \in JobIds : job'[k].version = job[k].version
    BY <1>0, <1>9 DEF RedisLoss, ReaperCommit, ReaperEnd, ReaperWrite, JobOK, JobRow
  <2> QED
    BY <1>10, <2>1, <2>2 DEF RowsNamed
<1> QED
  BY <1>1, <1>2, <1>3, <1>4, <1>5, <1>6, <1>7, <1>8, <1>9, ActionCases

\* What the reaper's session holds after it considered row j.
LEMMA ConsiderWrites ==
  ASSUME ReaperOK, VersionOK, NEW j \in JobIds,
         ReaperExhaust(j) \/ ReaperRequeue(j)
  PROVE  /\ reaper'.pc # "scanned"
         /\ reaper'.stuck = reaper.stuck \ {j}
         /\ reaper'.failing \in {reaper.failing, reaper.failing \cup {j}}
         /\ \A v \in Versions :
               /\ reaper'.memory[v] \in {reaper.memory[v], "pending", "failed"}
               /\ v # job[j].version => /\ reaper'.memory[v] = reaper.memory[v]
                                        /\ reaper'.loaded[v] = reaper.loaded[v]
               /\ v = job[j].version =>
                     reaper'.loaded[v] = IF reaper.loaded[v] = "absent" THEN version[v].status
                                         ELSE reaper.loaded[v]
<1>1. ASSUME NEW st \in VersionStatus, NEW c, c = Consider(j, st)
      PROVE  /\ c.pc = reaper.pc /\ c.stuck = reaper.stuck \ {j} /\ c.failing = reaper.failing
             /\ c.memory = [reaper.memory EXCEPT ![job[j].version] = st]
             /\ c.loaded = [reaper.loaded EXCEPT ![job[j].version] =
                             IF reaper.loaded[job[j].version] = "absent"
                             THEN version[job[j].version].status
                             ELSE reaper.loaded[job[j].version]]
             /\ c \in [pc : {reaper.pc}, cutoff : {reaper.cutoff}, live : {reaper.live},
                       stuck : SUBSET JobIds, failing : {reaper.failing}, job : {reaper.job},
                       loaded : [Versions -> VersionStatus], memory : [Versions -> VersionStatus]]
  BY <1>1, ConsiderTyped, ZenonT(30) DEF Consider, ReaperOK
<1>2. CASE ReaperExhaust(j)
  <2> DEFINE c == Consider(j, "failed")
  <2>1. reaper' = [c EXCEPT !.failing = c.failing \cup {j}] /\ reaper.pc = "walking"
    BY <1>2 DEF ReaperExhaust
  <2>2. "failed" \in VersionStatus
    BY DEF VersionStatus
  <2> HIDE DEF c
  <2>3. /\ reaper'.pc = c.pc /\ reaper'.stuck = c.stuck /\ reaper'.memory = c.memory
        /\ reaper'.loaded = c.loaded /\ reaper'.failing = c.failing \cup {j}
    BY <1>1, <2>1, <2>2 DEF c
  <2>4. /\ reaper'.memory = [reaper.memory EXCEPT ![job[j].version] = "failed"]
        /\ reaper'.loaded = [reaper.loaded EXCEPT ![job[j].version] =
                              IF reaper.loaded[job[j].version] = "absent"
                              THEN version[job[j].version].status
                              ELSE reaper.loaded[job[j].version]]
        /\ reaper'.stuck = reaper.stuck \ {j}
        /\ reaper'.failing \in {reaper.failing, reaper.failing \cup {j}}
        /\ reaper'.pc # "scanned"
    BY <1>1, <2>1, <2>2, <2>3 DEF c
  <2> QED
    BY <2>4 DEF ReaperOK
<1>3. CASE ReaperRequeue(j)
  <2> DEFINE c == Consider(j, "pending")
  <2>1. reaper' = [c EXCEPT !.pc = "committing", !.job = j]
    BY <1>3 DEF ReaperRequeue
  <2>2. "pending" \in VersionStatus
    BY DEF VersionStatus
  <2> HIDE DEF c
  <2>3. /\ reaper'.pc = "committing" /\ reaper'.stuck = c.stuck /\ reaper'.memory = c.memory
        /\ reaper'.loaded = c.loaded /\ reaper'.failing = c.failing
    BY <1>1, <2>1, <2>2 DEF c
  <2>4. /\ reaper'.memory = [reaper.memory EXCEPT ![job[j].version] = "pending"]
        /\ reaper'.loaded = [reaper.loaded EXCEPT ![job[j].version] =
                              IF reaper.loaded[job[j].version] = "absent"
                              THEN version[job[j].version].status
                              ELSE reaper.loaded[job[j].version]]
        /\ reaper'.stuck = reaper.stuck \ {j}
        /\ reaper'.failing \in {reaper.failing, reaper.failing \cup {j}}
        /\ reaper'.pc # "scanned"
    BY <1>1, <2>1, <2>2, <2>3 DEF c
  <2> QED
    BY <2>4 DEF ReaperOK
<1> QED
  BY <1>2, <1>3

LEMMA TickLoadsStep == IInv /\ TickLoads /\ [Next]_vars => TickLoads'
<1> SUFFICES ASSUME IInv, TickLoads, [Next]_vars PROVE TickLoads'
  OBVIOUS
<1>0. ReaperOK /\ VersionOK
  BY DEF IInv, TypeOK
<1>1. CASE UNCHANGED reaper
  BY <1>1 DEF TickLoads
<1>2. CASE reaper' = NoTick
  BY <1>2 DEF TickLoads, NoTick
<1>3. ASSUME NEW cutoff \in 0 .. MaxJobs, ReaperScan(cutoff) PROVE TickLoads'
  BY <1>3 DEF ReaperScan, TickLoads, NoTick
<1>4. CASE reaper'.memory = reaper.memory /\ reaper'.pc # "scanned"
  BY <1>4 DEF TickLoads
<1>5. ReaperSelect \/ ReaperCommit \/ ReaperEnqueue => reaper'.memory = reaper.memory /\ reaper'.pc # "scanned"
  BY <1>0 DEF ReaperSelect, ReaperCommit, ReaperEnqueue, ReaperOK
<1>6. ASSUME NEW j \in JobIds, ReaperSkip(j) PROVE TickLoads'
  BY <1>0, <1>4, <1>6 DEF ReaperSkip, ReaperOK
<1>7. ASSUME NEW j \in JobIds, ReaperExhaust(j) \/ ReaperRequeue(j) PROVE TickLoads'
  <2>1. /\ reaper'.pc # "scanned"
        /\ \A v \in Versions : reaper'.memory[v] \in {reaper.memory[v], "pending", "failed"}
    BY <1>0, <1>7, ConsiderWrites DEF ReaperExhaust, ReaperRequeue
  <2> QED
    BY <2>1 DEF TickLoads
<1> QED
  BY <1>1, <1>2, <1>3, <1>4, <1>5, <1>6, <1>7, ReaperFrame
  DEF ReaperStep, ReaperEnd, ReaperCrash

\* A step of somebody else opens rows the tick does not know and settles none.
LEMMA OpenFrame ==
  ASSUME NEW v \in Versions, Rebuilt(v), reaper' = reaper, Open(v) \subseteq Open(v)',
         \A j \in Open(v)' : j \in Open(v) \/ j \notin reaper.failing
  PROVE  Rebuilt(v)'
  BY DEF Rebuilt

LEMMA OpenRows ==
  ASSUME NEW v \in Versions, v # NoVersion,
         \A j \in JobIds : \/ job'[j] = job[j]
                           \/ /\ job[j].status \in {"absent", Uncommitted}
                              /\ job'[j].status \in {"absent", Uncommitted}
                           \/ /\ job[j].version # v
                              /\ job'[j].version # v
  PROVE  Open(v)' = Open(v)
  BY DEF Open, JobsOf, Uncommitted

\* Only a request that rebuilds a version deletes the chunks of a ready one, and then its
\* row is open.
LEMMA SearchableStep ==
  IInv /\ RowsNamed /\ TickLoads /\ Searchable /\ [Next]_vars => Searchable'
<1> SUFFICES ASSUME IInv, RowsNamed, TickLoads, Searchable, [Next]_vars,
                    NEW v \in Versions, version'[v].status = "ready", ~version'[v].chunks
             PROVE  Rebuilt(v)'
  BY DEF Searchable
<1>0. /\ VersionOK /\ JobOK /\ RequestOK /\ WorkerOK /\ ReaperOK /\ RowsOwned /\ ReaperSees
      /\ v # NoVersion
  BY ConstantsAssumption DEF IInv, TypeOK
<1>1. version'[v] = version[v] => Rebuilt(v)
  BY DEF Searchable
<1>2. CASE UNCHANGED <<version, job, reaper>>
  BY <1>1, <1>2 DEF Rebuilt, Open, JobsOf
<1>3. ASSUME UNCHANGED <<version, reaper>>,
             \A j \in JobIds : \/ job'[j] = job[j]
                               \/ /\ job[j].status \in {"absent", Uncommitted}
                                  /\ job'[j].status \in {"absent", Uncommitted}
      PROVE  Rebuilt(v)'
  BY <1>0, <1>1, <1>3, OpenRows, OpenFrame
<1>4. ASSUME NEW u \in Versions, InitUpload(u) PROVE Rebuilt(v)'
  <2>1. version'[v] = version[v]
    BY <1>0, <1>4 DEF InitUpload, VersionOK
  <2> QED
    BY <1>1, <1>4, <2>1 DEF InitUpload, Rebuilt, Open, JobsOf
<1>5. ASSUME NEW r \in Requests, Flush(r) PROVE Rebuilt(v)'
  <2>1. ASSUME NEW j \in JobIds, IsNextJob(j),
               job' = [job EXCEPT ![j] = [status |-> Uncommitted,
                                          version |-> request[r].version, retry |-> 0]]
        PROVE  Rebuilt(v)'
    <3>1. UNCHANGED <<version, reaper>>
      BY <1>5 DEF Flush
    <3>2. job[j].status = "absent"
      BY <2>1 DEF IsNextJob, JobIds
    <3>3. job'[j].status = Uncommitted /\ \A k \in JobIds \ {j} : job'[k] = job[k]
      BY <1>0, <2>1 DEF JobOK
    <3> QED
      BY <1>3, <3>1, <3>2, <3>3
  <2> QED
    BY <1>2, <1>5, <2>1 DEF Flush
<1>6. ASSUME NEW r \in Requests, Commit(r) PROVE Rebuilt(v)'
  <2> DEFINE q == request[r]
  <2>1. /\ reaper' = reaper
        /\ \A j \in JobIds : IF j = q.job THEN /\ job'[j].status = "pending"
                                               /\ job'[j].version = job[j].version
                             ELSE job'[j] = job[j]
    BY <1>0, <1>6 DEF Commit, JobOK, JobRow
  <2>2. \A j \in JobIds : j = q.job =>
           /\ job[j].status = Uncommitted /\ job[j].version = q.version
           /\ j \notin reaper.stuck \cup reaper.failing
    BY <1>0 DEF RowsOwned, RowsNamed, ReaperSees, Visible, Uncommitted, Terminal, JobIds
  <2>3. /\ Open(v) \subseteq Open(v)'
        /\ \A j \in Open(v)' : j \in Open(v) \/ j \notin reaper.failing
    BY <2>1, <2>2 DEF Open, JobsOf, Uncommitted
  <2>4. CASE version'[v] = version[v]
    BY <1>1, <2>1, <2>3, <2>4, OpenFrame
  <2>5. CASE version'[v] # version[v]
    <3>1. /\ v = q.version
          /\ version'[v].status = IF q.op = "link" THEN "pending"
                                  ELSE IF NewStatus(r) # q.status THEN NewStatus(r)
                                  ELSE version[v].status
          /\ version'[v].chunks = (version[v].chunks /\ ~q.purge)
      <4>1. version \in [Versions -> [status : VersionStatus, current : BOOLEAN, chunks : BOOLEAN]]
        BY <1>0 DEF VersionOK
      <4>2. v = q.version
        BY <1>6, <2>5, <4>1 DEF Commit
      <4>3. version'[v].status = IF q.op = "link" THEN "pending"
                                 ELSE IF NewStatus(r) # q.status THEN NewStatus(r)
                                 ELSE version[v].status
        BY <1>6, <4>1, <4>2 DEF Commit
      <4>4. version'[v].chunks = (version[v].chunks /\ ~q.purge)
        BY <1>6, <4>1, <4>2 DEF Commit
      <4>5. QED
        BY <4>2, <4>3, <4>4
    <3>2. version[v].status = "ready"
      BY <3>1 DEF NewStatus
    <3>3. CASE version[v].chunks
      <4>1. q.job \in JobIds
        BY <1>0, <3>1, <3>3 DEF RowsNamed, RequestOK
      <4>2. q.job \in Open(v)'
        BY <2>1, <2>2, <3>1, <4>1 DEF Open, JobsOf, Uncommitted
      <4> QED
        BY <2>1, <2>2, <4>1, <4>2 DEF Rebuilt
    <3>4. CASE ~version[v].chunks
      <4>1. Rebuilt(v)
        BY <3>2, <3>4 DEF Searchable
      <4> QED
        BY <2>1, <2>3, <4>1, OpenFrame
    <3> QED
      BY <3>3, <3>4
  <2> QED
    BY <2>4, <2>5
<1>7. ASSUME NEW r \in Requests, RequestFail(r) PROVE Rebuilt(v)'
  BY <1>0, <1>3, <1>7 DEF RequestFail, RowsOwned, NoRow, Uncommitted, JobIds
<1>8. ASSUME NEW w \in Workers, WorkerAttach(w) PROVE Rebuilt(v)'
  <2>1. ASSUME NEW j \in JobIds, IsNextJob(j),
               job' = [job EXCEPT ![j] = [status |-> Uncommitted,
                                          version |-> worker[w].version, retry |-> 0]]
        PROVE  Rebuilt(v)'
    BY <1>0, <1>3, <1>8, <2>1 DEF WorkerAttach, IsNextJob, JobIds, JobOK
  <2> QED
    BY <1>2, <1>8, <2>1 DEF WorkerAttach
<1>9. ASSUME NEW w \in Workers, WorkerCommit(w) \/ WorkerFail(w) PROVE Rebuilt(v)'
  <2> DEFINE u == worker[w].version
  <2>1. PICK vst, st, chunks : Settle(w, vst, st, chunks) /\ (vst = "failed" \/ chunks)
    BY <1>9 DEF WorkerCommit, WorkerFail
  <2>2. u # v
    BY <1>0, <2>1 DEF Settle, VersionOK
  <2>3. version'[v] = version[v]
    BY <1>0, <2>1, <2>2 DEF VersionOK, Settle
  <2>4. Open(v)' = Open(v)
    <3>1. \A j \in JobIds : \/ job'[j] = job[j]
                            \/ j = worker[w].job /\ job'[j].version = job[j].version
      BY <1>0, <2>1 DEF JobOK, JobRow, Settle
    <3>2. \A j \in JobIds : j = worker[w].job => job[j].version # v
      BY <2>2 DEF RowsNamed, JobIds
    <3> QED
      BY <1>0, <3>1, <3>2, OpenRows
  <2> QED
    BY <1>1, <1>9, <2>3, <2>4, OpenFrame DEF WorkerCommit, WorkerFail, Settle
<1>10. ASSUME NEW w \in Workers, WorkerAbandon(w) \/ WorkerCrash(w) PROVE Rebuilt(v)'
  <2>1. /\ UNCHANGED <<version, reaper>>
        /\ \A j \in JobIds : \/ job'[j] = job[j]
                             \/ job[j].status = Uncommitted /\ job'[j].status = "absent"
    BY <1>0, <1>10 DEF WorkerAbandon, WorkerCrash, RolledBack, NoRow
  <2> QED
    BY <1>3, <2>1
<1>11. ASSUME UNCHANGED <<version, job>>, reaper'.failing = {},
              \A u \in Versions : reaper'.loaded[u] = "absent" /\ reaper'.memory[u] = "absent"
       PROVE  Rebuilt(v)'
  <2>1. Open(v)' = Open(v) /\ Open(v) # {}
    BY <1>1, <1>11 DEF Open, JobsOf, Rebuilt
  <2> QED
    BY <1>11, <2>1 DEF Rebuilt
<1>12. CASE ReaperCrash
  BY <1>11, <1>12 DEF ReaperCrash, NoTick
<1>13. ASSUME NEW cutoff \in 0 .. MaxJobs, ReaperScan(cutoff) PROVE Rebuilt(v)'
  <2>1. /\ UNCHANGED <<version, job>> /\ reaper'.failing = {}
        /\ reaper'.loaded = [u \in Versions |-> "absent"]
        /\ reaper'.memory = [u \in Versions |-> "absent"]
    BY <1>13 DEF ReaperScan, NoTick
  <2> QED
    BY <1>11, <2>1
<1>14. CASE ReaperSelect
  BY <1>0, <1>11, <1>14 DEF ReaperSelect, TickLoads, ReaperOK
<1>15. ASSUME NEW j \in JobIds, ReaperSkip(j) PROVE Rebuilt(v)'
  <2>1. /\ reaper'.stuck = reaper.stuck \ {j} /\ reaper'.failing = reaper.failing
        /\ reaper'.loaded = reaper.loaded /\ reaper'.memory = reaper.memory
        /\ UNCHANGED <<version, job>>
    BY <1>0, <1>15 DEF ReaperSkip, ReaperOK
  <2> QED
    BY <1>1, <2>1 DEF Rebuilt, Open, JobsOf
<1>16. ASSUME NEW j \in JobIds, ReaperExhaust(j) \/ ReaperRequeue(j) PROVE Rebuilt(v)'
  <2>1. UNCHANGED <<version, job>> /\ Open(v)' = Open(v) /\ j \in reaper.stuck
    BY <1>16 DEF ReaperExhaust, ReaperRequeue, Open, JobsOf
  <2>2. Rebuilt(v)
    BY <1>1, <2>1
  <2>3. CASE \E k \in Open(v) : k \notin reaper.stuck \cup reaper.failing
    BY <1>0, <1>16, <2>1, <2>3, ConsiderWrites DEF Rebuilt
  <2>4. CASE job[j].version = v /\ reaper.loaded[v] \in {"absent", "ready"} /\ Open(v) # {}
    BY <1>0, <1>16, <2>1, <2>4, ConsiderWrites DEF Rebuilt
  <2>5. CASE job[j].version # v
    <3>1. j \notin Open(v)
      BY <2>5 DEF Open, JobsOf
    <3> QED
      BY <1>0, <1>16, <2>1, <2>2, <2>5, <3>1, ConsiderWrites DEF Rebuilt
  <2> QED
    BY <2>2, <2>3, <2>4, <2>5 DEF Rebuilt
<1>17. ASSUME ReaperWrite,
              reaper' = NoTick \/ (reaper'.failing = {} /\ reaper'.loaded = reaper.memory
                                   /\ reaper'.memory = reaper.memory /\ reaper'.stuck = reaper.stuck)
       PROVE  Rebuilt(v)'
  <2>1. v \notin Dirty
    BY <1>0, <1>17 DEF ReaperWrite, TickLoads, VersionOK
  <2>2. version'[v] = version[v] /\ reaper.memory[v] = reaper.loaded[v] /\ reaper.loaded[v] # "ready"
    BY <1>17, <2>1 DEF ReaperWrite, Dirty, TickLoads
  <2>3. \A j \in JobIds \ reaper.failing : /\ job'[j].status = job[j].status
                                           /\ job'[j].version = job[j].version
    BY <1>0, <1>17 DEF ReaperWrite, JobOK, JobRow
  <2>4. \A j \in Open(v) \ reaper.failing : j \in Open(v)'
    BY <2>3 DEF Open, JobsOf
  <2>5. PICK j \in Open(v) : /\ j \notin reaper.failing
                             /\ j \notin reaper.stuck \/ reaper.loaded[v] = "absent"
    BY <1>1, <2>2 DEF Rebuilt
  <2>6. CASE reaper' = NoTick
    BY <2>4, <2>5, <2>6 DEF Rebuilt, NoTick
  <2>7. CASE reaper' # NoTick
    BY <1>17, <2>2, <2>4, <2>5, <2>7 DEF Rebuilt
  <2> QED
    BY <2>6, <2>7
<1>18. CASE ReaperCommit \/ ReaperEnd
  BY <1>0, <1>17, <1>18 DEF ReaperCommit, ReaperEnd, ReaperOK
<1>19. CASE ReaperEnqueue
  <2>1. /\ reaper'.stuck = reaper.stuck /\ reaper'.failing = reaper.failing
        /\ reaper'.loaded = reaper.loaded /\ reaper'.memory = reaper.memory
        /\ UNCHANGED <<version, job>>
    BY <1>0, <1>19 DEF ReaperEnqueue, ReaperOK
  <2> QED
    BY <1>1, <2>1 DEF Rebuilt, Open, JobsOf
<1> QED
  BY <1>2, <1>4, <1>5, <1>6, <1>7, <1>8, <1>9, <1>10, <1>12, <1>13, <1>14, <1>15,
     <1>16, <1>18, <1>19, VersionFrame, JobFrame, ReaperFrame
  DEF ReaperStep

\* A version served as ready has its chunks or an open row that rebuilds them, under every
\* operation and fault: the one request that deletes the chunks of a ready version opens
\* a row, and who settles the last open row of a version writes its status with it.
THEOREM ReadyIsSearchableInvariant == Spec => []ReadyIsSearchable
<1>1. IInv /\ RowsNamed /\ TickLoads /\ Searchable /\ [Next]_vars =>
        (IInv /\ RowsNamed /\ TickLoads /\ Searchable)'
  BY IInvStep, RowsNamedStep, TickLoadsStep, SearchableStep
<1>2. Searchable => ReadyIsSearchable
  BY DEF Searchable, Rebuilt, ReadyIsSearchable
<1>3. QED
  BY <1>1, <1>2, InitIInv, InitSearchable, PTL DEF Spec
=============================================================================

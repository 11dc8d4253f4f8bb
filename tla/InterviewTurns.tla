--------------------------- MODULE InterviewTurns ---------------------------
(* Typed answers of one interview session with the native realtime agent       *)
(* (features/interviews/realtime): the text callback of the agent's process,    *)
(* the durable receipt of every turn key, the fold of the answer into the       *)
(* interview's runtime state with its version check, the worker that re-analyses *)
(* each answer and writes the same row, the finish that drains the callbacks,   *)
(* and a crash of the process.  One process at a time; within it a step runs    *)
(* from one await to the next, and every database transaction is one step.      *)
(*                                                                             *)
(* The runtime state is what a property tells apart: how often each answer was  *)
(* folded and which were re-analysed.  The version column is modelled by what   *)
(* its holders know of it, the processing token by the task that holds it.      *)
EXTENDS Integers

CONSTANTS Turns,          \* turn keys of the candidate's answers
          Tasks,          \* text callbacks running at the same time
          NoTurn, NoTask,
          SaveAttempts,   \* _SAVE_ATTEMPTS of a re-analysis
          Analyses,       \* whether answers are re-analysed (Redis reachable)
          MaxFolds,       \* bound: folds of one answer
          Faults,         \* the faults of this instance
          MaxFaults       \* bound: faults

ASSUME ConstantsAssumption ==
    /\ NoTurn \notin Turns /\ NoTask \notin Tasks
    /\ SaveAttempts \in Nat \ {0} /\ Analyses \in BOOLEAN
    /\ MaxFolds \in Nat \ {0} /\ MaxFaults \in Nat
    /\ Faults \subseteq {"crash", "database"}

VARIABLES receipt,    \* interview_session_messages rows of the turn keys
          row,        \* interview_runtime_state
          ledger,     \* TurnLedger._seen
          mutex,      \* TurnIntake._pipeline: the task that holds it
          memory,     \* the process's state object and its StateWriter
          task,       \* text callbacks
          finish,     \* HardStopTimer and the session
          analysis,   \* reconcile_turn_analysis_task of each answer
          confirmed,  \* turn keys of the confirming snapshots
          history     \* what nothing records: see NoHistory

vars == <<receipt, row, ledger, mutex, memory, task, finish, analysis, confirmed, history>>

NoReceipt == [state |-> "none", owner |-> NoTask, live |-> FALSE]
NoRow == [folds |-> [k \in Turns |-> 0], analysed |-> {}, key |-> NoTurn]
NoCallback == [pc |-> "idle", turn |-> NoTurn, valid |-> FALSE, counted |-> FALSE]
NoAnalysis == [pc |-> "none", valid |-> FALSE, attempt |-> 1]
NoHistory == [crashes |-> 0, failures |-> 0,    \* faults, by kind
              late |-> FALSE,     \* a drain timed out
              raced |-> FALSE]    \* a save of the counters lost the version check

\* held: the writer's _version is the row's, another, one the row has not reached,
\* or None.  torn: _sync_from_winner has put the values of to_dict() into the
\* state, which can then not be serialised again.
Loaded(r) == [folds |-> r.folds, analysed |-> r.analysed, held |-> "current", torn |-> FALSE]

Init ==
    /\ receipt = [k \in Turns |-> NoReceipt]
    /\ row = NoRow
    /\ ledger = {}
    /\ mutex = NoTask
    /\ memory = Loaded(NoRow)
    /\ task = [t \in Tasks |-> NoCallback]
    /\ finish = "open"
    /\ analysis = [k \in Turns |-> NoAnalysis]
    /\ confirmed = {}
    /\ history = NoHistory

-----------------------------------------------------------------------------
(* Helpers *)

Counted == {t \in Tasks : task[t].counted}     \* TurnIntake.in_flight
Folding == {"probe", "load", "update", "count", "counted", "settle", "fail"}

Failed == history.crashes + history.failures

\* A database call raises.
DatabaseFails == /\ "database" \in Faults
                 /\ Failed < MaxFaults
                 /\ history' = [history EXCEPT !.failures = @ + 1]

Goto(t, pc) == task' = [task EXCEPT ![t].pc = pc] /\ UNCHANGED mutex

\* The callback returns: its slot and the mutex are released.
Return(t) == /\ task' = [task EXCEPT ![t] = NoCallback]
             /\ mutex' = IF mutex = t THEN NoTask ELSE mutex

\* The processing token of the receipt is the task's.
Owns(t) == LET k == task[t].turn IN receipt[k].state = "received" /\ receipt[k].owner = t

\* What a task whose settlement raised leaves: no other task has its token.
Disowned(t) == IF Owns(t) THEN [receipt EXCEPT ![task[t].turn].owner = NoTask] ELSE receipt

\* What a writer holds once another one has raised the version.
Missed(held) == CASE held = "current" -> "stale"
                  [] held = "ahead" -> "current"
                  [] OTHER -> held

Outdated == [k \in Turns |-> [analysis[k] EXCEPT !.valid = FALSE]]

-----------------------------------------------------------------------------
(* The door: _on_text_input *)

\* Mutant: a turn key is taken whether or not the ledger has it, and every
\* callback enters the pipeline at once.
ArriveUnserialised(t, k) ==
    /\ finish = "open"
    /\ k \notin confirmed
    /\ task[t].pc = "idle"
    /\ ledger' = ledger \cup {k}
    /\ task' = [task EXCEPT ![t] = [NoCallback EXCEPT !.turn = k, !.counted = k \notin ledger,
                                      !.pc = IF k \in ledger THEN "lookup" ELSE "persist"]]
    /\ UNCHANGED <<receipt, row, mutex, memory, finish, analysis, confirmed, history>>

\* A copy of an answer up to the callback's first await: the closing gate, the
\* ledger, the mutex, which a key the ledger has does not take.  (A closed intake
\* rejects the copy; a client whose answer is confirmed sends no copy.)
Arrive(t, k) ==
    /\ finish = "open"
    /\ k \notin confirmed
    /\ task[t].pc = "idle"
    /\ ledger' = ledger \cup {k}
    /\ LET seen == k \in ledger
           free == mutex = NoTask /\ \A u \in Tasks : task[u].pc # "wait"
       IN /\ task' = [task EXCEPT ![t] = [NoCallback EXCEPT !.turn = k, !.counted = ~seen,
                                            !.pc = CASE seen -> "lookup"
                                                     [] ~seen /\ free -> "persist"
                                                     [] OTHER -> "wait"]]
          /\ mutex' = IF ~seen /\ free THEN t ELSE mutex
    /\ UNCHANGED <<receipt, row, memory, finish, analysis, confirmed, history>>

Acquire(t) ==
    /\ task[t].pc = "wait"
    /\ mutex = NoTask
    /\ mutex' = t
    /\ task' = [task EXCEPT ![t].pc = "persist"]
    /\ UNCHANGED <<receipt, row, ledger, memory, finish, analysis, confirmed, history>>

\* _duplicate_receipt_outcome: a failed receipt is processed again, outside the
\* mutex and counted only from here; any other copy ends.
Lookup(t) ==
    /\ task[t].pc = "lookup"
    /\ IF receipt[task[t].turn].state = "failed"
       THEN /\ ledger' = ledger \ {task[t].turn}
            /\ task' = [task EXCEPT ![t].pc = "persist", ![t].counted = TRUE]
            /\ UNCHANGED mutex
       ELSE Return(t) /\ UNCHANGED ledger
    /\ UNCHANGED <<receipt, row, memory, finish, analysis, confirmed, history>>

-----------------------------------------------------------------------------
(* The receipt: persist_receipt, claim_received_receipt, reclaim_receipt_failed *)

Taken(t) == [state |-> "received", owner |-> t, live |-> TRUE]

\* What the row says decides what the callback does next.
Resume(t, state) ==
    CASE state = "received" -> Goto(t, "claim")
      [] state = "failed" -> Goto(t, "reclaim")
      [] OTHER -> Return(t)

\* INSERT, or the row the unique index has.
Persist(t) ==
    LET k == task[t].turn IN
    /\ task[t].pc = "persist"
    /\ IF receipt[k].state = "none"
       THEN receipt' = [receipt EXCEPT ![k] = Taken(t)] /\ Goto(t, "probe")
       ELSE UNCHANGED receipt /\ Resume(t, receipt[k].state)
    /\ UNCHANGED <<row, ledger, memory, finish, analysis, confirmed, history>>

\* The INSERT raises and the copy is rejected; or its commit raised and was carried
\* out, and the row found is taken for another caller's.
PersistFails(t) ==
    LET k == task[t].turn IN
    /\ task[t].pc = "persist"
    /\ DatabaseFails
    /\ \/ Return(t) /\ UNCHANGED receipt
       \/ /\ receipt[k].state = "none"
          /\ receipt' = [receipt EXCEPT ![k] = Taken(NoTask)]
          /\ Goto(t, "claim")
    /\ UNCHANGED <<row, ledger, memory, finish, analysis, confirmed>>

\* Mutant: a lease that has not lapsed is taken over.
ClaimLive(t) ==
    LET k == task[t].turn IN
    /\ task[t].pc = "claim"
    /\ IF receipt[k].state = "received"
       THEN receipt' = [receipt EXCEPT ![k] = Taken(t)] /\ Goto(t, "probe")
       ELSE UNCHANGED receipt /\ Return(t)
    /\ UNCHANGED <<row, ledger, memory, finish, analysis, confirmed, history>>

Claim(t) ==
    LET k == task[t].turn IN
    /\ task[t].pc = "claim"
    /\ IF receipt[k].state = "received" /\ ~receipt[k].live
       THEN receipt' = [receipt EXCEPT ![k] = Taken(t)] /\ Goto(t, "probe")
       ELSE UNCHANGED receipt /\ Return(t)
    /\ UNCHANGED <<row, ledger, memory, finish, analysis, confirmed, history>>

Reclaim(t) ==
    LET k == task[t].turn IN
    /\ task[t].pc = "reclaim"
    /\ IF receipt[k].state = "failed"
       THEN receipt' = [receipt EXCEPT ![k] = Taken(t)] /\ Goto(t, "probe")
       ELSE UNCHANGED receipt /\ Return(t)
    /\ UNCHANGED <<row, ledger, memory, finish, analysis, confirmed, history>>

\* PROCESSING_LEASE_SECONDS pass.  A fold is shorter than that.
Lapse(k) ==
    /\ receipt[k].state = "received"
    /\ receipt[k].live
    /\ receipt[k].owner = NoTask
    /\ receipt' = [receipt EXCEPT ![k].live = FALSE]
    /\ UNCHANGED <<row, ledger, mutex, memory, task, finish, analysis, confirmed, history>>

-----------------------------------------------------------------------------
(* The fold: fold_turn, grade_native_turn, StateWriter.save *)

\* The probe's verdict is folded into the process's state, before anything is
\* saved.  A torn state raises.
Probe(t) ==
    LET k == task[t].turn IN
    /\ task[t].pc = "probe"
    /\ IF memory.torn
       THEN UNCHANGED memory /\ Goto(t, "fail")
       ELSE /\ memory' = [memory EXCEPT !.folds[k] = IF @ < MaxFolds THEN @ + 1 ELSE @]
            /\ Goto(t, "load")
    /\ UNCHANGED <<receipt, row, ledger, finish, analysis, confirmed, history>>

\* Mutant: the save of the fold is only logged as well.
RaisedLogged(t) == "settle"

\* Where a save that raised leads: the strict save of the fold fails it, the save
\* of the counters is only logged.
Raised(t) == IF task[t].pc \in {"load", "update"} THEN "fail" ELSE "settle"

\* StateWriter.save up to its UPDATE, under the save lock: a version that is not
\* the one held re-syncs the state, which then cannot be serialised.
SaveLoad(t) ==
    /\ task[t].pc \in {"load", "count"}
    /\ \A u \in Tasks : task[u].pc \notin {"update", "counted"}
    /\ IF memory.torn \/ memory.held \in {"stale", "ahead"}
       THEN memory' = [memory EXCEPT !.torn = TRUE] /\ Goto(t, Raised(t))
       ELSE /\ task' = [task EXCEPT ![t].valid = TRUE,
                                    ![t].pc = IF @ = "load" THEN "update" ELSE "counted"]
            /\ UNCHANGED <<memory, mutex>>
    /\ UNCHANGED <<receipt, row, ledger, finish, analysis, confirmed, history>>

\* The row as the process's state writes it.
Written(key) == [folds |-> memory.folds, analysed |-> memory.analysed, key |-> key]

\* The strict save: UPDATE ... WHERE state_version = expected, commit, and the
\* answer's re-analysis is enqueued, unless Redis or the verdict is missing.  A lost
\* race re-syncs the state from the row and raises.
SaveFold(t) ==
    LET k == task[t].turn IN
    /\ task[t].pc = "update"
    /\ IF task[t].valid
       THEN /\ row' = Written(k)
            /\ memory' = [memory EXCEPT !.held = "current"]
            /\ \/ analysis' = Outdated
               \/ /\ Analyses
                  /\ analysis[k].pc \in {"none", "done"}
                  /\ analysis' = [Outdated EXCEPT ![k] = [NoAnalysis EXCEPT !.pc = "queued"]]
            /\ Goto(t, "count")
       ELSE /\ memory' = [memory EXCEPT !.torn = TRUE, !.held = "none"]
            /\ Goto(t, "fail")
            /\ UNCHANGED <<row, analysis>>
    /\ UNCHANGED <<receipt, ledger, finish, confirmed, history>>

\* Mutant: the counters are saved over whatever is there.
SaveCountersUnchecked(t) ==
    /\ task[t].pc = "counted"
    /\ row' = Written(row.key)
    /\ memory' = [memory EXCEPT !.held = "current"]
    /\ analysis' = Outdated
    /\ Goto(t, "settle")
    /\ UNCHANGED <<receipt, ledger, finish, confirmed, history>>

\* The save of publish_state or _persist_turn_counters: the same UPDATE with no
\* key.  A lost race is logged; the writer forgets its version.
SaveCounters(t) ==
    /\ task[t].pc = "counted"
    /\ IF task[t].valid
       THEN /\ row' = Written(row.key)
            /\ memory' = [memory EXCEPT !.held = "current"]
            /\ analysis' = Outdated
            /\ UNCHANGED history
       ELSE /\ memory' = [memory EXCEPT !.held = "none"]
            /\ history' = [history EXCEPT !.raced = TRUE]
            /\ UNCHANGED <<row, analysis>>
    /\ Goto(t, "settle")
    /\ UNCHANGED <<receipt, ledger, finish, confirmed>>

\* The UPDATE raises; or the commit does, when _version already is the new one, and
\* was carried out or not.
SaveFails(t) ==
    /\ task[t].pc \in {"update", "counted"}
    /\ task[t].valid
    /\ DatabaseFails
    /\ \/ UNCHANGED <<row, memory, analysis>>
       \/ memory' = [memory EXCEPT !.held = "ahead"] /\ UNCHANGED <<row, analysis>>
       \/ /\ row' = Written(IF task[t].pc = "update" THEN task[t].turn ELSE row.key)
          /\ memory' = [memory EXCEPT !.held = "current"]
          /\ analysis' = Outdated
    /\ Goto(t, Raised(t))
    /\ UNCHANGED <<receipt, ledger, finish, confirmed>>

\* _mark_receipt_applied, then the confirming snapshot, which may be lost.
SettleApplied(t) ==
    LET k == task[t].turn IN
    /\ task[t].pc = "settle"
    /\ IF Owns(t)
       THEN /\ receipt' = [receipt EXCEPT ![k] = [NoReceipt EXCEPT !.state = "applied"]]
            /\ confirmed' = confirmed \/ confirmed' = confirmed \cup {k}
       ELSE UNCHANGED <<receipt, confirmed>>
    /\ Return(t)
    /\ UNCHANGED <<row, ledger, memory, finish, analysis, history>>

\* Mutant: a fold that raised leaves its receipt as it is.
SettleFailedUnmarked(t) ==
    /\ task[t].pc = "fail"
    /\ Return(t)
    /\ UNCHANGED <<receipt, row, ledger, memory, finish, analysis, confirmed, history>>

\* _mark_receipt_failed.
SettleFailed(t) ==
    /\ task[t].pc = "fail"
    /\ receipt' = IF Owns(t) THEN [receipt EXCEPT ![task[t].turn] =
                                     [NoReceipt EXCEPT !.state = "failed"]]
                  ELSE receipt
    /\ Return(t)
    /\ UNCHANGED <<row, ledger, memory, finish, analysis, confirmed, history>>

\* Either settlement raises: it is logged, and the receipt stays received.
SettleRaises(t) ==
    /\ task[t].pc \in {"settle", "fail"}
    /\ DatabaseFails
    /\ receipt' = Disowned(t)
    /\ Return(t)
    /\ UNCHANGED <<row, ledger, memory, finish, analysis, confirmed>>

-----------------------------------------------------------------------------
(* The re-analysis: _persist_reconciliation *)

Analyse(k) ==
    /\ analysis[k].pc = "queued"
    /\ analysis' = [analysis EXCEPT ![k].pc = "loaded", ![k].valid = TRUE]
    /\ UNCHANGED <<receipt, row, ledger, mutex, memory, task, finish, confirmed, history>>

Reconcile(k) ==
    /\ analysis[k].pc = "loaded"
    /\ analysis[k].valid
    /\ row' = [row EXCEPT !.analysed = @ \cup {k}]
    /\ analysis' = [Outdated EXCEPT ![k].pc = "done"]
    /\ memory' = [memory EXCEPT !.held = Missed(@)]
    /\ task' = [t \in Tasks |-> [task[t] EXCEPT !.valid = FALSE]]
    /\ UNCHANGED <<receipt, ledger, mutex, finish, confirmed, history>>

\* StaleStateError: loaded again, SaveAttempts times in all.
ReconcileAgain(k) ==
    /\ analysis[k].pc = "loaded"
    /\ ~analysis[k].valid
    /\ analysis' = IF analysis[k].attempt < SaveAttempts
                   THEN [analysis EXCEPT ![k].valid = TRUE, ![k].attempt = @ + 1]
                   ELSE [analysis EXCEPT ![k].pc = "done"]
    /\ UNCHANGED <<receipt, row, ledger, mutex, memory, task, finish, confirmed, history>>

-----------------------------------------------------------------------------
(* The finish: HardStopTimer._attempt, from the model's tool or the timer *)

Close ==
    /\ finish = "open"
    /\ finish' = "draining"
    /\ UNCHANGED <<receipt, row, ledger, mutex, memory, task, analysis, confirmed, history>>

\* Mutant: the callbacks in flight are not waited for.
SubmitUndrained ==
    /\ finish = "draining"
    /\ finish' = "submitted"
    /\ UNCHANGED <<receipt, row, ledger, mutex, memory, task, analysis, confirmed, history>>

\* drain() returned: no callback is in flight, or DRAIN_TIMEOUT_S passed.
Submit ==
    /\ finish = "draining"
    /\ finish' = "submitted"
    /\ history' = [history EXCEPT !.late = Counted # {}]
    /\ UNCHANGED <<receipt, row, ledger, mutex, memory, task, analysis, confirmed>>

\* The submit raised: _rollback_finalization.
Reopen ==
    /\ finish = "draining"
    /\ finish' = "open"
    /\ UNCHANGED <<receipt, row, ledger, mutex, memory, task, analysis, confirmed, history>>

-----------------------------------------------------------------------------
\* The process dies and another is started: load_native_setup, and the ledger is
\* seeded with the key of the last save.
Crash ==
    /\ "crash" \in Faults
    /\ Failed < MaxFaults
    /\ finish # "submitted"
    /\ history' = [history EXCEPT !.crashes = @ + 1]
    /\ receipt' = [k \in Turns |-> [receipt[k] EXCEPT !.owner = NoTask]]
    /\ ledger' = {row.key} \ {NoTurn}
    /\ mutex' = NoTask
    /\ memory' = Loaded(row)
    /\ task' = [t \in Tasks |-> NoCallback]
    /\ finish' = "open"
    /\ UNCHANGED <<row, analysis, confirmed>>

-----------------------------------------------------------------------------
Callback(t) == \/ Acquire(t)
               \/ Lookup(t)
               \/ Persist(t)
               \/ Claim(t)
               \/ Reclaim(t)
               \/ Probe(t)
               \/ SaveLoad(t)
               \/ SaveFold(t)
               \/ SaveCounters(t)
               \/ SettleApplied(t)
               \/ SettleFailed(t)

Disturb(t) == PersistFails(t) \/ SaveFails(t) \/ SettleRaises(t)

Reanalyse(k) == Analyse(k) \/ Reconcile(k) \/ ReconcileAgain(k)

Next == \/ \E t \in Tasks : \/ \E k \in Turns : Arrive(t, k)
                            \/ Callback(t)
                            \/ Disturb(t)
        \/ \E k \in Turns : Reanalyse(k) \/ Lapse(k)
        \/ Close \/ Submit \/ Reopen
        \/ Crash

Spec == Init /\ [][Next]_vars

\* A callback that can go on does: the event loop runs, every await ends.
FairSpec == Spec /\ \A t \in Tasks : WF_vars(Callback(t))

-----------------------------------------------------------------------------
(* Properties *)

Folds == [Turns -> 0 .. MaxFolds]
ReceiptType == [state : {"none", "received", "applied", "failed"}, owner : Tasks \cup {NoTask},
                live : BOOLEAN]
RowType == [folds : Folds, analysed : SUBSET Turns, key : Turns \cup {NoTurn}]
MemoryType == [folds : Folds, analysed : SUBSET Turns,
               held : {"current", "stale", "ahead", "none"}, torn : BOOLEAN]
CallbackType == [pc : {"idle", "lookup", "wait", "persist", "claim", "reclaim"} \cup Folding,
                 turn : Turns \cup {NoTurn}, valid : BOOLEAN, counted : BOOLEAN]
AnalysisType == [pc : {"none", "queued", "loaded", "done"}, valid : BOOLEAN,
                 attempt : 1 .. SaveAttempts]

\* Rows and callbacks keep their types: no re-analysis is tried too often.
TypeOK ==
    /\ receipt \in [Turns -> ReceiptType]
    /\ row \in RowType
    /\ ledger \subseteq Turns
    /\ mutex \in Tasks \cup {NoTask}
    /\ memory \in MemoryType
    /\ task \in [Tasks -> CallbackType]
    /\ finish \in {"open", "draining", "submitted"}
    /\ analysis \in [Turns -> AnalysisType]
    /\ confirmed \subseteq Turns
    /\ history \in [crashes : Nat, failures : Nat, late : BOOLEAN, raced : BOOLEAN]

\* An applied answer, the only kind the client is told to forget, has been folded
\* into the interview's state as it is stored: no writer, crash or failed save has
\* undone it ("state and receipt can never disagree", native_typed_turn.py:22).
AppliedIsFolded == \A k \in Turns : receipt[k].state = "applied" => row.folds[k] >= 1

\* Two callbacks never fold the same answer at the same time, although a retry runs
\* outside the mutex and a lapsed lease passes to another callback.
OneFolder ==
    \A t, u \in Tasks :
      task[t].pc \in Folding /\ task[u].pc \in Folding /\ task[t].turn = task[u].turn => t = u

\* Whatever is resent and whatever the re-analysis does meanwhile, one crash does
\* not make an answer count twice, as long as no database call fails.
GradedOnce ==
    history.failures = 0 /\ history.crashes <= 1 => \A k \in Turns : row.folds[k] <= 1

\* What a re-analysis stored is not overwritten by the process's older state, unless
\* a database call failed or the counters of a turn were saved too late.
AnalysisKept ==
    [][history.failures = 0 /\ ~history.raced => row.analysed \subseteq row'.analysed]_vars

\* Once the agent has submitted the session, without giving up on a callback, no
\* answer is added to the transcript the evaluation reads.
TranscriptClosed ==
    [][finish = "submitted" /\ ~history.late
         => \A k \in Turns : receipt[k].state = "none" => receipt'[k].state = "none"]_vars

\* A stored answer is applied or declared failed, unless a fault intervenes: no
\* callback waits for another for ever.
ReceivedSettles ==
    \A k \in Turns : receipt[k].state = "received"
                       ~> (receipt[k].state \in {"applied", "failed"} \/ Failed > 0)
=============================================================================

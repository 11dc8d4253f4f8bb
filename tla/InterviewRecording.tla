------------------------- MODULE InterviewRecording -------------------------
(* The audio recording of one interview session (features/interviews/services/ *)
(* recording.py, queries/recordings.py): the consent, the token request that    *)
(* claims the row and starts the provider's egress job, the stop on the paths    *)
(* that end a session, LiveKit's callbacks, the reconciliation and the retention *)
(* of the cron.  An egress job belongs to the provider: it runs, ends by itself  *)
(* or when stopped, and uploads to the one key of the recording.                *)
(*                                                                             *)
(* Callbacks are delivered any number of times, late or never.  The grace window *)
(* of the reconciliation is left out: every unresolved row grows old enough.     *)
EXTENDS Naturals, FiniteSets

CONSTANTS Mints,         \* token requests running at the same time
          Stops,         \* finishes of the session running at the same time
          Hooks,         \* callbacks handled at the same time
          Egresses,      \* bound: egress jobs the provider starts for the room
          NoEgress,
          MaxReconcile,  \* interview_recording_reconcile_max_attempts
          Faults,        \* the faults of this instance
          MaxFaults      \* bound: faults

Procs == Mints \cup Stops \cup Hooks \cup {"cron"}

VARIABLES ended,      \* interview_sessions.status is terminal
          consent,    \* recording_consent_status
          pointer,    \* recording_object_id is set
          row,        \* interview_recordings; "inserting" is a row not committed yet
          object,     \* the storage_objects row of the key
          egress,     \* the provider's jobs
          bytes,      \* the object in the bucket
          due,        \* retention_delete_at has passed
          tx,         \* requests, callbacks and the cron's task
          faults      \* faults so far

vars == <<ended, consent, pointer, row, object, egress, bytes, due, tx, faults>>

NoRow == [status |-> "none", egress |-> NoEgress, attempts |-> 0]
Idle == [pc |-> "idle", egress |-> NoEgress, output |-> "none", seen |-> FALSE]

\* The consent given when the session was created claimed its row.
Init ==
    /\ ended = FALSE
    /\ consent \in {"accepted", "declined"}
    /\ pointer = FALSE /\ object = FALSE /\ bytes = FALSE /\ due = FALSE
    /\ row = IF consent = "accepted" THEN [NoRow EXCEPT !.status = "pending"] ELSE NoRow
    /\ egress = [e \in Egresses |-> "none"]
    /\ tx = [p \in Procs |-> Idle]
    /\ faults = 0

-----------------------------------------------------------------------------
(* Helpers *)

Unresolved(r) == r.status \in {"pending", "active"}
Live(e) == egress[e] \in {"running", "stopping"}

Fault(f) == f \in Faults /\ faults < MaxFaults /\ faults' = faults + 1

Goto(p, pc) == tx' = [tx EXCEPT ![p].pc = pc]
End(p) == tx' = [tx EXCEPT ![p] = Idle]

\* mark_recording_failed.
Failed(r) == IF Unresolved(r) THEN [r EXCEPT !.status = "failed"] ELSE r

\* Mutant: the row is charged and never given up.
ChargedForever(r) ==
    IF Unresolved(r) /\ r.attempts < MaxReconcile
    THEN [r EXCEPT !.attempts = @ + 1] ELSE r

\* charge_reconcile_attempt, and the failure at the ceiling.
Charged(r) ==
    IF Unresolved(r) /\ r.attempts < MaxReconcile
    THEN [r EXCEPT !.attempts = @ + 1,
                   !.status = IF r.attempts + 1 >= MaxReconcile THEN "failed" ELSE @]
    ELSE r

-----------------------------------------------------------------------------
(* The candidate *)

\* persist_recording_consent: an acceptance replaces a refusal, never the reverse.
Accept ==
    /\ consent = "declined"
    /\ row.status # "inserting"
    /\ consent' = "accepted"
    /\ row' = IF row = NoRow THEN [row EXCEPT !.status = "pending"] ELSE row
    /\ UNCHANGED <<ended, pointer, object, egress, bytes, due, tx, faults>>

\* realtime_token loads the session.
Mint(m) ==
    /\ tx[m] = Idle
    /\ ~ended
    /\ Cardinality({e \in Egresses : egress[e] = "none"})
         > Cardinality({n \in Mints : tx[n].pc \in {"claim", "start"}})
    /\ Goto(m, "claim")
    /\ UNCHANGED <<ended, consent, pointer, row, object, egress, bytes, due, faults>>

\* claim_recording, ON CONFLICT DO NOTHING, waits for an insert that is not committed;
\* then the row is read.
Claim(m) ==
    /\ tx[m].pc = "claim"
    /\ row.status # "inserting"
    /\ row' = IF row = NoRow THEN [row EXCEPT !.status = "inserting"] ELSE row
    /\ IF row.status \in {"none", "pending"} THEN Goto(m, "start") ELSE End(m)
    /\ UNCHANGED <<ended, consent, pointer, object, egress, bytes, due, faults>>

\* _start_audio_egress: the job runs, and may do so although the call raised.
StartEgress(m) ==
    /\ tx[m].pc = "start"
    /\ \E e \in Egresses :
         /\ egress[e] = "none"
         /\ egress' = [egress EXCEPT ![e] = "running"]
         /\ \/ /\ tx' = [tx EXCEPT ![m].pc = "attach", ![m].egress = e]
               /\ UNCHANGED faults
            \/ Fault("lost") /\ Goto(m, "raised")
    /\ UNCHANGED <<ended, consent, pointer, row, object, bytes, due>>

StartRaises(m) ==
    /\ tx[m].pc = "start"
    /\ Fault("provider")
    /\ Goto(m, "raised")
    /\ UNCHANGED <<ended, consent, pointer, row, object, egress, bytes, due>>

\* The row of the session fails, its own or one another request made active.
StartFailed(m) ==
    /\ tx[m].pc = "raised"
    /\ row' = IF row.status = "inserting" THEN [row EXCEPT !.status = "failed"] ELSE Failed(row)
    /\ End(m)
    /\ UNCHANGED <<ended, consent, pointer, object, egress, bytes, due, faults>>

\* Mutant: the job of the last request is attached, whatever the row's status.
AttachLast(m) ==
    /\ tx[m].pc = "attach"
    /\ row' = [row EXCEPT !.status = "active", !.egress = tx[m].egress]
    /\ End(m)
    /\ UNCHANGED <<ended, consent, pointer, object, egress, bytes, due, faults>>

\* attach_egress, if the row is pending; a duplicate job is to be stopped.
Attach(m) ==
    /\ tx[m].pc = "attach"
    /\ IF row.status \in {"pending", "inserting"}
       THEN /\ row' = [row EXCEPT !.status = "active", !.egress = tx[m].egress]
            /\ End(m)
       ELSE Goto(m, "stop") /\ UNCHANGED row
    /\ UNCHANGED <<ended, consent, pointer, object, egress, bytes, due, faults>>

-----------------------------------------------------------------------------
(* The end of the session *)

\* submit_session or the deadline sweep; a finished session may be finished again.
Finish(s) ==
    /\ tx[s] = Idle
    /\ ended' = TRUE
    /\ Goto(s, "load")
    /\ UNCHANGED <<consent, pointer, row, object, egress, bytes, due, faults>>

\* stop_recording_for_session reads the row.
StopLoad(s) ==
    /\ tx[s].pc = "load"
    /\ CASE row.status = "active" -> tx' = [tx EXCEPT ![s].pc = "stop", ![s].egress = row.egress]
         [] row.status = "pending" -> Goto(s, "cancel")
         [] OTHER -> End(s)
    /\ UNCHANGED <<ended, consent, pointer, row, object, egress, bytes, due, faults>>

\* _stop_egress_quietly; a call that fails is not made again.
StopCall(p) ==
    /\ tx[p].pc = "stop"
    /\ \/ /\ egress' = [egress EXCEPT ![tx[p].egress] = IF @ = "running" THEN "stopping" ELSE @]
          /\ UNCHANGED faults
       \/ Fault("stop") /\ UNCHANGED egress
    /\ End(p)
    /\ UNCHANGED <<ended, consent, pointer, row, object, bytes, due>>

\* mark_recording_cancelled, of a row that was pending when it was read.
StopCancels(s) ==
    /\ tx[s].pc = "cancel"
    /\ row' = IF Unresolved(row) THEN [row EXCEPT !.status = "cancelled"] ELSE row
    /\ End(s)
    /\ UNCHANGED <<ended, consent, pointer, object, egress, bytes, due, faults>>

-----------------------------------------------------------------------------
(* The provider *)

\* A job ends, stopped or with its room: with audio, with a file that will not
\* validate ("broken"), or with none.
EgressEnds(e) ==
    /\ Live(e)
    /\ \E how \in {"complete", "broken", "failed"} :
         /\ egress' = [egress EXCEPT ![e] = how]
         /\ bytes' = (bytes \/ how = "complete")
    /\ UNCHANGED <<ended, consent, pointer, row, object, due, tx, faults>>

\* The provider no longer lists the job.
EgressForgotten(e) ==
    /\ egress[e] \in {"complete", "broken", "failed"}
    /\ Fault("forgotten")
    /\ egress' = [egress EXCEPT ![e] = "forgotten"]
    /\ UNCHANGED <<ended, consent, pointer, row, object, bytes, due, tx>>

-----------------------------------------------------------------------------
(* Callbacks, and what they share with the reconciliation *)

\* _attach_completed_output up to its writes: head_object may not see the upload yet,
\* or no more, and the storage object of the key is looked for.
Inspect(p, e) ==
    \E found \in {egress[e], "hidden"} :
        /\ found = "complete" => bytes
        /\ tx' = [tx EXCEPT ![p] = [pc |-> "write", egress |-> e, output |-> found, seen |-> object]]

\* handle_egress_webhook of a job that has ended, by the id the row has; a row with
\* an id is active already, so that a job's start changes nothing.
Callback(h, e) ==
    /\ tx[h] = Idle
    /\ row.egress = e
    /\ \/ egress[e] = "failed" /\ row' = Failed(row) /\ UNCHANGED tx
       \/ egress[e] \in {"complete", "broken"} /\ row.status # "complete"
            /\ Inspect(h, e) /\ UNCHANGED row
    /\ UNCHANGED <<ended, consent, pointer, object, egress, bytes, due, faults>>

\* Mutant: the playback pointer is set whether or not the row took the output.
WritePointerFirst(p) ==
    /\ tx[p].pc = "write" /\ tx[p].output = "complete"
    /\ LET clash == object /\ ~tx[p].seen
       IN /\ row' = IF Unresolved(row) /\ ~clash THEN [row EXCEPT !.status = "complete"] ELSE row
          /\ object' = TRUE
          /\ pointer' = (pointer \/ ~clash)
    /\ End(p)
    /\ UNCHANGED <<ended, consent, egress, bytes, due, faults>>

\* upsert_storage_object, whose insert conflicts with one committed meanwhile;
\* complete_with_output, if the row is unresolved, and with it the pointer.
WriteOutput(p) ==
    /\ tx[p].pc = "write" /\ tx[p].output = "complete"
    /\ LET clash == object /\ ~tx[p].seen
           attached == Unresolved(row) /\ ~clash
       IN /\ row' = IF attached THEN [row EXCEPT !.status = "complete"] ELSE row
          /\ object' = TRUE
          /\ pointer' = (pointer \/ attached)
    /\ End(p)
    /\ UNCHANGED <<ended, consent, egress, bytes, due, faults>>

\* A file that does not validate fails the recording; one not seen is left to the
\* reconciliation, which charges an attempt.
WriteNoOutput(p) ==
    /\ tx[p].pc = "write" /\ tx[p].output # "complete"
    /\ row' = CASE tx[p].output = "broken" -> Failed(row)
                [] tx[p].output = "hidden" /\ p = "cron" -> Charged(row)
                [] OTHER -> row
    /\ End(p)
    /\ UNCHANGED <<ended, consent, pointer, object, egress, bytes, due, faults>>

-----------------------------------------------------------------------------
(* The cron: reconcile_recordings, expire_retention_due_recordings *)

\* list_unresolved_recordings.
ReconcileLoad ==
    /\ tx["cron"] = Idle
    /\ Unresolved(row)
    /\ tx' = [tx EXCEPT !["cron"].pc = "reconcile", !["cron"].egress = row.egress]
    /\ UNCHANGED <<ended, consent, pointer, row, object, egress, bytes, due, faults>>

\* A row without a job, as it was read, and a job the provider does not know, cost an
\* attempt.
ReconcileUnknown ==
    /\ tx["cron"].pc = "reconcile"
    /\ tx["cron"].egress \in Egresses => egress[tx["cron"].egress] = "forgotten"
    /\ row' = Charged(row)
    /\ End("cron")
    /\ UNCHANGED <<ended, consent, pointer, object, egress, bytes, due, faults>>

\* A live job is left alone, one that has ended is handled like its callback; a lookup
\* that fails costs nothing.
ReconcileKnown ==
    /\ tx["cron"].pc = "reconcile" /\ tx["cron"].egress \in Egresses
    /\ LET e == tx["cron"].egress
       IN \/ Live(e) /\ End("cron") /\ UNCHANGED <<row, faults>>
          \/ egress[e] = "failed" /\ row' = Failed(row) /\ End("cron") /\ UNCHANGED faults
          \/ egress[e] \in {"complete", "broken"} /\ Inspect("cron", e) /\ UNCHANGED <<row, faults>>
          \/ Fault("lookup") /\ End("cron") /\ UNCHANGED row
    /\ UNCHANGED <<ended, consent, pointer, object, egress, bytes, due>>

\* Thirty days on, nothing of the interview runs any more.
RetentionPasses ==
    /\ row.status = "complete" /\ ~due
    /\ \A e \in Egresses : ~Live(e)
    /\ \A p \in Procs : tx[p] = Idle
    /\ due' = TRUE
    /\ UNCHANGED <<ended, consent, pointer, row, object, egress, bytes, tx, faults>>

\* list_expired_recordings.
ExpireLoad ==
    /\ tx["cron"] = Idle
    /\ row.status = "complete" /\ due
    /\ Goto("cron", "delete")
    /\ UNCHANGED <<ended, consent, pointer, row, object, egress, bytes, due, faults>>

\* The object is deleted first; if it cannot be, the next pass tries again.
DeleteBytes ==
    /\ tx["cron"].pc = "delete"
    /\ \/ bytes' = FALSE /\ Goto("cron", "expire") /\ UNCHANGED faults
       \/ Fault("bucket") /\ End("cron") /\ UNCHANGED bytes
    /\ UNCHANGED <<ended, consent, pointer, row, object, egress, due>>

\* expire_recording, clear_session_pointer_if_equal.
Expire ==
    /\ tx["cron"].pc = "expire"
    /\ row' = [row EXCEPT !.status = IF @ = "complete" THEN "expired" ELSE @]
    /\ pointer' = (pointer /\ row.status # "complete")
    /\ due' = FALSE
    /\ End("cron")
    /\ UNCHANGED <<ended, consent, object, egress, bytes, faults>>

\* A process dies, or its commit fails: what it flushed is undone.
Dies(p) ==
    /\ tx[p] # Idle
    /\ Fault("crash")
    /\ row' = IF row.status = "inserting" /\ tx[p].pc \in {"start", "attach", "raised"}
              THEN NoRow ELSE row
    /\ End(p)
    /\ UNCHANGED <<ended, consent, pointer, object, egress, bytes, due>>

-----------------------------------------------------------------------------
Reconcile ==
    \/ ReconcileLoad \/ ReconcileUnknown \/ ReconcileKnown
    \/ WriteOutput("cron") \/ WriteNoOutput("cron")

Retain == ExpireLoad \/ DeleteBytes \/ Expire

Next ==
    \/ Accept
    \/ \E m \in Mints : \/ Mint(m) \/ Claim(m) \/ StartEgress(m) \/ StartRaises(m)
                        \/ StartFailed(m) \/ Attach(m) \/ StopCall(m)
    \/ \E s \in Stops : Finish(s) \/ StopLoad(s) \/ StopCall(s) \/ StopCancels(s)
    \/ \E e \in Egresses : EgressEnds(e) \/ EgressForgotten(e)
    \/ \E h \in Hooks : \/ WriteOutput(h) \/ WriteNoOutput(h)
                        \/ \E e \in Egresses : Callback(h, e)
    \/ Reconcile \/ RetentionPasses \/ Retain
    \/ \E p \in Procs : Dies(p)

Spec == Init /\ [][Next]_vars

\* The cron runs every five minutes, and a job ends at the latest with its room.
FairSpec ==
    /\ Spec
    /\ WF_vars(Reconcile) /\ WF_vars(Retain)
    /\ \A e \in Egresses : WF_vars(EgressEnds(e))

-----------------------------------------------------------------------------
TypeOK ==
    /\ ended \in BOOLEAN /\ pointer \in BOOLEAN /\ object \in BOOLEAN
    /\ bytes \in BOOLEAN /\ due \in BOOLEAN
    /\ consent \in {"accepted", "declined"}
    /\ row \in [status : {"none", "inserting", "pending", "active", "complete", "failed",
                          "cancelled", "expired"},
                egress : Egresses \cup {NoEgress}, attempts : Nat]
    /\ egress \in [Egresses -> {"none", "running", "stopping", "complete", "broken", "failed",
                                "forgotten"}]
    /\ tx \in [Procs -> [pc : {"idle", "claim", "start", "raised", "attach", "stop", "load",
                               "cancel", "write", "reconcile", "delete", "expire"},
                         egress : Egresses \cup {NoEgress},
                         output : {"none", "complete", "broken", "failed", "forgotten", "hidden"},
                         seen : BOOLEAN]]
    /\ faults \in Nat

\* What a teacher is offered to play is there: the session points at the output of a
\* recording that is complete, and only then; the audio is in the bucket until its
\* retention has passed, and a recording called expired is destroyed.
PlaybackSound ==
    /\ pointer <=> row.status = "complete"
    /\ row.status = "complete" => object /\ (bytes \/ due)
    /\ row.status = "expired" => ~bytes

\* A recording that was given up, cancelled or destroyed is never touched again, and
\* one that is complete may only expire, however late a callback, a second token
\* request, a stop or a pass of the cron is.
RecordingFinal ==
    [][/\ row.status \in {"failed", "cancelled", "expired"} => UNCHANGED row
       /\ row.status = "complete" => row' \in {row, [row EXCEPT !.status = "expired"]}]_vars

\* No recording stays pending or active: lost callbacks and starts that never
\* completed are repaired, or given up at the ceiling; and audio past its retention
\* is destroyed, whichever deletion fails.
RecordingSettles ==
    /\ Unresolved(row) ~> ~Unresolved(row)
    /\ due ~> row.status = "expired"

\* No consent, no recording: a job is started for a candidate who accepted.
ConsentedOnly == \A e \in Egresses : egress[e] # "none" => consent = "accepted"
=============================================================================

---------------------- MODULE InterviewRecordingProofs ----------------------
(* Theorems about InterviewRecording, for any number of token requests,        *)
(* finishes, callbacks, egress jobs and faults: the types, what a session's     *)
(* playback pointer promises, and that a settled recording stays settled; and   *)
(* about FinishedInterview, of which it is a part.                              *)
EXTENDS FinishedInterview, TLAPS

\* The audio was attached.
Settled == {"complete", "expired"}

\* Who has found the audio in the bucket may write it down: only a retention pass of
\* a complete recording removes it.
Uploaded ==
    \A p \in Procs : tx[p].output = "complete" /\ row.status \notin Settled => bytes

\* The cron deletes what is complete and due, and writes the tombstone once the
\* bytes are gone.
Deleting ==
    /\ tx["cron"].pc \in {"delete", "expire"} => row.status = "complete" /\ due
    /\ tx["cron"].pc = "expire" => ~bytes

\* Past the retention no egress job runs that could upload again, and none starts.
Quiet ==
    /\ due => row.status = "complete"
    /\ due \/ row.status = "expired" =>
         (\A e \in Egresses : ~Live(e)) /\ (\A p \in Procs : tx[p].pc # "start")

IInv == TypeOK /\ PlaybackSound /\ Uploaded /\ Deleting /\ Quiet

RowType == [status : {"none", "inserting", "pending", "active", "complete", "failed",
                      "cancelled", "expired"},
            egress : Egresses \cup {NoEgress}, attempts : Nat]
TxType == [pc : {"idle", "claim", "start", "raised", "attach", "stop", "load", "cancel",
                 "write", "reconcile", "delete", "expire"},
           egress : Egresses \cup {NoEgress},
           output : {"none", "complete", "broken", "failed", "forgotten", "hidden"},
           seen : BOOLEAN]
-----------------------------------------------------------------------------
LEMMA InitIInv == Init => IInv
<1> SUFFICES ASSUME Init PROVE IInv
  OBVIOUS
<1>1. NoRow \in RowType /\ [NoRow EXCEPT !.status = "pending"] \in RowType /\ Idle \in TxType
  BY DEF NoRow, Idle, RowType, TxType
<1>2. row \in RowType /\ row.status \in {"none", "pending"} /\ tx \in [Procs -> TxType]
  BY <1>1 DEF Init, NoRow
<1>3. \A p \in Procs : tx[p].pc = "idle" /\ tx[p].output = "none"
  BY DEF Init, Idle
<1>4. TypeOK
  BY <1>2 DEF Init, TypeOK, RowType, TxType
<1>5. "cron" \in Procs
  BY DEF Procs
<1>6. PlaybackSound /\ Uploaded /\ Deleting /\ Quiet
  BY <1>2, <1>3, <1>5 DEF Init, PlaybackSound, Uploaded, Settled, Deleting, Quiet, Live
<1>7. QED
  BY <1>4, <1>6 DEF IInv

\* What the row becomes: it keeps its type, and is not reopened.
LEMMA RowFates ==
  ASSUME row \in RowType
  PROVE  /\ Failed(row) \in RowType /\ Charged(row) \in RowType
         /\ Failed(row) = row \/ (Unresolved(row) /\ Failed(row).status = "failed")
         /\ Charged(row) = row \/ (Unresolved(row) /\ Charged(row).status \in {row.status, "failed"})
<1>1. [row EXCEPT !.status = "failed"] \in RowType
  BY DEF RowType
<1>2. Failed(row) \in RowType
  BY <1>1 DEF Failed
<1>3. Failed(row) = row \/ (Unresolved(row) /\ Failed(row).status = "failed")
  BY DEF RowType, Failed
<1>4. CASE ~(Unresolved(row) /\ row.attempts < MaxReconcile)
  BY <1>2, <1>3, <1>4 DEF Charged
<1>5. CASE Unresolved(row) /\ row.attempts < MaxReconcile
  <2> DEFINE fate == IF row.attempts + 1 >= MaxReconcile THEN "failed" ELSE row.status
  <2> DEFINE charged == row.attempts + 1
  <2>1. fate \in {row.status, "failed"} /\ row.attempts \in Nat /\ charged \in Nat
    BY DEF RowType
  <2>2. Charged(row) = [row EXCEPT !.attempts = charged, !.status = fate]
    BY <1>5 DEF Charged
  <2> HIDE DEF fate, charged
  <2>3. [row EXCEPT !.attempts = charged, !.status = fate] \in RowType
    BY <2>1 DEF RowType
  <2>4. [row EXCEPT !.attempts = charged, !.status = fate].status = fate
    BY DEF RowType
  <2>5. QED
    BY <1>2, <1>3, <1>5, <2>1, <2>2, <2>3, <2>4
<1>6. QED
  BY <1>4, <1>5

Pcs == {"idle", "claim", "start", "raised", "attach", "stop", "load", "cancel", "write",
        "reconcile", "delete", "expire"}

\* Process p comes to pc, having found no audio it had not found before.
Moved(p, pc) ==
    /\ tx' \in [Procs -> TxType]
    /\ tx'[p].pc = pc /\ tx'[p].output \in {"none", tx[p].output}
    /\ \A q \in Procs \ {p} : tx'[q] = tx[q]

LEMMA MovedTo ==
  ASSUME tx \in [Procs -> TxType], NEW p \in Procs,
         NEW e \in Egresses \cup {NoEgress}, NEW pc \in Pcs
  PROVE  /\ End(p) => Moved(p, "idle")
         /\ Goto(p, pc) => Moved(p, pc)
         /\ tx' = [tx EXCEPT ![p].pc = pc, ![p].egress = e] => Moved(p, pc)
<1>1. Idle \in TxType /\ Idle.pc = "idle" /\ Idle.output = "none"
  BY DEF Idle, TxType
<1>2. [tx[p] EXCEPT !.pc = pc] \in TxType /\ [tx[p] EXCEPT !.pc = pc, !.egress = e] \in TxType
  BY DEF TxType, Pcs
<1>3. /\ [tx[p] EXCEPT !.pc = pc].pc = pc
      /\ [tx[p] EXCEPT !.pc = pc].output = tx[p].output
      /\ [tx[p] EXCEPT !.pc = pc, !.egress = e].pc = pc
      /\ [tx[p] EXCEPT !.pc = pc, !.egress = e].output = tx[p].output
  BY DEF TxType
<1>4. End(p) => Moved(p, "idle")
  BY <1>1 DEF End, Moved
<1>5. Goto(p, pc) => Moved(p, pc)
  BY <1>2, <1>3 DEF Goto, Moved
<1>6. tx' = [tx EXCEPT ![p].pc = pc, ![p].egress = e] => Moved(p, pc)
  BY <1>2, <1>3 DEF Moved
<1>7. QED
  BY <1>4, <1>5, <1>6

\* A step of process p that leaves the audio, the pointer and the retention alone, and
\* the row too if the audio was attached.
LEMMA Elsewhere ==
  ASSUME IInv, NEW p \in Procs, TypeOK', UNCHANGED <<pointer, object, bytes, due>>,
         \/ row' = row
         \/ row.status \notin Settled /\ row'.status \notin Settled,
         \A q \in Procs \ {p} : tx'[q] = tx[q],
         \/ tx'[p] = tx[p]
         \/ /\ tx'[p].pc \notin {"delete", "expire"}
            /\ tx'[p].pc = "start" => ~due /\ row.status # "expired"
            /\ tx'[p].output = "complete" => tx[p].output = "complete" \/ bytes,
         \A e \in Egresses : Live(e)' => Live(e) \/ (~due /\ row.status # "expired")
  PROVE  IInv'
<1> USE DEF IInv
<1>1. PlaybackSound'
  BY DEF PlaybackSound, Settled
<1>2. Uploaded'
  BY DEF Uploaded, Settled
<1>3. Deleting'
  BY DEF Deleting, Settled, Procs
<1>4. Quiet'
  BY DEF Quiet, Settled
<1>5. QED
  BY <1>1, <1>2, <1>3, <1>4

\* The types of the row and of the processes, under the names used here.
LEMMA Types ==
  TypeOK <=> /\ ended \in BOOLEAN /\ pointer \in BOOLEAN /\ object \in BOOLEAN
             /\ bytes \in BOOLEAN /\ due \in BOOLEAN
             /\ consent \in {"accepted", "declined"}
             /\ row \in RowType /\ tx \in [Procs -> TxType]
             /\ egress \in [Egresses -> {"none", "running", "stopping", "complete", "broken",
                                         "failed", "forgotten"}]
             /\ faults \in Nat
  BY DEF TypeOK, RowType, TxType

LEMMA FaultCounts ==
  ASSUME TypeOK, NEW f, Fault(f)
  PROVE  faults' \in Nat
  BY DEF TypeOK, Fault

LEMMA AcceptStep == IInv /\ Accept => IInv'
<1> SUFFICES ASSUME IInv, Accept PROVE IInv'
  OBVIOUS
<1>1. row \in RowType
  BY Types DEF IInv
<1>2. /\ row' \in RowType
      /\ row' = row \/ (row.status \notin Settled /\ row'.status \notin Settled)
  <2>1. CASE row = NoRow
    <3>1. row' = [row EXCEPT !.status = "pending"]
      BY <2>1 DEF Accept
    <3>2. row.status = "none"
      BY <2>1 DEF NoRow
    <3>3. QED
      BY <1>1, <3>1, <3>2 DEF RowType, Settled
  <2>2. CASE row # NoRow
    BY <1>1, <2>2 DEF Accept
  <2>3. QED
    BY <2>1, <2>2
<1>3. TypeOK'
  BY <1>2, Types DEF IInv, Accept, TypeOK
<1>4. "cron" \in Procs
  BY DEF Procs
<1>5. QED
  BY <1>2, <1>3, <1>4, Elsewhere DEF Accept, Live

\* The rows of the audio and the pointer stay, and the row too if it has settled.
Calm ==
    /\ row' \in RowType
    /\ row' = row \/ (row.status \notin Settled /\ row'.status \notin Settled)
    /\ ended' \in BOOLEAN /\ faults' \in Nat
    /\ UNCHANGED <<consent, pointer, object, bytes, due>>
    /\ egress' \in [Egresses -> {"none", "running", "stopping", "complete", "broken", "failed",
                                 "forgotten"}]
    /\ \A x \in Egresses : Live(x)' => Live(x) \/ (~due /\ row.status # "expired")

LEMMA WalkStep ==
  ASSUME IInv, NEW p \in Procs, NEW pc \in Pcs \ {"delete", "expire"}, Moved(p, pc), Calm,
         pc = "start" => ~due /\ row.status # "expired"
  PROVE  IInv'
<1>1. TypeOK
  BY DEF IInv
<1>2. TypeOK'
  BY <1>1 DEF Moved, Calm, TypeOK, RowType, TxType
<1>3. QED
  BY <1>2, Elsewhere DEF Moved, Calm

\* What the walks below have in common.
LEMMA Known ==
  ASSUME IInv
  PROVE  /\ TypeOK /\ row \in RowType /\ tx \in [Procs -> TxType]
         /\ Mints \subseteq Procs /\ Stops \subseteq Procs /\ Hooks \subseteq Procs /\ "cron" \in Procs
         /\ egress \in [Egresses -> {"none", "running", "stopping", "complete", "broken", "failed",
                                     "forgotten"}]
         /\ \A p \in Procs : tx[p].egress \in Egresses \cup {NoEgress}
         /\ row.egress \in Egresses \cup {NoEgress}
         /\ row.status \in {"none", "inserting", "pending", "active", "complete", "failed",
                            "cancelled", "expired"}
<1>1. TypeOK
  BY DEF IInv
<1>2. row \in RowType /\ tx \in [Procs -> TxType]
  BY <1>1, Types
<1>3. (\A p \in Procs : tx[p].egress \in Egresses \cup {NoEgress}) /\ row.egress \in Egresses \cup {NoEgress}
  BY <1>2 DEF RowType, TxType
<1>4. row.status \in {"none", "inserting", "pending", "active", "complete", "failed",
                      "cancelled", "expired"}
  BY <1>2 DEF RowType
<1>5. QED
  BY <1>1, <1>2, <1>3, <1>4, Types DEF Procs

\* The row after a change of its status, its job or its attempts.
LEMMA RowMoves ==
  ASSUME row \in RowType, NEW e \in Egresses \cup {NoEgress},
         NEW s \in {"none", "inserting", "pending", "active", "complete", "failed",
                    "cancelled", "expired"}
  PROVE  /\ [row EXCEPT !.status = s] \in RowType /\ [row EXCEPT !.status = s].status = s
         /\ [row EXCEPT !.status = s, !.egress = e] \in RowType
         /\ [row EXCEPT !.status = s, !.egress = e].status = s
         /\ NoRow \in RowType /\ NoRow.status = "none"
  BY DEF RowType, NoRow

LEMMA MintStep ==
  ASSUME IInv, NEW m \in Mints, Mint(m) \/ Claim(m)
  PROVE  IInv'
<1>1. m \in Procs /\ NoEgress \in Egresses \cup {NoEgress}
  BY Known
<1>2. CASE Mint(m)
  <2>1. Moved(m, "claim")
    BY <1>1, <1>2, MovedTo, Known DEF Mint, Pcs
  <2>2. Calm
    BY <1>2, Known DEF Mint, Calm, TypeOK, Live
  <2>3. QED
    BY <1>1, <2>1, <2>2, WalkStep DEF Pcs
<1>3. CASE Claim(m)
  <2>1. row.status \in {"none", "pending"} => ~due /\ row.status # "expired"
    BY DEF IInv, Quiet
  <2>2. CASE row = NoRow
    <3>1. row' = [row EXCEPT !.status = "inserting"] /\ row.status = "none"
      BY <1>3, <2>2, RowMoves, Known DEF Claim
    <3>2. row' \in RowType /\ row'.status = "inserting"
      BY <3>1, RowMoves, Known
    <3>3. Calm
      BY <1>3, <3>1, <3>2, Known DEF Claim, Calm, Settled, TypeOK, Live
    <3>4. Moved(m, "start")
      BY <1>1, <1>3, <3>1, MovedTo, Known DEF Claim, Pcs
    <3>5. QED
      BY <1>1, <2>1, <3>1, <3>3, <3>4, WalkStep DEF Pcs
  <2>3. CASE row # NoRow
    <3>1. Calm
      BY <1>3, <2>3, Known DEF Claim, Calm, TypeOK, Live
    <3>2. CASE row.status \in {"none", "pending"}
      <4>1. Moved(m, "start")
        BY <1>1, <1>3, <3>2, MovedTo, Known DEF Claim, Pcs
      <4>2. QED
        BY <1>1, <2>1, <3>1, <3>2, <4>1, WalkStep DEF Pcs
    <3>3. CASE row.status \notin {"none", "pending"}
      <4>1. Moved(m, "idle")
        BY <1>1, <1>3, <3>3, MovedTo, Known DEF Claim, Pcs
      <4>2. QED
        BY <1>1, <3>1, <4>1, WalkStep DEF Pcs
    <3>4. QED
      BY <3>2, <3>3
  <2>4. QED
    BY <2>2, <2>3
<1>4. QED
  BY <1>2, <1>3

LEMMA StartStep ==
  ASSUME IInv, NEW m \in Mints, StartEgress(m) \/ StartRaises(m) \/ StartFailed(m)
  PROVE  IInv'
<1>1. m \in Procs /\ NoEgress \in Egresses \cup {NoEgress}
  BY Known
<1>2. CASE StartEgress(m)
  <2>1. PICK e \in Egresses :
          /\ egress' = [egress EXCEPT ![e] = "running"]
          /\ \/ tx' = [tx EXCEPT ![m].pc = "attach", ![m].egress = e] /\ UNCHANGED faults
             \/ Fault("lost") /\ Goto(m, "raised")
    BY <1>2 DEF StartEgress
  <2>2. ~due /\ row.status # "expired"
    BY <1>1, <1>2 DEF StartEgress, IInv, Quiet
  <2>3. faults' \in Nat
    BY <2>1, FaultCounts, Known DEF TypeOK
  <2>4. Calm
    BY <1>2, <2>1, <2>2, <2>3, Known DEF StartEgress, Calm, TypeOK
  <2>5. Moved(m, "attach") \/ Moved(m, "raised")
    BY <1>1, <2>1, MovedTo, Known DEF Pcs
  <2>6. QED
    BY <1>1, <2>4, <2>5, WalkStep DEF Pcs
<1>3. CASE StartRaises(m)
  <2>1. Moved(m, "raised") /\ faults' \in Nat
    BY <1>1, <1>3, MovedTo, FaultCounts, Known DEF StartRaises, Pcs
  <2>2. Calm
    BY <1>3, <2>1, Known DEF StartRaises, Calm, TypeOK, Live
  <2>3. QED
    BY <1>1, <2>1, <2>2, WalkStep DEF Pcs
<1>4. CASE StartFailed(m)
  <2>1. Moved(m, "idle")
    BY <1>1, <1>4, MovedTo, Known DEF StartFailed, Pcs
  <2>2. row' \in RowType /\ (row' = row \/ (row.status \notin Settled /\ row'.status \notin Settled))
    <3>1. CASE row.status = "inserting"
      <4>1. row' = [row EXCEPT !.status = "failed"]
        BY <1>4, <3>1 DEF StartFailed
      <4>2. QED
        BY <3>1, <4>1, RowMoves, Known DEF Settled
    <3>2. CASE row.status # "inserting"
      <4>1. row' = Failed(row)
        BY <1>4, <3>2 DEF StartFailed
      <4>2. QED
        BY <4>1, RowFates, Known DEF Settled, Unresolved
    <3>3. QED
      BY <3>1, <3>2
  <2>3. Calm
    BY <1>4, <2>2, Known DEF StartFailed, Calm, TypeOK, Live
  <2>4. QED
    BY <1>1, <2>1, <2>3, WalkStep DEF Pcs
<1>5. QED
  BY <1>2, <1>3, <1>4

LEMMA AttachStep ==
  ASSUME IInv, NEW m \in Mints, Attach(m)
  PROVE  IInv'
<1>1. m \in Procs /\ NoEgress \in Egresses \cup {NoEgress}
  BY Known
<1>2. CASE row.status \in {"pending", "inserting"}
  <2>1. Moved(m, "idle")
    BY <1>1, <1>2, MovedTo, Known DEF Attach, Pcs
  <2>2. PICK e \in Egresses \cup {NoEgress} : e = tx[m].egress
    BY <1>1, Known
  <2>3. row' \in RowType /\ row'.status = "active"
    <3>1. row' = [row EXCEPT !.status = "active", !.egress = e]
      BY <1>2, <2>2 DEF Attach
    <3>2. [row EXCEPT !.status = "active", !.egress = e] \in RowType
      BY RowMoves, Known
    <3>3. [row EXCEPT !.status = "active", !.egress = e].status = "active"
      BY RowMoves, Known, ZenonT(30)
    <3>4. QED
      BY <3>1, <3>2, <3>3
  <2>4. Calm
    BY <1>2, <2>3, Known DEF Attach, Calm, TypeOK, Live, Settled
  <2>5. QED
    BY <1>1, <2>1, <2>4, WalkStep DEF Pcs
<1>3. CASE row.status \notin {"pending", "inserting"}
  <2>1. Moved(m, "stop")
    BY <1>1, <1>3, MovedTo, Known DEF Attach, Pcs
  <2>2. Calm
    BY <1>3, Known DEF Attach, Calm, TypeOK, Live
  <2>3. QED
    BY <1>1, <2>1, <2>2, WalkStep DEF Pcs
<1>4. QED
  BY <1>2, <1>3

LEMMA StopCallStep ==
  ASSUME IInv, NEW p \in Procs, StopCall(p)
  PROVE  IInv'
<1>1. NoEgress \in Egresses \cup {NoEgress}
  OBVIOUS
<1>2. Moved(p, "idle")
  BY <1>1, MovedTo, Known DEF StopCall, Pcs
<1>3. faults' \in Nat
  BY FaultCounts, Known DEF StopCall, TypeOK
<1>4. egress' \in [Egresses -> {"none", "running", "stopping", "complete", "broken", "failed",
                                "forgotten"}]
  BY Known DEF StopCall
<1>5. \A x \in Egresses : Live(x)' => Live(x)
  BY Known DEF StopCall, Live
<1>6. Calm
  BY <1>3, <1>4, <1>5, Known DEF StopCall, Calm, TypeOK
<1>7. QED
  BY <1>2, <1>6, WalkStep DEF Pcs

LEMMA FinishStep ==
  ASSUME IInv, NEW s \in Stops, Finish(s) \/ StopLoad(s) \/ StopCancels(s)
  PROVE  IInv'
<1>1. s \in Procs /\ NoEgress \in Egresses \cup {NoEgress}
  BY Known
<1>2. CASE Finish(s)
  <2>1. Moved(s, "load")
    BY <1>1, <1>2, MovedTo, Known DEF Finish, Pcs
  <2>2. Calm
    BY <1>2, Known DEF Finish, Calm, TypeOK, Live
  <2>3. QED
    BY <1>1, <2>1, <2>2, WalkStep DEF Pcs
<1>3. CASE StopLoad(s)
  <2>1. CASE row.status = "active"
    <3>1. tx' = [tx EXCEPT ![s].pc = "stop", ![s].egress = row.egress]
      BY <1>3, <2>1 DEF StopLoad
    <3>2. Moved(s, "stop")
      BY <1>1, <3>1, MovedTo, Known DEF Pcs
    <3>3. QED
      BY <1>1, <1>3, <3>2, WalkStep, Known DEF StopLoad, Calm, TypeOK, Live, Pcs
  <2>2. CASE row.status = "pending"
    <3>1. Moved(s, "cancel")
      BY <1>1, <1>3, <2>2, MovedTo, Known DEF StopLoad, Pcs
    <3>2. QED
      BY <1>1, <1>3, <3>1, WalkStep, Known DEF StopLoad, Calm, TypeOK, Live, Pcs
  <2>3. CASE row.status \notin {"active", "pending"}
    <3>1. Moved(s, "idle")
      BY <1>1, <1>3, <2>3, MovedTo, Known DEF StopLoad, Pcs
    <3>2. QED
      BY <1>1, <1>3, <3>1, WalkStep, Known DEF StopLoad, Calm, TypeOK, Live, Pcs
  <2>4. QED
    BY <2>1, <2>2, <2>3
<1>4. CASE StopCancels(s)
  <2>1. Moved(s, "idle")
    BY <1>1, <1>4, MovedTo, Known DEF StopCancels, Pcs
  <2>2. row' \in RowType /\ (row' = row \/ (row.status \notin Settled /\ row'.status \notin Settled))
    <3>1. CASE Unresolved(row)
      BY <1>4, <3>1, RowMoves, Known DEF StopCancels, Unresolved, Settled
    <3>2. CASE ~Unresolved(row)
      BY <1>4, <3>2, Known DEF StopCancels
    <3>3. QED
      BY <3>1, <3>2
  <2>3. Calm
    BY <1>4, <2>2, Known DEF StopCancels, Calm, TypeOK, Live
  <2>4. QED
    BY <1>1, <2>1, <2>3, WalkStep DEF Pcs
<1>5. QED
  BY <1>2, <1>3, <1>4

LEMMA EgressStep ==
  ASSUME IInv, NEW e \in Egresses, EgressEnds(e) \/ EgressForgotten(e)
  PROVE  IInv'
<1>1. CASE EgressEnds(e)
  <2>1. PICK how \in {"complete", "broken", "failed"} :
          egress' = [egress EXCEPT ![e] = how] /\ bytes' = (bytes \/ how = "complete")
    BY <1>1 DEF EgressEnds
  <2>2. ~due /\ row.status # "expired"
    BY <1>1 DEF EgressEnds, IInv, Quiet
  <2>3. bytes' \in BOOLEAN /\ (bytes => bytes')
    BY <2>1, Known DEF TypeOK
  <2>4. TypeOK'
    BY <1>1, <2>1, <2>3, Known DEF EgressEnds, TypeOK
  <2>5. PlaybackSound' /\ Uploaded'
    BY <1>1, <2>2, <2>3 DEF EgressEnds, IInv, PlaybackSound, Uploaded
  <2>6. Deleting' /\ Quiet'
    BY <1>1, <2>2 DEF EgressEnds, IInv, Deleting, Quiet
  <2>7. QED
    BY <2>4, <2>5, <2>6 DEF IInv
<1>2. CASE EgressForgotten(e)
  <2>1. faults' \in Nat
    BY <1>2, FaultCounts, Known DEF EgressForgotten
  <2>2. TypeOK'
    BY <1>2, <2>1, Known DEF EgressForgotten, TypeOK
  <2>3. \A x \in Egresses : Live(x)' => Live(x)
    BY <1>2, Known DEF EgressForgotten, Live
  <2>4. QED
    BY <1>2, <2>2, <2>3, Elsewhere, Known DEF EgressForgotten
<1>3. QED
  BY <1>1, <1>2

\* Only what is in the bucket is found.
LEMMA InspectStep ==
  ASSUME IInv, NEW p \in Procs, NEW e \in Egresses, egress[e] \in {"complete", "broken"},
         Inspect(p, e), UNCHANGED <<ended, consent, pointer, row, object, egress, bytes, due, faults>>
  PROVE  IInv'
<1>1. PICK found \in {"complete", "broken", "hidden"} :
        /\ found = "complete" => bytes
        /\ tx' = [tx EXCEPT ![p] = [pc |-> "write", egress |-> e, output |-> found, seen |-> object]]
  BY DEF Inspect
<1> DEFINE writing == [pc |-> "write", egress |-> e, output |-> found, seen |-> object]
<1>2. writing \in TxType /\ writing.pc = "write" /\ writing.output = found
  BY Known DEF TxType, TypeOK
<1>3. tx' = [tx EXCEPT ![p] = writing]
  BY <1>1
<1> HIDE DEF writing
<1>4. /\ tx' \in [Procs -> TxType] /\ tx'[p] = writing
      /\ \A q \in Procs \ {p} : tx'[q] = tx[q]
  BY <1>2, <1>3, Known
<1>5. TypeOK'
  BY <1>4, Known DEF TypeOK, TxType
<1>6. QED
  BY <1>1, <1>2, <1>4, <1>5, Elsewhere DEF Live

LEMMA CallbackStep ==
  ASSUME IInv, NEW h \in Hooks, NEW e \in Egresses, Callback(h, e)
  PROVE  IInv'
<1>1. h \in Procs
  BY Known
<1>2. CASE row' = Failed(row) /\ UNCHANGED tx
  <2>1. row' \in RowType /\ (row' = row \/ (row.status \notin Settled /\ row'.status \notin Settled))
    BY <1>2, RowFates, Known DEF Settled, Unresolved
  <2>2. TypeOK'
    BY <1>2, <2>1, Known DEF Callback, TypeOK, RowType
  <2>3. QED
    BY <1>1, <1>2, <2>1, <2>2, Elsewhere DEF Callback, Live
<1>3. CASE egress[e] \in {"complete", "broken"} /\ Inspect(h, e) /\ UNCHANGED row
  BY <1>1, <1>3, InspectStep DEF Callback
<1>4. QED
  BY <1>2, <1>3 DEF Callback

LEMMA WriteStep ==
  ASSUME IInv, NEW p \in Procs, WriteOutput(p)
  PROVE  IInv'
<1> DEFINE attached == Unresolved(row) /\ ~(object /\ ~tx[p].seen)
<1>1. /\ tx[p].pc = "write" /\ tx[p].output = "complete"
      /\ row' = IF attached THEN [row EXCEPT !.status = "complete"] ELSE row
      /\ object' = TRUE /\ pointer' = (pointer \/ attached)
      /\ UNCHANGED <<ended, consent, egress, bytes, due, faults>>
  BY DEF WriteOutput
<1>2. Moved(p, "idle")
  BY MovedTo, Known DEF WriteOutput, Pcs
<1>3. attached \in BOOLEAN
  OBVIOUS
<1>4. CASE attached
  <2>1. row' = [row EXCEPT !.status = "complete"] /\ pointer' = TRUE
    BY <1>1, <1>4
  <2>2. row' \in RowType /\ row'.status = "complete"
    BY <2>1, RowMoves, Known
  <2>3. row.status \notin Settled /\ bytes /\ ~due
    BY <1>1, <1>4 DEF IInv, Unresolved, Settled, Uploaded, Quiet
  <2>4. TypeOK'
    BY <1>1, <1>2, <2>1, <2>2, Known DEF TypeOK, RowType, TxType, Moved
  <2>5. PlaybackSound' /\ Uploaded'
    BY <1>1, <2>1, <2>2, <2>3 DEF PlaybackSound, Uploaded
  <2>6. tx'["cron"].pc \notin {"delete", "expire"}
    BY <1>2, <2>3, Known DEF IInv, Deleting, Moved, Settled
  <2>7. Deleting' /\ Quiet'
    BY <1>1, <2>2, <2>3, <2>6 DEF Deleting, Quiet
  <2>8. QED
    BY <2>4, <2>5, <2>7 DEF IInv
<1>5. CASE ~attached
  <2>1. row' = row /\ pointer' = pointer
    BY <1>1, <1>5, Known DEF TypeOK
  <2>2. TypeOK'
    BY <1>1, <1>2, <2>1, Known DEF TypeOK, TxType, Moved
  <2>3. PlaybackSound' /\ Uploaded'
    <3>1. object' = TRUE /\ bytes' = bytes /\ due' = due
      BY <1>1
    <3>2. PlaybackSound'
      BY <2>1, <3>1 DEF IInv, PlaybackSound
    <3>3. Uploaded'
      BY <1>2, <2>1, <3>1 DEF IInv, Uploaded, Moved, Settled
    <3>4. QED
      BY <3>2, <3>3
  <2>4. Deleting' /\ Quiet'
    BY <1>1, <1>2, <2>1, Known DEF IInv, Deleting, Quiet, Moved, Live
  <2>5. QED
    BY <2>2, <2>3, <2>4 DEF IInv
<1>6. QED
  BY <1>4, <1>5

LEMMA WriteNothingStep ==
  ASSUME IInv, NEW p \in Procs, WriteNoOutput(p)
  PROVE  IInv'
<1>1. Moved(p, "idle")
  BY MovedTo, Known DEF WriteNoOutput, Pcs
<1>2. row' \in {row, Failed(row), Charged(row)}
  BY DEF WriteNoOutput
<1>3. row' \in RowType /\ (row' = row \/ (row.status \notin Settled /\ row'.status \notin Settled))
  BY <1>2, RowFates, Known DEF Settled, Unresolved
<1>4. Calm
  BY <1>3, Known DEF WriteNoOutput, Calm, TypeOK, Live
<1>5. QED
  BY <1>1, <1>4, WalkStep DEF Pcs

LEMMA ReconcileStep == IInv /\ Reconcile => IInv'
<1> SUFFICES ASSUME IInv, Reconcile PROVE IInv'
  OBVIOUS
<1>1. "cron" \in Procs /\ NoEgress \in Egresses \cup {NoEgress}
  BY Known
<1>2. CASE ReconcileLoad
  <2>1. tx' = [tx EXCEPT !["cron"].pc = "reconcile", !["cron"].egress = row.egress]
    BY <1>2 DEF ReconcileLoad
  <2>2. Moved("cron", "reconcile")
    BY <1>1, <2>1, MovedTo, Known DEF Pcs
  <2>3. Calm
    BY <1>2, Known DEF ReconcileLoad, Calm, TypeOK, Live
  <2>4. QED
    BY <1>1, <2>2, <2>3, WalkStep DEF Pcs
<1>3. CASE ReconcileUnknown
  <2>1. Moved("cron", "idle")
    BY <1>1, <1>3, MovedTo, Known DEF ReconcileUnknown, Pcs
  <2>2. row' \in RowType /\ (row' = row \/ (row.status \notin Settled /\ row'.status \notin Settled))
    BY <1>3, RowFates, Known DEF ReconcileUnknown, Settled, Unresolved
  <2>3. Calm
    BY <1>3, <2>2, Known DEF ReconcileUnknown, Calm, TypeOK, Live
  <2>4. QED
    BY <1>1, <2>1, <2>3, WalkStep DEF Pcs
<1>4. CASE ReconcileKnown
  <2> DEFINE e == tx["cron"].egress
  <2>1. e \in Egresses /\ UNCHANGED <<ended, consent, pointer, object, egress, bytes, due>>
    BY <1>4 DEF ReconcileKnown
  <2>2. CASE egress[e] \in {"complete", "broken"} /\ Inspect("cron", e) /\ UNCHANGED <<row, faults>>
    BY <1>1, <2>1, <2>2, InspectStep
  <2>3. CASE End("cron") /\ row' \in {row, Failed(row)} /\ (UNCHANGED faults \/ Fault("lookup"))
    <3>1. Moved("cron", "idle")
      BY <1>1, <2>3, MovedTo, Known DEF Pcs
    <3>2. row' \in RowType /\ (row' = row \/ (row.status \notin Settled /\ row'.status \notin Settled))
      BY <2>3, RowFates, Known DEF Settled, Unresolved
    <3>3. faults' \in Nat
      BY <2>3, FaultCounts, Known DEF TypeOK
    <3>4. Calm
      BY <2>1, <3>2, <3>3, Known DEF Calm, TypeOK, Live
    <3>5. QED
      BY <1>1, <3>1, <3>4, WalkStep DEF Pcs
  <2>4. QED
    BY <1>4, <2>2, <2>3 DEF ReconcileKnown
<1>5. QED
  BY <1>1, <1>2, <1>3, <1>4, WriteStep, WriteNothingStep DEF Reconcile

LEMMA RetainStep ==
  ASSUME IInv, RetentionPasses \/ Retain
  PROVE  IInv'
<1>1. "cron" \in Procs /\ NoEgress \in Egresses \cup {NoEgress}
  BY Known
<1>2. CASE RetentionPasses
  <2>1. TypeOK' /\ PlaybackSound'
    BY <1>2, Known DEF RetentionPasses, IInv, TypeOK, PlaybackSound
  <2>2. Uploaded' /\ Deleting'
    BY <1>2 DEF RetentionPasses, IInv, Uploaded, Deleting
  <2>3. \A p \in Procs : tx[p].pc # "start"
    BY <1>2 DEF RetentionPasses, Idle
  <2>4. Quiet'
    BY <1>2, <2>3 DEF RetentionPasses, Quiet, Live
  <2>5. QED
    BY <2>1, <2>2, <2>4 DEF IInv
<1>3. CASE ExpireLoad
  <2>1. Moved("cron", "delete") /\ row.status = "complete" /\ due
    BY <1>1, <1>3, MovedTo, Known DEF ExpireLoad, Pcs
  <2>2. TypeOK'
    BY <1>3, <2>1, Known DEF ExpireLoad, TypeOK, TxType, Moved
  <2>3. PlaybackSound' /\ Uploaded'
    BY <1>3, <2>1 DEF ExpireLoad, IInv, PlaybackSound, Uploaded, Settled
  <2>4. Deleting'
    BY <1>3, <2>1 DEF ExpireLoad, Deleting, Moved
  <2>5. Quiet'
    BY <1>3, <2>1, Known DEF ExpireLoad, IInv, Quiet, Moved, Live
  <2>6. QED
    BY <2>2, <2>3, <2>4, <2>5 DEF IInv
<1>4. CASE DeleteBytes
  <2>1. /\ row.status = "complete" /\ due
        /\ UNCHANGED <<ended, consent, pointer, row, object, egress, due>>
    BY <1>4 DEF DeleteBytes, IInv, Deleting
  <2>2. \/ bytes' = FALSE /\ Moved("cron", "expire") /\ UNCHANGED faults
        \/ Fault("bucket") /\ Moved("cron", "idle") /\ UNCHANGED bytes
    BY <1>1, <1>4, MovedTo, Known DEF DeleteBytes, Pcs
  <2>3. faults' \in Nat
    BY <2>2, FaultCounts, Known DEF TypeOK
  <2>4. TypeOK'
    BY <2>1, <2>2, <2>3, Known DEF TypeOK, TxType, Moved
  <2>5. PlaybackSound' /\ Uploaded'
    BY <2>1, <2>2 DEF IInv, PlaybackSound, Uploaded, Settled
  <2>6. Deleting'
    BY <2>1, <2>2 DEF Deleting, Moved
  <2>7. Quiet'
    BY <2>1, <2>2, Known DEF IInv, Quiet, Moved, Live
  <2>8. QED
    BY <2>4, <2>5, <2>6, <2>7 DEF IInv
<1>5. CASE Expire
  <2>1. row.status = "complete" /\ due /\ ~bytes
    BY <1>5 DEF Expire, IInv, Deleting
  <2>2. row' = [row EXCEPT !.status = "expired"] /\ pointer' = FALSE /\ due' = FALSE
    BY <1>5, <2>1 DEF Expire
  <2>3. row' \in RowType /\ row'.status = "expired"
    BY <2>2, RowMoves, Known
  <2>4. Moved("cron", "idle")
    BY <1>1, <1>5, MovedTo, Known DEF Expire, Pcs
  <2>5. TypeOK'
    BY <1>5, <2>2, <2>3, <2>4, Known DEF Expire, TypeOK, RowType, TxType, Moved
  <2>6. PlaybackSound' /\ Uploaded'
    BY <1>5, <2>1, <2>2, <2>3 DEF Expire, PlaybackSound, Uploaded, Settled
  <2>7. Deleting'
    BY <2>4 DEF Deleting, Moved
  <2>8. Quiet'
    BY <1>5, <2>1, <2>2, <2>4, Known DEF Expire, IInv, Quiet, Moved, Live
  <2>9. QED
    BY <2>5, <2>6, <2>7, <2>8 DEF IInv
<1>6. QED
  BY <1>2, <1>3, <1>4, <1>5 DEF Retain

LEMMA DiesStep ==
  ASSUME IInv, NEW p \in Procs, Dies(p)
  PROVE  IInv'
<1>1. Moved(p, "idle") /\ faults' \in Nat
  BY MovedTo, FaultCounts, Known DEF Dies, Pcs
<1>2. row' = row \/ (row.status = "inserting" /\ row' = NoRow)
  BY DEF Dies
<1>3. row' \in RowType /\ (row' = row \/ (row.status \notin Settled /\ row'.status \notin Settled))
  <2>1. row \in RowType
    BY Known
  <2>2. NoRow \in RowType /\ NoRow.status = "none"
    BY DEF NoRow, RowType
  <2>3. "none" \notin Settled /\ "inserting" \notin Settled
    BY DEF Settled
  <2>4. QED
    BY <1>2, <2>1, <2>2, <2>3
<1>4. Calm
  BY <1>1, <1>3, Known DEF Dies, Calm, TypeOK, Live
<1>5. "idle" \in Pcs \ {"delete", "expire"} /\ "idle" # "start"
  BY DEF Pcs
<1>6. QED
  BY <1>1, <1>4, <1>5, WalkStep, Zenon

LEMMA InvariantStep == IInv /\ [Next]_vars => IInv'
<1> SUFFICES ASSUME IInv, [Next]_vars PROVE IInv'
  OBVIOUS
<1>1. Mints \subseteq Procs /\ Stops \subseteq Procs /\ Hooks \subseteq Procs
  BY Known
<1>2. CASE UNCHANGED vars
  BY <1>2 DEF vars, IInv, TypeOK, PlaybackSound, Uploaded, Deleting, Quiet, Live
<1>3. CASE Accept
  BY <1>3, AcceptStep
<1>4. ASSUME NEW m \in Mints, \/ Mint(m) \/ Claim(m) \/ StartEgress(m) \/ StartRaises(m)
                              \/ StartFailed(m) \/ Attach(m) \/ StopCall(m)
      PROVE  IInv'
  BY <1>1, <1>4, MintStep, StartStep, AttachStep, StopCallStep
<1>5. ASSUME NEW s \in Stops, Finish(s) \/ StopLoad(s) \/ StopCall(s) \/ StopCancels(s)
      PROVE  IInv'
  BY <1>1, <1>5, FinishStep, StopCallStep
<1>6. ASSUME NEW e \in Egresses, EgressEnds(e) \/ EgressForgotten(e) PROVE IInv'
  BY <1>6, EgressStep
<1>7. ASSUME NEW h \in Hooks, \/ WriteOutput(h) \/ WriteNoOutput(h)
                              \/ \E e \in Egresses : Callback(h, e)
      PROVE  IInv'
  BY <1>1, <1>7, WriteStep, WriteNothingStep, CallbackStep
<1>8. CASE Reconcile \/ RetentionPasses \/ Retain
  BY <1>8, ReconcileStep, RetainStep
<1>9. ASSUME NEW p \in Procs, Dies(p) PROVE IInv'
  BY <1>9, DiesStep
<1>10. QED
  BY <1>2, <1>3, <1>4, <1>5, <1>6, <1>7, <1>8, <1>9 DEF Next

-----------------------------------------------------------------------------
\* The invariant the theorems rest on.
LEMMA Invariant == Spec => []IInv
  BY InitIInv, InvariantStep, PTL DEF Spec

\* Every row, job and process keeps its type (queries/recordings.py).
THEOREM TypesInvariant == Spec => []TypeOK
  BY Invariant, PTL DEF IInv

\* What a teacher is offered to play is there, and an expired recording is destroyed,
\* whichever callbacks, requests, finishes and passes of the cron overlap
\* (recording._attach_completed_output, expire_retention_due_recordings).
THEOREM PlaybackSoundInvariant == Spec => []PlaybackSound
  BY Invariant, PTL DEF IInv

\* A settled recording is not touched again.
LEMMA FinalStep ==
  ASSUME IInv, [Next]_vars
  PROVE  /\ row.status \in {"failed", "cancelled", "expired"} => UNCHANGED row
         /\ row.status = "complete" => row' \in {row, [row EXCEPT !.status = "expired"]}
<1>1. row \in RowType
  BY Known
<1>2. /\ row.status \in {"failed", "cancelled", "complete", "expired"} => Failed(row) = row
      /\ row.status \in {"failed", "cancelled", "complete", "expired"} => Charged(row) = row
  BY DEF Failed, Charged, Unresolved
<1>3. row.status \in {"failed", "cancelled", "complete", "expired"} => row # NoRow
  BY DEF NoRow
<1>4. [row EXCEPT !.status = row.status] = row
  BY <1>1 DEF RowType
<1>5. CASE UNCHANGED vars
  BY <1>5 DEF vars
<1>6. CASE Accept
  BY <1>3, <1>6 DEF Accept
<1>7. ASSUME NEW m \in Mints, \/ Mint(m) \/ Claim(m) \/ StartEgress(m) \/ StartRaises(m)
                              \/ StartFailed(m) \/ Attach(m)
      PROVE  row.status \in {"failed", "cancelled", "complete", "expired"} => UNCHANGED row
  BY <1>2, <1>3, <1>7 DEF Mint, Claim, StartEgress, StartRaises, StartFailed, Attach
<1>8. ASSUME NEW p \in Procs, StopCall(p) \/ Dies(p)
      PROVE  row.status \in {"failed", "cancelled", "complete", "expired"} => UNCHANGED row
  BY <1>8 DEF StopCall, Dies
<1>9. ASSUME NEW s \in Stops, Finish(s) \/ StopLoad(s) \/ StopCancels(s)
      PROVE  row.status \in {"failed", "cancelled", "complete", "expired"} => UNCHANGED row
  BY <1>9 DEF Finish, StopLoad, StopCancels, Unresolved
<1>10. ASSUME NEW e \in Egresses, EgressEnds(e) \/ EgressForgotten(e) PROVE UNCHANGED row
  BY <1>10 DEF EgressEnds, EgressForgotten
<1>11. ASSUME NEW h \in Hooks, NEW e \in Egresses, Callback(h, e)
       PROVE  row.status \in {"failed", "cancelled", "complete", "expired"} => UNCHANGED row
  BY <1>2, <1>11 DEF Callback
<1>12. ASSUME NEW p \in Procs, WriteOutput(p) \/ WriteNoOutput(p)
       PROVE  row.status \in {"failed", "cancelled", "complete", "expired"} => UNCHANGED row
  BY <1>2, <1>12 DEF WriteOutput, WriteNoOutput, Unresolved
<1>13. ASSUME ReconcileLoad \/ ReconcileUnknown \/ ReconcileKnown
       PROVE  row.status \in {"failed", "cancelled", "complete", "expired"} => UNCHANGED row
  BY <1>2, <1>13 DEF ReconcileLoad, ReconcileUnknown, ReconcileKnown
<1>14. CASE RetentionPasses \/ ExpireLoad \/ DeleteBytes
  BY <1>14 DEF RetentionPasses, ExpireLoad, DeleteBytes
<1>15. CASE Expire
  BY <1>4, <1>15 DEF Expire
<1>16. QED
  <2>1. Mints \subseteq Procs /\ Stops \subseteq Procs /\ Hooks \subseteq Procs /\ "cron" \in Procs
    BY Known
  <2>2. CASE row' = row
    BY <2>2
  <2>3. CASE row' # row
    BY <1>5, <1>6, <1>7, <1>8, <1>9, <1>10, <1>11, <1>12, <1>13, <1>14, <1>15, <2>1, <2>3
       DEF Next, Reconcile, Retain
  <2>4. QED
    BY <2>2, <2>3

\* A recording that was given up, cancelled or destroyed is never touched again, and a
\* complete one may only expire (the conditional updates of queries/recordings.py).
THEOREM RecordingFinalAlways == Spec => RecordingFinal
<1>1. IInv /\ [Next]_vars =>
        [/\ row.status \in {"failed", "cancelled", "expired"} => UNCHANGED row
         /\ row.status = "complete" => row' \in {row, [row EXCEPT !.status = "expired"]}]_vars
  BY FinalStep
<1>2. QED
  BY <1>1, Invariant, PTL DEF Spec, RecordingFinal
-----------------------------------------------------------------------------
(* The finished interview *)

EP == INSTANCE InterviewEvaluationProofs WITH
    faults <- failures, Faults <- JudgeFaults, MaxFaults <- MaxJudgeFaults

\* The evaluation of FinishedInterview is the one InterviewEvaluationProofs is about.
LEMMA SameEvaluation ==
  /\ Evaluation!Init <=> EP!Init
  /\ Evaluation!Next <=> EP!Next
  /\ Evaluation!OneGrader <=> EP!OneGrader
  /\ Evaluation!BudgetSpentOnJobs <=> EP!BudgetSpentOnJobs
  BY Zenon DEF
     Evaluation!vars, Evaluation!JobIds, Evaluation!NoJob, Evaluation!NoClaim,
     Evaluation!Orphan, Evaluation!Owners, Evaluation!Status, Evaluation!Gradeable,
     Evaluation!ActivePhases, Evaluation!Phases, Evaluation!Dispatch, Evaluation!NoDispatch,
     Evaluation!NewSession, Evaluation!Snapshot, Evaluation!NoRun, Evaluation!Ended,
     Evaluation!NoCandidate, Evaluation!Init, Evaluation!Ungraded, Evaluation!Claimable,
     Evaluation!InFlight, Evaluation!Recoverable, Evaluation!Moved, Evaluation!Released,
     Evaluation!Accepts, Evaluation!Enqueue, Evaluation!Refuse, Evaluation!Fault,
     Evaluation!Running, Evaluation!RunSteps, Evaluation!SweepSteps, Evaluation!FinishSteps,
     Evaluation!answers, Evaluation!jobs, Evaluation!ApplyReceipt, Evaluation!Finish,
     Evaluation!Refinish, Evaluation!DispatchJob, Evaluation!DispatchFails,
     Evaluation!DispatchLost, Evaluation!RecordMissing, Evaluation!StampRedriven,
     Evaluation!Pick, Evaluation!PickRefused, Evaluation!Load, Evaluation!Claim,
     Evaluation!Judge, Evaluation!Holds, Evaluation!Stamped, Evaluation!Publish,
     Evaluation!FailureTrail, Evaluation!Fail, Evaluation!Settle, Evaluation!Killed,
     Evaluation!Cancelled, Evaluation!TimedOut, Evaluation!Lapses, Evaluation!LeaseLapses,
     Evaluation!ResultExpires, Evaluation!Select, Evaluation!Retire, Evaluation!NextAttempt,
     Evaluation!Charge, Evaluation!EnqueueJob, Evaluation!EnqueueFails,
     Evaluation!MarkQueued, Evaluation!Refunded, Evaluation!Refund, Evaluation!SweepCrashes,
     Evaluation!JobStep, Evaluation!JobFault, Evaluation!SweepStep, Evaluation!SweepFault,
     Evaluation!FinishStep, Evaluation!FinishFault, Evaluation!Next, Evaluation!OneGrader,
     Evaluation!BudgetSpentOnJobs, EP!vars, EP!JobIds, EP!NoJob, EP!NoClaim, EP!Orphan,
     EP!Owners, EP!Status, EP!Gradeable, EP!ActivePhases, EP!Phases, EP!Dispatch,
     EP!NoDispatch, EP!NewSession, EP!Snapshot, EP!NoRun, EP!Ended, EP!NoCandidate, EP!Init,
     EP!Ungraded, EP!Claimable, EP!InFlight, EP!Recoverable, EP!Moved, EP!Released,
     EP!Accepts, EP!Enqueue, EP!Refuse, EP!Fault, EP!Running, EP!RunSteps, EP!SweepSteps,
     EP!FinishSteps, EP!answers, EP!jobs, EP!ApplyReceipt, EP!Finish, EP!Refinish,
     EP!DispatchJob, EP!DispatchFails, EP!DispatchLost, EP!RecordMissing, EP!StampRedriven,
     EP!Pick, EP!PickRefused, EP!Load, EP!Claim, EP!Judge, EP!Holds, EP!Stamped, EP!Publish,
     EP!FailureTrail, EP!Fail, EP!Settle, EP!Killed, EP!Cancelled, EP!TimedOut, EP!Lapses,
     EP!LeaseLapses, EP!ResultExpires, EP!Select, EP!Retire, EP!NextAttempt, EP!Charge,
     EP!EnqueueJob, EP!EnqueueFails, EP!MarkQueued, EP!Refunded, EP!Refund, EP!SweepCrashes,
     EP!JobStep, EP!JobFault, EP!SweepStep, EP!SweepFault, EP!FinishStep, EP!FinishFault,
     EP!Next, EP!OneGrader, EP!BudgetSpentOnJobs

\* What that module assumes of its constants.
LEMMA EvaluationConstants == EP!ConstantsAssumption
  BY EvaluationAssumption DEF EP!ConstantsAssumption, EP!FaultKinds, Evaluation!FaultKinds

\* A behaviour of the finished interview is one of the evaluation, in which the steps of
\* the recording change nothing.
LEMMA EvaluationPart == FinishedSpec => EP!Spec
<1>1. FinishedInit => EP!Init
  BY SameEvaluation DEF FinishedInit
<1>2. [Taping(Next) \/ Evaluating(Evaluation!Next)]_allVars => [EP!Next]_EP!vars
  BY SameEvaluation DEF Taping, Evaluating, allVars, evaluationVars, EP!vars
<1>3. QED
  BY <1>1, <1>2, PTL DEF FinishedSpec, EP!Spec

\* It is one of the recording as well.
LEMMA RecordingPart == FinishedSpec => Spec
<1>1. FinishedInit => Init
  BY DEF FinishedInit
<1>2. [Taping(Next) \/ Evaluating(Evaluation!Next)]_allVars => [Next]_vars
  BY DEF Taping, Evaluating, allVars
<1>3. QED
  BY <1>1, <1>2, PTL DEF FinishedSpec, Spec

\* A finished interview is never judged by two executions at the same time, as long as
\* a lease outlives the execution that took it (services/evaluation.claim).
THEOREM OneGraderInvariant ==
  ASSUME LeaseOutlivesJob
  PROVE  FinishedSpec => []OneGrader
<1>1. EP!Spec => []EP!OneGrader
  BY LeaseOutlivesJob, EvaluationConstants, EP!OneGraderInvariant
<1>2. EP!OneGrader => OneGrader
  BY SameEvaluation DEF OneGrader
<1>3. QED
  BY <1>1, <1>2, EvaluationPart, PTL

\* Its recovery budget is spent on jobs ARQ took and keeps to its ceiling, as long as the
\* runs of the sweep do not overlap and none dies between the charge and the enqueue
\* (lifecycle._redrive_one_evaluation).
THEOREM BudgetSpentOnJobsInvariant ==
  ASSUME \A s, u \in Sweepers : s = u,
         "sweep crash" \notin JudgeFaults, "dispatch" \notin JudgeFaults
  PROVE  FinishedSpec => []BudgetSpentOnJobs
<1>1. EP!Spec => []EP!BudgetSpentOnJobs
  BY EvaluationConstants, EP!BudgetSpentOnJobsInvariant
<1>2. EP!BudgetSpentOnJobs => BudgetSpentOnJobs
  BY SameEvaluation DEF BudgetSpentOnJobs
<1>3. QED
  BY <1>1, <1>2, EvaluationPart, PTL

\* What a teacher is offered to play is there, and a settled recording stays settled,
\* whatever becomes of the evaluation.
THEOREM FinishedRecording == FinishedSpec => []PlaybackSound /\ RecordingFinal
  BY RecordingPart, PlaybackSoundInvariant, RecordingFinalAlways, PTL
=============================================================================

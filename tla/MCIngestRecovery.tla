-------------------------- MODULE MCIngestRecovery --------------------------
(* An instance of MaterialIngest for TLC in two halves, which are the two parts *)
(* of what its recovery promises: with faults and few requests, or with more   *)
(* requests and no fault.  A behaviour stays in one of them, part.              *)
EXTENDS MaterialIngest

CONSTANTS FaultyOps, SoundOps,             \* the requests of each half
          FaultyMaxOpened, SoundMaxOpened  \* bound: the last row a request opens in it

VARIABLE part

partVars == <<part, vars>>

Allowed == IF part = "faulty" THEN FaultyOps ELSE SoundOps
Limit == IF part = "faulty" THEN FaultyMaxOpened ELSE SoundMaxOpened

Within(A) == A /\ UNCHANGED part

Begins(r) == Within(RequestBegin(r) /\ request'[r].op \in Allowed)
Requesting(r) == Within(RequestStep(r) /\ request'[r].job <= Limit)

RecoveryInit == part \in {"faulty", "sound"} /\ Init

RecoveryNext ==
    \/ \E v \in Versions : Within(InitUpload(v))
    \/ \E r \in Requests : Begins(r) \/ Requesting(r)
    \/ \E w \in Workers : Within(WorkerStep(w))
    \/ Within(ReaperStep)
    \/ part = "faulty" /\ Within(Fault)

\* The fairness of MaterialIngest's FairSpec, in the half the behaviour is in.
RecoverySpec ==
    /\ RecoveryInit /\ [][RecoveryNext]_partVars
    /\ \A r \in Requests : WF_partVars(Requesting(r))
    /\ \A w \in Workers : WF_partVars(Within(WorkerStep(w)))
    /\ WF_partVars(Within(ReaperStep))
    /\ \A j \in JobIds : SF_partVars(Within(ReaperScan(j)))
=============================================================================

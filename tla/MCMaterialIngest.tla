-------------------------- MODULE MCMaterialIngest --------------------------
(* An instance of MaterialIngest for TLC: two requests, two workers and the     *)
(* reaper on one version, while nothing fails.                                  *)
EXTENDS MaterialIngest, TLC

\* The requests that schedule a task for a version that has one already.
Schedules(r, v) == CompleteBegin(r, v) \/ ReprocessBegin(r, v)

InterleavingsNext ==
    \/ \E v \in Versions : InitUpload(v)
    \/ \E r \in Requests : (\E v \in Versions : Schedules(r, v)) \/ RequestStep(r)
    \/ \E w \in Workers : WorkerStep(w)
    \/ ReaperStep

Interleavings == Init /\ [][InterleavingsNext]_vars

\* Handlers and worker slots are interchangeable (the run has no liveness).
Symmetry == Permutations(Requests) \cup Permutations(Workers)
=============================================================================

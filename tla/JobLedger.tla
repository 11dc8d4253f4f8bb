----------------------------- MODULE JobLedger -----------------------------
(* What the processing_jobs table promises, whoever writes it: a row once      *)
(* opened is settled, a settled row is never opened again, and the automatic   *)
(* re-enqueues of a row stay within their budget.                              *)
EXTENDS Integers

CONSTANTS Rows,      \* the rows of the table
          Budget     \* re-enqueues of one row

VARIABLES row,       \* "none", "open" (pending, running) or "settled"
          requeues   \* retry_count

vars == <<row, requeues>>

Init == row = [j \in Rows |-> "none"] /\ requeues = [j \in Rows |-> 0]

\* What one commit may do to the outcome of a row.
MayBecome(old, new) ==
    \/ new = old
    \/ old = "none" /\ new \in {"open", "settled"}
    \/ old = "open" /\ new = "settled"

\* One commit: any number of rows are opened or settled, at most one re-enqueued.
Write ==
    /\ row' \in [Rows -> {"none", "open", "settled"}]
    /\ \A j \in Rows : MayBecome(row[j], row'[j])
    /\ \/ UNCHANGED requeues
       \/ \E j \in Rows : /\ row[j] # "none"
                          /\ requeues[j] < Budget
                          /\ requeues' = [requeues EXCEPT ![j] = @ + 1]

Next == Write

Spec == Init /\ [][Next]_vars

\* No row stays open for ever.
Settles == \A j \in Rows : row[j] = "open" ~> row[j] = "settled"
=============================================================================

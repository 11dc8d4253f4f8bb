---------------------------- MODULE AttemptLedger ----------------------------
(* What a quiz promises of a student's attempts, whoever starts, closes or     *)
(* marks them: they are opened one after the other, the next only once the     *)
(* last is closed and no more than the limit, and a closed one stays closed.   *)
EXTENDS Integers

CONSTANTS Rows,      \* numbers of attempts
          Limit      \* attempts a student has

VARIABLE phase       \* "none", "open" or "closed"

Init == phase = [n \in Rows |-> "none"]

Open(n) ==
    /\ phase[n] = "none"
    /\ n <= Limit
    /\ \A m \in Rows : m < n => phase[m] = "closed"
    /\ phase' = [phase EXCEPT ![n] = "open"]

Close(n) ==
    /\ phase[n] = "open"
    /\ phase' = [phase EXCEPT ![n] = "closed"]

Next == \E n \in Rows : Open(n) \/ Close(n)

Spec == Init /\ [][Next]_phase
=============================================================================

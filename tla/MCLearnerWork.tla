--------------------------- MODULE MCLearnerWork ------------------------------
(* An instance of LearnerWork for TLC: one tab that may send everything twice,  *)
(* two runs of the recovery that may overlap, and a quiz with an open question, *)
(* one on code and a closed one, with a sweep that abandons.                    *)
EXTENDS LearnerWork, TLC

\* Requests, runs of the recovery and answers are interchangeable.
Symmetry == Permutations(Finishers) \cup Permutations(Sweepers) \cup Permutations(Receipts)
            \cup Permutations(Starts) \cup Permutations(Requests)
=============================================================================

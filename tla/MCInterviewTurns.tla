-------------------------- MODULE MCInterviewTurns --------------------------
(* Instances of InterviewTurns for TLC. *)
EXTENDS InterviewTurns, TLC
=============================================================================

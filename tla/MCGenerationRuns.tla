-------------------------- MODULE MCGenerationRuns --------------------------
(* Instances of GenerationRuns for TLC. *)
EXTENDS GenerationRuns, TLC
=============================================================================

------------------------------ MODULE MCPipeline ------------------------------
(* Pipeline on small sets of questions, phrases and metrics. *)
EXTENDS PipelineContract, TLC

Symmetry == Permutations(Requests)
=============================================================================

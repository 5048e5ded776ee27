--------------------------- MODULE MCPollPipeline ---------------------------
(* Small instances of PollPipeline for TLC. *)
EXTENDS PollPipeline, TLC

Symmetry == Permutations(Job) \cup Permutations(Replica)
=============================================================================

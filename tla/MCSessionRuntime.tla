-------------------------- MODULE MCSessionRuntime --------------------------
(* Symmetric instances and prompts for the safety runs of SessionRuntime. *)
EXTENDS SessionRuntime, TLC

Interchangeable == Permutations(Instance) \union Permutations(Prompt)
=============================================================================

----------------------------- MODULE MCPipeline -----------------------------
(* Pipeline for TLC: the control threads are interchangeable.               *)
EXTENDS Pipeline, TLC

ThreadSymmetry == Permutations(Threads)
=============================================================================

------------------------------ MODULE MCBatch ------------------------------
(* Model values and symmetry for the runs of Batch. *)
EXTENDS Batch, TLC

Symmetry == Permutations(Requests) \cup Permutations(Traces)
=============================================================================

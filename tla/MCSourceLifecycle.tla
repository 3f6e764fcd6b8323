-------------------------- MODULE MCSourceLifecycle --------------------------
(* Instances of SourceLifecycle for TLC. *)
EXTENDS SourceLifecycle, TLC

\* Revision ids and runs are interchangeable.
Symmetry == Permutations(Revs) \cup Permutations(Runs)
=============================================================================

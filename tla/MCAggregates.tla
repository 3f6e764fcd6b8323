---------------------------- MODULE MCAggregates ----------------------------
(* Instances of Aggregates for TLC. *)
EXTENDS Aggregates, TLC

\* Sources, kinds and calls are interchangeable.
Symmetry ==
  Permutations(Sources) \cup Permutations(Buckets) \cup Permutations(Calls)
=============================================================================

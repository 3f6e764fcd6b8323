--------------------------- MODULE SourceQuarantine ---------------------------
(***************************************************************************)
(* SourceLifecycle with the history of its quarantine: held from the       *)
(* operator's quarantine to the operator's release, whatever the row's     *)
(* health says meanwhile.                                                  *)
(***************************************************************************)
EXTENDS SourceLifecycle, TLC

VARIABLE held

HeldInit == SourceInit /\ held = FALSE

HeldNext ==
  \/ Quarantine /\ held' = TRUE
  \/ Release /\ held' = FALSE
  \/ SourceNext /\ ~Quarantine /\ ~Release /\ UNCHANGED held

HeldSpec == HeldInit /\ [][HeldNext]_<<sourceVars, held>>

\* A quarantine lasts until an operator releases it (docs/design.md: a
\* quarantine needs an explicit release): an enabled source that was put in
\* quarantine and not released still is in quarantine.
HeldUntilReleased == held /\ enabled => health = "quarantined"

\* Revision ids are interchangeable.
Symmetry == Permutations(Revs)
=============================================================================

------------------------------- MODULE MCSource -------------------------------
(***************************************************************************)
(* SourceLifecycle within two sets of bounds, one of them chosen at the    *)
(* start: the review of many contents by syncs of which none fails, and    *)
(* the health of a source with two revisions and contents under every      *)
(* kind of run.                                                            *)
(***************************************************************************)
EXTENDS MCSourceLifecycle

VARIABLE focus

Inserted == {q \in Revs : revs[q].status # "none"}

\* Within the bounds of the focus.
InFocus ==
  CASE focus = "review" ->
         \A r \in Runs :
           runs[r].kind \in {"idle", "sync"} /\ runs[r].got \notin {"failure", "malformed"}
    [] focus = "health" ->
         /\ Cardinality(Inserted) <= 2
         /\ upstream <= 2 /\ \A r \in Runs : runs[r].content <= 2

FocusedInit == SourceInit /\ focus \in {"review", "health"}
FocusedNext == UNCHANGED focus /\ SourceNext /\ InFocus'
FocusedSpec == FocusedInit /\ [][FocusedNext]_<<sourceVars, focus>>
=============================================================================

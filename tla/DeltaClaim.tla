----------------------------- MODULE DeltaClaim -----------------------------
(***************************************************************************)
(* What apply_delta is documented to do with references between files, and *)
(* what the code does not do: refuted by a run of its own.                 *)
(***************************************************************************)
EXTENDS IndexingProps

VARIABLE linked  \* the references that had an edge when apply_delta began

AnyDelta == \E delta \in Deltas : StartApplyDelta(delta[1], delta[2])

\* The pipeline, with this one thing remembered.
DeltaSpec ==
    /\ Init /\ linked = {}
    /\ [][/\ Next
          /\ linked' = IF AnyDelta THEN {r \in Mentions : HasEdge(db, r)} ELSE linked]_<<vars, linked>>

\* "resolve_and_persist is called once to rebuild cross-file reference edges"
\* (CodeGraph.apply_delta): a reference that had its edge before, whose
\* definition is still there and whose name still has a target, has an edge
\* after the resolution of apply_delta, if that sees the current nodes.
CrossFileEdgesRebuilt ==
    job.op = "apply_delta" /\ job.pc = "tests" /\ ctx.nodes = db.nodes =>
        \A r \in linked : r.from \in db.nodes /\ Targets(db.nodes, r) # {} => HasEdge(db, r)
=============================================================================

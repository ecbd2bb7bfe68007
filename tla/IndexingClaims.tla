--------------------------- MODULE IndexingClaims ---------------------------
(***************************************************************************)
(* What the README says of refreshing an index, and what the code does not *)
(* do: refuted by a run of its own.                                        *)
(***************************************************************************)
EXTENDS IndexingProps

\* "keep one CodeGraph instance open per indexed project" and "repeat
\* index_all() to refresh incrementally" (README): the references of the files
\* that changed are resolved in the end.
OneHandleSpec == Spec /\ WF_vars(Step) /\ SF_vars(StartIndexAll)

RefreshesResolve == <>[][Step \/ StartIndexAll]_vars => <>[](saved.refs = EmptyBag)
=============================================================================

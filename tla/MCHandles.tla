----------------------------- MODULE MCHandles -----------------------------
(***************************************************************************)
(* Two handles, two files of one node each, and a cache for one node; one  *)
(* claim with two groundings.                                              *)
(***************************************************************************)
EXTENDS Handles, TLC

CONSTANTS x, y, f, g

MCFileOf == x :> f @@ y :> g
MCGroundings == [l \in Load |-> Span]

\* The two files with their nodes.
Swap == x :> y @@ y :> x @@ f :> g @@ g :> f
MCSymmetry == Permutations(Handle) \cup Permutations(Span) \cup Permutations(Version) \cup {Swap}
=============================================================================

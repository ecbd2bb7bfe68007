------------------------------ MODULE MCDelta ------------------------------
(***************************************************************************)
(* The project of MCIndexing for DeltaClaim.                               *)
(***************************************************************************)
EXTENDS MCIndexing, DeltaClaim
=============================================================================

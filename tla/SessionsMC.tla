---------------------------- MODULE SessionsMC -----------------------------
(***************************************************************************)
(* The instance of Sessions for TLC.                                       *)
(***************************************************************************)
EXTENDS Sessions, TLC

Symmetry == Permutations(SessionIds) \cup Permutations(Handlers)
=============================================================================

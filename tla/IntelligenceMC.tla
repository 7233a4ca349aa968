--------------------------- MODULE IntelligenceMC ----------------------------
(* Instances of Intelligence for TLC. *)
EXTENDS Intelligence, TLC

\* No action or property names a caller.
MCSymmetry == Permutations(Callers)
=============================================================================

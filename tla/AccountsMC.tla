----------------------------- MODULE AccountsMC ------------------------------
(* Instances of Accounts for TLC. *)
EXTENDS Accounts, TLC

\* No action or property names a handler.
MCSymmetry == Permutations(Handlers)
=============================================================================

----------------------------- MODULE MCGovernor -----------------------------
(* Small instances of Governor for TLC. *)
EXTENDS Governor, TLC

\* Scope ids and hold ids are interchangeable: no operation orders them.
Symmetry == Permutations(Scopes) \cup Permutations(HoldIds)

=============================================================================

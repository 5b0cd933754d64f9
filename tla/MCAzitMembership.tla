-------------------------- MODULE MCAzitMembership --------------------------
(* Instances of AzitMembership for TLC. *)
EXTENDS AzitMembership, TLC

\* Requests and users are interchangeable: no action or property names one.
Symmetry == Permutations(Requests) \union Permutations(Users)
=============================================================================

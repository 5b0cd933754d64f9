---------------------------- MODULE MCInteraction ----------------------------
(* Instances of Interaction for TLC. *)
EXTENDS Interaction, TLC

\* Requests, users and targets are interchangeable: no action or property names one.
Symmetry == Permutations(Requests) \union Permutations(Users) \union Permutations(Targets)
=============================================================================

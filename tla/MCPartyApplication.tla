------------------------- MODULE MCPartyApplication -------------------------
(* Instances of PartyApplication for TLC. *)
EXTENDS PartyApplication, TLC

\* Requests and users are interchangeable: no action or property names one.
Symmetry == Permutations(Requests) \union Permutations(Users)
=============================================================================

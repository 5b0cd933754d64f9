--------------------------- MODULE MCAzitSchedule ---------------------------
(* Instances of AzitSchedule for TLC. *)
EXTENDS AzitSchedule, TLC

\* Requests and users are interchangeable: no action or property names one.
Symmetry == Permutations(Requests) \union Permutations(Users)
=============================================================================

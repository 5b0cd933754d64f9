---------------------------- MODULE MCFriendship ----------------------------
(* Instances of Friendship for TLC. *)
EXTENDS Friendship, TLC

\* Requests and users are interchangeable: no action or property names one.
Symmetry == Permutations(Requests) \union Permutations(Users)
=============================================================================

----------------------------- MODULE MCPresence -----------------------------
(* Instances of Presence for TLC. *)
EXTENDS Presence, TLC

\* Sockets and users are interchangeable: no action names one.
Symmetry == Permutations(Sockets) \union Permutations(Users)
=============================================================================

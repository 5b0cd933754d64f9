------------------------------ MODULE Reactions ------------------------------
(***************************************************************************)
(* What likes and comments promise, whoever implements them: a user either *)
(* likes a target or does not; one step changes the reactions of one user  *)
(* to one target, unless the target goes and takes all of them with it.    *)
(* There are no reactions to what is not there.                            *)
(***************************************************************************)
CONSTANTS Users, Targets, Comments

VARIABLES
  live,  \* targets that exist
  liked, \* pairs <<user, target>>
  said   \* triples <<comment, user, target>>

Init == live = {} /\ liked = {} /\ said = {}

Appear(t) == live' = live \union {t} /\ UNCHANGED <<liked, said>>

Vanish(t) ==
  /\ live' = live \ {t}
  /\ liked' = {x \in liked : x[2] # t}
  /\ said' = {x \in said : x[3] # t}

Like(u, t)   == t \in live /\ liked' = liked \union {<<u, t>>} /\ UNCHANGED <<live, said>>
Unlike(u, t) == liked' = liked \ {<<u, t>>} /\ UNCHANGED <<live, said>>

Say(c, u, t) ==
  /\ t \in live
  /\ \A x \in said : x[1] # c
  /\ said' = said \union {<<c, u, t>>}
  /\ UNCHANGED <<live, liked>>

Retract(c) == said' = {x \in said : x[1] # c} /\ UNCHANGED <<live, liked>>

Next ==
  \/ \E t \in Targets : Appear(t) \/ (t \in live /\ Vanish(t))
  \/ \E u \in Users, t \in Targets :
       \/ Like(u, t) \/ Unlike(u, t)
       \/ \E c \in Comments : Say(c, u, t)
  \/ \E c \in Comments : Retract(c)

Spec == Init /\ [][Next]_<<live, liked, said>>
=============================================================================

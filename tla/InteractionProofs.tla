-------------------------- MODULE InteractionProofs --------------------------
(***************************************************************************)
(* However the requests of the three services overlap with each other and  *)
(* with the changes of targets and members, for any users, targets,        *)
(* requests and bounds: likes of a user and a target are at most as many   *)
(* as the requests in flight, who reacts could see the target, comments    *)
(* change or go only at the hands of their author, with their target or    *)
(* with their parent, and the tables implement Reactions.                  *)
(***************************************************************************)
EXTENDS Interaction, FiniteSetTheorems, TLAPS

\* TypeOK without the requests.
TablesTyped ==
  /\ DOMAIN targets \subseteq Targets /\ gone \subseteq Targets \ DOMAIN targets
  /\ \A t \in DOMAIN targets : targets[t] \in Target
  /\ azit \in BOOLEAN /\ members \subseteq Users
  /\ DOMAIN likes \subseteq LikeId /\ DOMAIN comments \subseteq CommentId
  /\ \A i \in DOMAIN likes : likes[i] \in Like
  /\ \A i \in DOMAIN comments : comments[i] \in Comment
  /\ nextLike \in 1..MaxRow + 1 /\ nextComment \in 1..MaxRow + 1

\* An azit that is gone has neither members nor highlights.
AzitGone ==
  /\ ~ azit => members = {}
  /\ \A t \in DOMAIN targets : targets[t].azit => azit

\* Foreign keys and fresh ids.
LikesRefer ==
  \A i \in DOMAIN likes : i < nextLike /\ likes[i].target \in DOMAIN targets \union {None}

\* A reply is in the table of the comment it replies to.
CommentsRefer ==
  \A i \in DOMAIN comments :
    /\ i < nextComment
    /\ comments[i].target \in DOMAIN targets \union {None}
    /\ comments[i].parent # None =>
         /\ comments[i].parent \in DOMAIN comments
         /\ OnParty(comments[i].parent) <=> OnParty(i)

\* The unique key of user_post_like.
PartyLikedOnce ==
  \A u \in Users, t \in DOMAIN targets :
    targets[t].kind = "party" => \A i, j \in LikesOf(u, t) : i = j

TablesOK == TablesTyped /\ AzitGone /\ LikesRefer /\ CommentsRefer /\ PartyLikedOnce

Interacts(q) == q.op \in {"toggle", "comment"}
LikesInAzit(q) == q.op \in {"add", "remove"}
Edits(q) == q.op \in {"retract", "revise"}

\* Which steps belong to which operation.
Shape(q) ==
  /\ q.pc = "member" => Interacts(q)
  /\ q.pc \in {"find", "again"} => LikesInAzit(q)
  /\ q.pc = "look" => q.op = "toggle" \/ LikesInAzit(q)
  /\ q.pc = "parent" => q.op = "comment"

\* The target that was read is there or gone for good, with the kind it had, and in the azit
\* if it was and the azit still exists.
TargetRead(q) ==
  Interacts(q) \/ (LikesInAzit(q) /\ q.pc # "find") =>
    /\ q.target \in DOMAIN targets \union gone
    /\ q.target \in DOMAIN targets =>
         /\ Interacts(q) => (q.party = TRUE <=> targets[q.target].kind = "party")
         /\ LikesInAzit(q) => targets[q.target].kind = "highlight"
         /\ LikesInAzit(q) \/ q.pc = "member" => (azit => targets[q.target].azit)

\* Access has been decided while the caller could see the target.
Seen(q) ==
  (Interacts(q) /\ q.pc # "member") \/ (q.op = "add" /\ q.pc = "write") =>
    (q.target \in DOMAIN targets => q.could)

\* The comment to edit, if it is still there, is the caller's.
OwnComment(q) ==
  Edits(q) =>
    /\ q.comment \in CommentId /\ q.comment < nextComment
    /\ q.comment \in DOMAIN comments => comments[q.comment].user = q.user

\* Who likes is a user, and what is liked a target.
Caller(q) == Interacts(q) \/ LikesInAzit(q) => q.user \in Users /\ q.target \in Targets

\* What a request may still rely on.
SoundRequest(q) == Shape(q) /\ Caller(q) /\ TargetRead(q) /\ Seen(q) /\ OwnComment(q)

Bounded(u, t) ==
  Cardinality(LikesOf(u, t)) + Cardinality(AboutToLike(u, t)) <= Cardinality(Requests)

Inv ==
  /\ TablesOK
  /\ req \in [Requests -> Request]
  /\ \A r \in Requests : SoundRequest(req[r])
  /\ \A u \in Users, t \in Targets : Bounded(u, t)
-----------------------------------------------------------------------------
LEMMA IdleRequest ==
  /\ Idle \in Request /\ Idle.op = "idle" /\ Idle.pc = "idle" /\ Idle.could = FALSE
  /\ SoundRequest(Idle)
BY DEF Idle, Request, Ops, Pcs, SoundRequest, Shape, Caller, TargetRead, Seen, OwnComment, Interacts,
       LikesInAzit, Edits

LEMMA InitInv == Init => Inv
<1> SUFFICES ASSUME Init PROVE Inv
  OBVIOUS
<1>1. TablesOK
  BY InteractionAssumption
     DEF Init, TablesOK, TablesTyped, AzitGone, LikesRefer, CommentsRefer, PartyLikedOnce, LikesOf
<1>2. req \in [Requests -> Request] /\ \A r \in Requests : SoundRequest(req[r])
  BY IdleRequest DEF Init
<1>3. ASSUME NEW u \in Users, NEW t \in Targets PROVE Bounded(u, t)
  <2>1. LikesOf(u, t) = {} /\ AboutToLike(u, t) = {}
    BY IdleRequest DEF Init, LikesOf, AboutToLike, Inserting
  <2>2. Cardinality(Requests) \in Nat
    BY FS_CardinalityType, InteractionAssumption
  <2> QED BY <2>1, <2>2, FS_EmptySet DEF Bounded
<1> QED BY <1>1, <1>2, <1>3 DEF Inv
-----------------------------------------------------------------------------
(* What others do leaves a request sound. *)

\* Ids are not used again, kinds stay, highlights leave the azit only with the azit.
TargetsKept ==
  \A t \in DOMAIN targets \union gone :
    /\ t \in DOMAIN targets' \union gone'
    /\ t \in DOMAIN targets' =>
         /\ t \in DOMAIN targets
         /\ targets'[t].kind = targets[t].kind
         /\ azit' => azit /\ (targets[t].azit => targets'[t].azit)

CommentsKept ==
  /\ nextComment' >= nextComment
  /\ \A i \in DOMAIN comments' :
       i < nextComment => i \in DOMAIN comments /\ comments'[i].user = comments[i].user

LEMMA SoundStable ==
  ASSUME NEW q, SoundRequest(q), TablesOK, TargetsKept, CommentsKept, nextComment' \in Nat
  PROVE  SoundRequest(q)'
<1>1. (Shape(q) /\ Caller(q))'
  BY DEF SoundRequest, Shape, Caller, Interacts, LikesInAzit
<1>2. TargetRead(q)'
  BY DEF SoundRequest, TargetRead, Interacts, LikesInAzit, TargetsKept
<1>3. Seen(q)'
  BY DEF SoundRequest, Seen, TargetRead, Interacts, LikesInAzit, TargetsKept
<1>4. OwnComment(q)'
  <2>1. nextComment \in Nat /\ CommentId \subseteq Nat
    BY InteractionAssumption DEF TablesOK, TablesTyped, CommentId
  <2>2. ASSUME Edits(q)
        PROVE  /\ q.comment \in CommentId /\ q.comment < nextComment'
               /\ q.comment \in DOMAIN comments' => comments'[q.comment].user = q.user
    <3>1. /\ q.comment \in Nat /\ q.comment \in CommentId /\ q.comment < nextComment
          /\ q.comment \in DOMAIN comments => comments[q.comment].user = q.user
      BY <2>1, <2>2 DEF SoundRequest, OwnComment
    <3>2. q.comment < nextComment'
      BY <2>1, <3>1 DEF CommentsKept
    <3> QED BY <3>1, <3>2 DEF CommentsKept
  <2> QED BY <2>2 DEF OwnComment, Edits
<1> QED BY <1>1, <1>2, <1>3, <1>4 DEF SoundRequest

\* The request that steps is replaced by q; the others stay.
LEMMA RequestUpdate ==
  ASSUME NEW r \in Requests, NEW q \in Request, req \in [Requests -> Request],
         req' = [req EXCEPT ![r] = q]
  PROVE  /\ req' \in [Requests -> Request]
         /\ req'[r] = q
         /\ \A s \in Requests : s # r => req'[s] = req[s]
OBVIOUS

\* Requests that stay, or return, are sound after every step that keeps targets and comments.
LEMMA OthersSound ==
  ASSUME Inv, TargetsKept, CommentsKept, nextComment' \in Nat,
         NEW s \in Requests, req'[s] = req[s] \/ req'[s] = Idle
  PROVE  SoundRequest(req[s])'
<1>1. PICK p : SoundRequest(p) /\ req'[s] = p
  BY IdleRequest DEF Inv
<1>2. SoundRequest(p)'
  BY <1>1, SoundStable DEF Inv
<1> QED BY <1>1, <1>2 DEF SoundRequest, Shape, Caller, TargetRead, Seen, OwnComment, Interacts,
                          LikesInAzit, Edits
-----------------------------------------------------------------------------
(* Counting likes and those about to like. *)

LEMMA CountsFinite ==
  ASSUME Inv, NEW u, NEW t
  PROVE  /\ IsFiniteSet(LikesOf(u, t)) /\ Cardinality(LikesOf(u, t)) \in Nat
         /\ IsFiniteSet(AboutToLike(u, t)) /\ Cardinality(AboutToLike(u, t)) \in Nat
         /\ Cardinality(Requests) \in Nat
<1>1. IsFiniteSet(LikeId) /\ LikesOf(u, t) \subseteq LikeId
  BY FS_Interval, InteractionAssumption DEF Inv, TablesOK, TablesTyped, LikeId, LikesOf
<1>2. IsFiniteSet(Requests) /\ AboutToLike(u, t) \subseteq Requests
  BY InteractionAssumption DEF AboutToLike
<1>3. IsFiniteSet(LikesOf(u, t)) /\ IsFiniteSet(AboutToLike(u, t))
  BY <1>1, <1>2, FS_Subset
<1> QED BY <1>2, <1>3, FS_CardinalityType

\* Likes and requests that only disappear keep the bound.
LEMMA FewerBounded ==
  ASSUME Inv, NEW u \in Users, NEW t \in Targets,
         LikesOf(u, t)' \subseteq LikesOf(u, t),
         AboutToLike(u, t)' \subseteq AboutToLike(u, t)
  PROVE  Bounded(u, t)'
<1>1. /\ IsFiniteSet(LikesOf(u, t)) /\ Cardinality(LikesOf(u, t)) \in Nat
      /\ IsFiniteSet(AboutToLike(u, t)) /\ Cardinality(AboutToLike(u, t)) \in Nat
      /\ Cardinality(Requests) \in Nat
  BY CountsFinite
<1>2. /\ Cardinality(LikesOf(u, t)') <= Cardinality(LikesOf(u, t))
      /\ Cardinality(AboutToLike(u, t)') <= Cardinality(AboutToLike(u, t))
      /\ IsFiniteSet(LikesOf(u, t)') /\ IsFiniteSet(AboutToLike(u, t)')
  BY <1>1, FS_Subset
<1>3. Cardinality(LikesOf(u, t)') \in Nat /\ Cardinality(AboutToLike(u, t)') \in Nat
  BY <1>2, FS_CardinalityType
<1>4. Cardinality(LikesOf(u, t)) + Cardinality(AboutToLike(u, t)) <= Cardinality(Requests)
  BY DEF Inv, Bounded
<1> QED BY <1>1, <1>2, <1>3, <1>4 DEF Bounded

\* A target the user does not like may have every request in flight about to like it.
LEMMA UnlikedBounded ==
  ASSUME NEW u, NEW t, LikesOf(u, t)' = {}
  PROVE  Bounded(u, t)'
<1>1. AboutToLike(u, t)' \subseteq Requests
  BY DEF AboutToLike
<1>2. /\ Cardinality(AboutToLike(u, t)') <= Cardinality(Requests)
      /\ IsFiniteSet(AboutToLike(u, t)')
  BY <1>1, FS_Subset, InteractionAssumption
<1>3. Cardinality(AboutToLike(u, t)') \in Nat /\ Cardinality(Requests) \in Nat
  BY <1>2, FS_CardinalityType, InteractionAssumption
<1> QED BY <1>2, <1>3, FS_EmptySet DEF Bounded

\* A request that inserts its like is no longer about to.
LEMMA MovedBounded ==
  ASSUME Inv, NEW u \in Users, NEW t \in Targets, NEW n, NEW r \in AboutToLike(u, t),
         LikesOf(u, t)' = LikesOf(u, t) \union {n},
         AboutToLike(u, t)' = AboutToLike(u, t) \ {r}
  PROVE  Bounded(u, t)'
<1>1. /\ IsFiniteSet(LikesOf(u, t)) /\ Cardinality(LikesOf(u, t)) \in Nat
      /\ IsFiniteSet(AboutToLike(u, t)) /\ Cardinality(AboutToLike(u, t)) \in Nat
      /\ Cardinality(Requests) \in Nat
  BY CountsFinite
<1>2. Cardinality(LikesOf(u, t)') \in {Cardinality(LikesOf(u, t)), Cardinality(LikesOf(u, t)) + 1}
  BY <1>1, FS_AddElement
<1>3. Cardinality(AboutToLike(u, t)') = Cardinality(AboutToLike(u, t)) - 1
  BY <1>1, FS_RemoveElement
<1>4. Cardinality(LikesOf(u, t)) + Cardinality(AboutToLike(u, t)) <= Cardinality(Requests)
  BY DEF Inv, Bounded
<1> QED BY <1>1, <1>2, <1>3, <1>4 DEF Bounded
-----------------------------------------------------------------------------
(* Steps that read. *)

Marked(q) == IF Sees(q) THEN [q EXCEPT !.could = TRUE] ELSE q

LEMMA MarkedRequest ==
  ASSUME NEW q \in Request
  PROVE  /\ Marked(q) \in Request
         /\ Marked(q).op = q.op /\ Marked(q).pc = q.pc /\ Marked(q).user = q.user
         /\ Marked(q).target = q.target /\ Marked(q).party = q.party
         /\ Marked(q).like = q.like /\ Marked(q).comment = q.comment
         /\ q.could \/ Sees(q) => Marked(q).could
BY DEF Marked, Request

\* Seeing the target marks the request, which is all the mark is for.
LEMMA MarkedSound ==
  ASSUME NEW q \in Request, Shape(q), Caller(q), TargetRead(q), OwnComment(q),
         Seen(q) \/ Sees(q)
  PROVE  SoundRequest(Marked(q))
BY MarkedRequest DEF SoundRequest, Shape, Caller, TargetRead, Seen, OwnComment, Interacts, LikesInAzit,
                     Edits

WillLike(q) == Inserting(q) \/ (q.op = "add" /\ q.pc = "again")

\* A read leaves a sound request behind, which is about to like only what it was about to
\* like, or what its user did not like when it looked.
LEMMA ReadInv ==
  ASSUME Inv, NEW r \in Requests, NEW q \in Request, Reads, SoundRequest(q),
         req' = [req EXCEPT ![r] = q],
         WillLike(q) => \/ /\ WillLike(req[r])
                           /\ req[r].user = q.user /\ req[r].target = q.target
                        \/ LikesOf(q.user, q.target) = {}
  PROVE  Inv'
<1>1. /\ req' \in [Requests -> Request]
      /\ req'[r] = q
      /\ \A s \in Requests : s # r => req'[s] = req[s]
  BY RequestUpdate DEF Inv
<1>2. TablesOK'
  BY DEF Inv, TablesOK, TablesTyped, AzitGone, LikesRefer, CommentsRefer, PartyLikedOnce, LikesOf,
         OnParty, Reads, content, reactions
<1>3. ASSUME NEW s \in Requests PROVE SoundRequest(req[s])'
  <2>1. SoundRequest(req'[s])
    BY <1>1 DEF Inv
  <2> QED BY <2>1 DEF SoundRequest, Shape, Caller, TargetRead, Seen, OwnComment, Reads, content,
                      reactions
<1>4. ASSUME NEW u \in Users, NEW t \in Targets PROVE Bounded(u, t)'
  <2>1. LikesOf(u, t)' = LikesOf(u, t)
    BY DEF LikesOf, Reads, reactions
  <2>2. CASE LikesOf(u, t) = {}
    BY <2>1, <2>2, UnlikedBounded
  <2>3. CASE LikesOf(u, t) # {}
    <3>1. AboutToLike(u, t)' \subseteq AboutToLike(u, t)
      BY <1>1, <2>3 DEF AboutToLike, WillLike, Inserting
    <3> QED BY <2>1, <3>1, FewerBounded
  <2> QED BY <2>2, <2>3
<1> QED BY <1>1, <1>2, <1>3, <1>4 DEF Inv

LEMMA BecomeInv ==
  ASSUME Inv, NEW r \in Requests, NEW q \in Request, Reads, Become(r, q),
         Shape(q), Caller(q), TargetRead(q), OwnComment(q), Seen(q) \/ Sees(q),
         WillLike(q) => \/ /\ WillLike(req[r])
                           /\ req[r].user = q.user /\ req[r].target = q.target
                        \/ LikesOf(q.user, q.target) = {}
  PROVE  Inv'
<1>1. SoundRequest(Marked(q))
  BY MarkedSound
<1>2. req' = [req EXCEPT ![r] = Marked(q)]
  BY DEF Become, Marked
<1>3. WillLike(Marked(q)) <=> WillLike(q)
  BY MarkedRequest DEF WillLike, Inserting
<1> QED BY <1>1, <1>2, <1>3, MarkedRequest, ReadInv

LEMMA ReturnInv == ASSUME Inv, NEW r \in Requests, Reads, Return(r) PROVE Inv'
<1>1. ~ WillLike(Idle)
  BY IdleRequest DEF WillLike, Inserting
<1> QED BY <1>1, IdleRequest, ReadInv DEF Return

LEMMA StartInteractionInv ==
  ASSUME Inv, NEW r \in Requests,
         StartInteraction(r, "toggle", "look") \/ StartInteraction(r, "comment", "parent")
  PROVE  Inv'
<1>1. PICK op \in {"toggle", "comment"}, next \in {"look", "parent"},
           u \in Users, t \in DOMAIN targets, c \in CommentId \union {None}, pc \in {"member", "look", "parent"} :
        /\ pc = "member" \/ pc = next
        /\ op = "toggle" <=> next = "look"
        /\ Become(r, [Idle EXCEPT !.op = op, !.party = (targets[t].kind = "party"),
                                  !.user = u, !.target = t, !.comment = c, !.pc = pc])
        /\ pc = "member" => NeedsMember(t)
        /\ pc # "member" => OpenTo(u, t)
  BY DEF StartInteraction, Begin
<1> DEFINE q == [Idle EXCEPT !.op = op, !.party = (targets[t].kind = "party"),
                             !.user = u, !.target = t, !.comment = c, !.pc = pc]
<1>2. t \in Targets /\ (targets[t].kind = "party") \in BOOLEAN
  BY DEF Inv, TablesOK, TablesTyped
<1>3. /\ q \in Request /\ q.op = op /\ q.pc = pc /\ q.user = u /\ q.target = t
      /\ q.party = TRUE <=> targets[t].kind = "party"
  BY <1>2 DEF Idle, Request, Ops, Pcs
<1>4. Reads /\ Become(r, q)
  BY <1>1 DEF StartInteraction
<1> HIDE DEF q
<1>5. Shape(q) /\ Caller(q) /\ OwnComment(q) /\ ~ WillLike(q)
  BY <1>1, <1>2, <1>3 DEF Shape, Caller, OwnComment, WillLike, Inserting, Interacts, LikesInAzit, Edits
<1>6. TargetRead(q)
  BY <1>1, <1>3 DEF TargetRead, Interacts, LikesInAzit, NeedsMember
<1>7. Seen(q) \/ Sees(q)
  BY <1>1, <1>3 DEF Seen, Sees, MaySee, OpenTo, Interacts
<1> QED BY <1>3, <1>4, <1>5, <1>6, <1>7, BecomeInv

\* What a read of a request already in flight does to it.
LEMMA GotoFields ==
  ASSUME NEW q \in Request, NEW pc \in Pcs
  PROVE  LET p == [q EXCEPT !.pc = pc] IN
         /\ p \in Request
         /\ p.op = q.op /\ p.pc = pc /\ p.user = q.user /\ p.target = q.target
         /\ p.party = q.party /\ p.like = q.like /\ p.comment = q.comment /\ p.could = q.could
BY DEF Request

LEMMA GotoInv ==
  ASSUME Inv, NEW r \in Requests, NEW pc \in Pcs, Reads, Goto(r, pc),
         Shape([req[r] EXCEPT !.pc = pc]),
         TargetRead([req[r] EXCEPT !.pc = pc]),
         Seen([req[r] EXCEPT !.pc = pc]) \/ Sees(req[r]),
         WillLike([req[r] EXCEPT !.pc = pc]) =>
           WillLike(req[r]) \/ LikesOf(req[r].user, req[r].target) = {}
  PROVE  Inv'
<1> DEFINE q == [req[r] EXCEPT !.pc = pc]
<1>1. req[r] \in Request /\ SoundRequest(req[r])
  BY DEF Inv
<1>2. /\ q \in Request
      /\ q.op = req[r].op /\ q.pc = pc /\ q.user = req[r].user /\ q.target = req[r].target
      /\ q.party = req[r].party /\ q.like = req[r].like /\ q.comment = req[r].comment
      /\ q.could = req[r].could
  BY <1>1, GotoFields
<1>3. /\ Become(r, q) /\ Shape(q) /\ TargetRead(q)
      /\ Seen(q) \/ Sees(req[r])
      /\ WillLike(q) => WillLike(req[r]) \/ LikesOf(req[r].user, req[r].target) = {}
  BY DEF Goto
<1> HIDE DEF q
<1>4. Caller(q) /\ OwnComment(q)
  BY <1>1, <1>2 DEF SoundRequest, Caller, OwnComment, Interacts, LikesInAzit, Edits
<1>5. Seen(q) \/ Sees(q)
  BY <1>2, <1>3 DEF Sees
<1>6. WillLike(q) => \/ /\ WillLike(req[r])
                        /\ req[r].user = q.user /\ req[r].target = q.target
                     \/ LikesOf(q.user, q.target) = {}
  BY <1>2, <1>3
<1> QED BY <1>2, <1>3, <1>4, <1>5, <1>6, BecomeInv

LEMMA CheckMemberInv == ASSUME Inv, NEW r \in Requests, CheckMember(r) PROVE Inv'
<1>1. CASE Return(r)
  BY <1>1, ReturnInv DEF CheckMember
<1>2. CASE ~ Return(r)
  <2> DEFINE next == IF req[r].op = "toggle" THEN "look" ELSE "parent"
             q == [req[r] EXCEPT !.pc = next]
  <2>1. /\ req[r].pc = "member" /\ req[r].user \in members /\ Goto(r, next) /\ Reads
        /\ req[r] \in Request /\ SoundRequest(req[r]) /\ next \in Pcs
    BY <1>2 DEF CheckMember, Inv, Pcs
  <2>2. /\ q.op = req[r].op /\ q.pc = next /\ q.target = req[r].target /\ q.user = req[r].user
        /\ q.could = req[r].could /\ q.party = req[r].party
    BY <2>1, GotoFields
  <2>3. Interacts(req[r]) /\ (next = "look" <=> req[r].op = "toggle") /\ next \in {"look", "parent"}
    BY <2>1 DEF SoundRequest, Shape
  <2>4. azit
    BY <2>1 DEF Inv, TablesOK, AzitGone
  <2>5. Shape(q) /\ TargetRead(q) /\ ~ WillLike(q)
    BY <2>1, <2>2, <2>3 DEF SoundRequest, Shape, TargetRead, WillLike, Inserting, Interacts, LikesInAzit
  <2>6. Seen(q) \/ Sees(req[r])
    BY <2>1, <2>2, <2>3, <2>4 DEF SoundRequest, TargetRead, Seen, Sees, MaySee, Interacts
  <2> HIDE DEF next
  <2> QED BY <2>1, <2>5, <2>6, GotoInv
<1> QED BY <1>1, <1>2

LEMMA StartLikeInv == ASSUME Inv, NEW r \in Requests, StartLike(r) PROVE Inv'
<1>1. PICK u \in members, t \in Targets, op \in {"add", "remove"} :
        Become(r, [Idle EXCEPT !.op = op, !.pc = "find", !.user = u, !.target = t])
  BY DEF StartLike, Begin
<1> DEFINE q == [Idle EXCEPT !.op = op, !.pc = "find", !.user = u, !.target = t]
<1>2. u \in Users
  BY DEF Inv, TablesOK, TablesTyped
<1>3. q \in Request /\ q.op = op /\ q.pc = "find" /\ q.user = u /\ q.target = t
  BY <1>2 DEF Idle, Request, Ops, Pcs
<1>4. Reads /\ Become(r, q)
  BY <1>1 DEF StartLike
<1> HIDE DEF q
<1>5. /\ Shape(q) /\ Caller(q) /\ OwnComment(q) /\ ~ WillLike(q)
      /\ TargetRead(q) /\ Seen(q)
  BY <1>2, <1>3 DEF Shape, Caller, OwnComment, WillLike, Inserting, TargetRead, Seen, Interacts,
                    LikesInAzit, Edits
<1> QED BY <1>3, <1>4, <1>5, BecomeInv

LEMMA FindHighlightInv == ASSUME Inv, NEW r \in Requests, FindHighlight(r) PROVE Inv'
<1>1. CASE Return(r)
  BY <1>1, ReturnInv DEF FindHighlight
<1>2. CASE ~ Return(r)
  <2> DEFINE t == req[r].target
             q == [req[r] EXCEPT !.pc = "look"]
  <2>1. /\ req[r].pc = "find" /\ t \in DOMAIN targets /\ targets[t].kind = "highlight"
        /\ targets[t].azit /\ Goto(r, "look") /\ Reads
        /\ req[r] \in Request /\ SoundRequest(req[r]) /\ "look" \in Pcs
    BY <1>2 DEF FindHighlight, Inv, Pcs
  <2>2. /\ q.op = req[r].op /\ q.pc = "look" /\ q.target = req[r].target /\ q.user = req[r].user
        /\ q.could = req[r].could /\ q.party = req[r].party
    BY <2>1, GotoFields
  <2>3. LikesInAzit(q) /\ ~ Interacts(q)
    BY <2>1, <2>2 DEF SoundRequest, Shape, LikesInAzit, Interacts
  <2>4. /\ Shape(q) /\ TargetRead(q) /\ ~ WillLike(q) /\ Seen(q)
    BY <2>1, <2>2, <2>3 DEF SoundRequest, Shape, TargetRead, Seen, WillLike, Inserting, LikesInAzit
  <2> QED BY <2>1, <2>4, GotoInv
<1> QED BY <1>1, <1>2

LEMMA LookInv == ASSUME Inv, NEW r \in Requests, Look(r) PROVE Inv'
<1> DEFINE Found == LikesOf(req[r].user, req[r].target)
<1>1. /\ req[r].pc = "look" /\ Reads /\ req[r] \in Request /\ SoundRequest(req[r])
      /\ "write" \in Pcs /\ "again" \in Pcs
  BY DEF Look, Inv, Pcs
<1>2. req[r].op \in {"toggle", "add", "remove"}
  BY <1>1 DEF SoundRequest, Shape, LikesInAzit
<1>3. CASE Return(r)
  BY <1>1, <1>3, ReturnInv
<1>4. CASE req[r].op = "toggle" /\ Found = {} /\ Goto(r, "write")
  <2> DEFINE q == [req[r] EXCEPT !.pc = "write"]
  <2>1. /\ q.op = req[r].op /\ q.pc = "write" /\ q.target = req[r].target
        /\ q.could = req[r].could /\ q.party = req[r].party
    BY <1>1, GotoFields
  <2>2. Shape(q) /\ TargetRead(q) /\ Seen(q)
    BY <1>1, <1>4, <2>1 DEF SoundRequest, Shape, TargetRead, Seen, Interacts, LikesInAzit
  <2> QED BY <1>1, <1>4, <2>2, GotoInv
<1>5. ASSUME NEW i \in Found, req[r].op = "toggle",
             Become(r, [req[r] EXCEPT !.like = i, !.pc = "write"])
      PROVE Inv'
  <2> DEFINE q == [req[r] EXCEPT !.like = i, !.pc = "write"]
  <2>1. i \in LikeId /\ i # None
    BY InteractionAssumption DEF Inv, TablesOK, TablesTyped, LikesOf, LikeId
  <2>2. /\ q \in Request
        /\ q.op = "toggle" /\ q.pc = "write" /\ q.target = req[r].target /\ q.like = i
        /\ q.could = req[r].could /\ q.party = req[r].party /\ q.user = req[r].user
        /\ q.comment = req[r].comment
    BY <1>1, <1>5, <2>1 DEF Request, Pcs
  <2>3. Become(r, q)
    BY <1>5
  <2> HIDE DEF q
  <2>4. /\ Shape(q) /\ Caller(q) /\ TargetRead(q) /\ Seen(q) /\ OwnComment(q) /\ ~ WillLike(q)
    BY <1>1, <1>5, <2>1, <2>2 DEF SoundRequest, Shape, Caller, TargetRead, Seen, OwnComment, Interacts,
                             LikesInAzit, Edits, WillLike, Inserting
  <2> QED BY <1>1, <2>2, <2>3, <2>4, BecomeInv
<1>6. CASE req[r].op \in {"add", "remove"} /\ (req[r].op = "add" => Found = {}) /\ Goto(r, "again")
  <2> DEFINE q == [req[r] EXCEPT !.pc = "again"]
  <2>1. /\ q.op = req[r].op /\ q.pc = "again" /\ q.target = req[r].target
        /\ q.could = req[r].could /\ q.party = req[r].party
    BY <1>1, GotoFields
  <2>2. Shape(q) /\ TargetRead(q) /\ Seen(q) /\ (WillLike(q) => Found = {})
    BY <1>1, <1>6, <2>1 DEF SoundRequest, Shape, TargetRead, Seen, Interacts, LikesInAzit, WillLike,
                            Inserting
  <2> QED BY <1>1, <1>6, <2>2, GotoInv
<1>7. \/ Return(r)
      \/ req[r].op = "toggle" /\ Found = {} /\ Goto(r, "write")
      \/ /\ req[r].op = "toggle"
         /\ \E i \in Found : Become(r, [req[r] EXCEPT !.like = i, !.pc = "write"])
      \/ req[r].op \in {"add", "remove"} /\ (req[r].op = "add" => Found = {}) /\ Goto(r, "again")
  BY <1>1, <1>2 DEF Look, MayAdd
<1> QED BY <1>3, <1>4, <1>5, <1>6, <1>7

LEMMA LookAgainInv == ASSUME Inv, NEW r \in Requests, LookAgain(r) PROVE Inv'
<1>1. CASE Return(r)
  BY <1>1, ReturnInv DEF LookAgain
<1>2. CASE ~ Return(r)
  <2> DEFINE q == [req[r] EXCEPT !.pc = "write"]
  <2>1. /\ req[r].pc = "again" /\ req[r].user \in members /\ Goto(r, "write") /\ Reads
        /\ req[r] \in Request /\ SoundRequest(req[r]) /\ "write" \in Pcs
    BY <1>2 DEF LookAgain, Inv, Pcs
  <2>2. /\ q.op = req[r].op /\ q.pc = "write" /\ q.target = req[r].target
        /\ q.could = req[r].could /\ q.party = req[r].party /\ q.user = req[r].user
    BY <2>1, GotoFields
  <2>3. LikesInAzit(req[r])
    BY <2>1 DEF SoundRequest, Shape
  <2>4. azit
    BY <2>1 DEF Inv, TablesOK, AzitGone
  <2>5. Shape(q) /\ TargetRead(q) /\ (WillLike(q) => WillLike(req[r]))
    BY <2>1, <2>2, <2>3 DEF SoundRequest, Shape, TargetRead, WillLike, Inserting, Interacts, LikesInAzit
  <2>6. Seen(q) \/ Sees(req[r])
    BY <2>1, <2>2, <2>3, <2>4 DEF SoundRequest, TargetRead, Seen, Sees, MaySee, Interacts, LikesInAzit
  <2> QED BY <2>1, <2>5, <2>6, GotoInv
<1> QED BY <1>1, <1>2

LEMMA CheckParentInv == ASSUME Inv, NEW r \in Requests, CheckParent(r) PROVE Inv'
<1>1. CASE Return(r)
  BY <1>1, ReturnInv DEF CheckParent
<1>2. CASE ~ Return(r)
  <2> DEFINE q == [req[r] EXCEPT !.pc = "write"]
  <2>1. /\ req[r].pc = "parent" /\ Goto(r, "write") /\ Reads
        /\ req[r] \in Request /\ SoundRequest(req[r]) /\ "write" \in Pcs
    BY <1>2 DEF CheckParent, Inv, Pcs
  <2>2. /\ q.op = req[r].op /\ q.pc = "write" /\ q.target = req[r].target
        /\ q.could = req[r].could /\ q.party = req[r].party
    BY <2>1, GotoFields
  <2>3. req[r].op = "comment"
    BY <2>1 DEF SoundRequest, Shape
  <2>4. Shape(q) /\ TargetRead(q) /\ Seen(q) /\ ~ WillLike(q)
    BY <2>1, <2>2, <2>3 DEF SoundRequest, Shape, TargetRead, Seen, WillLike, Inserting, Interacts,
                            LikesInAzit
  <2> QED BY <2>1, <2>4, GotoInv
<1> QED BY <1>1, <1>2

LEMMA StartRetractInv == ASSUME Inv, NEW r \in Requests, StartRetract(r) PROVE Inv'
<1>1. PICK u \in Users, c \in DOMAIN comments, op \in {"retract", "revise"} :
        /\ comments[c].user = u
        /\ Become(r, [Idle EXCEPT !.op = op, !.pc = "write", !.user = u, !.comment = c])
  BY DEF StartRetract, Begin, MayRetract
<1> DEFINE q == [Idle EXCEPT !.op = op, !.pc = "write", !.user = u, !.comment = c]
<1>2. c \in CommentId /\ c < nextComment
  BY DEF Inv, TablesOK, TablesTyped, CommentsRefer
<1>3. q \in Request /\ q.op = op /\ q.pc = "write" /\ q.user = u /\ q.comment = c
  BY <1>2 DEF Idle, Request, Ops, Pcs
<1>4. Reads /\ Become(r, q)
  BY <1>1 DEF StartRetract
<1> HIDE DEF q
<1>5. /\ Shape(q) /\ Caller(q) /\ OwnComment(q) /\ ~ WillLike(q)
      /\ TargetRead(q) /\ Seen(q)
  BY <1>1, <1>2, <1>3 DEF Shape, Caller, OwnComment, WillLike, Inserting, TargetRead, Seen, Interacts,
                    LikesInAzit, Edits
<1> QED BY <1>3, <1>4, <1>5, BecomeInv
-----------------------------------------------------------------------------
(* Steps that write. *)

\* Every other step: requests stay or return.
LEMMA StepInv ==
  ASSUME Inv, TablesOK', TargetsKept, CommentsKept,
         req' \in [Requests -> Request],
         \A s \in Requests : req'[s] = req[s] \/ req'[s] = Idle,
         \A u \in Users, t \in Targets : Bounded(u, t)'
  PROVE  Inv'
<1>1. nextComment' \in Nat
  BY InteractionAssumption DEF TablesOK, TablesTyped
<1>2. ASSUME NEW s \in Requests PROVE SoundRequest(req[s])'
  BY <1>1, OthersSound
<1> QED BY <1>2 DEF Inv

LEMMA ReturnedFewer ==
  ASSUME Inv, NEW u, NEW t, \A s \in Requests : req'[s] = req[s] \/ req'[s] = Idle
  PROVE  AboutToLike(u, t)' \subseteq AboutToLike(u, t)
BY IdleRequest DEF AboutToLike, Inserting

LEMMA FewerInv ==
  ASSUME Inv, TablesOK', TargetsKept, CommentsKept,
         req' \in [Requests -> Request],
         \A s \in Requests : req'[s] = req[s] \/ req'[s] = Idle,
         \A u \in Users, t \in Targets : LikesOf(u, t)' \subseteq LikesOf(u, t)
  PROVE  Inv'
<1>1. \A u \in Users, t \in Targets : Bounded(u, t)'
  BY ReturnedFewer, FewerBounded
<1> QED BY <1>1, StepInv

LEMMA Returned ==
  ASSUME Inv, NEW r \in Requests, Return(r)
  PROVE  /\ req' \in [Requests -> Request]
         /\ req'[r] = Idle /\ \A s \in Requests : s # r => req'[s] = req[s]
         /\ \A s \in Requests : req'[s] = req[s] \/ req'[s] = Idle
BY IdleRequest, RequestUpdate DEF Return, Inv

LEMMA ContentKept ==
  ASSUME UNCHANGED content
  PROVE  TargetsKept
BY DEF content, TargetsKept

LEMMA NoCommentsChanged ==
  ASSUME TablesOK, UNCHANGED <<comments, nextComment>>
  PROVE  CommentsKept
<1>1. nextComment \in Nat
  BY InteractionAssumption DEF TablesOK, TablesTyped
<1> QED BY <1>1 DEF CommentsKept

LEMMA InsertLikeInv == ASSUME Inv, NEW r \in Requests, InsertLike(r) PROVE Inv'
<1> DEFINE q == req[r]
           row == [user |-> q.user, target |-> q.target]
<1>1. /\ Inserting(q) /\ IdsLeft /\ Return(r) /\ nextLike' = nextLike + 1
      /\ UNCHANGED <<content, comments, nextComment>>
      /\ \/ likes' = likes
         \/ /\ q.target \in DOMAIN targets
            /\ q.party => LikesOf(q.user, q.target) = {}
            /\ likes' = [i \in DOMAIN likes \union {nextLike} |-> IF i = nextLike THEN row ELSE likes[i]]
  BY DEF InsertLike
<1>2. /\ req' \in [Requests -> Request] /\ req'[r] = Idle
      /\ \A s \in Requests : s # r => req'[s] = req[s]
      /\ \A s \in Requests : req'[s] = req[s] \/ req'[s] = Idle
  BY <1>1, Returned
<1>3. TablesOK /\ q \in Request /\ SoundRequest(q) /\ TargetsKept /\ CommentsKept
  BY <1>1, ContentKept, NoCommentsChanged DEF Inv
<1>4. q.user \in Users /\ q.target \in Targets /\ q.op \in {"add", "toggle"}
  BY <1>1, <1>3 DEF SoundRequest, Caller, Interacts, LikesInAzit, Inserting
<1>5. row \in Like /\ row.user = q.user /\ row.target = q.target
  BY <1>4 DEF Like
<1>6. /\ nextLike \in LikeId /\ nextLike' \in 1..MaxRow + 1 /\ nextLike \in Nat /\ nextLike' = nextLike + 1
      /\ \A i \in DOMAIN likes : i \in LikeId /\ i \in Nat /\ i < nextLike
  BY <1>1, <1>3, InteractionAssumption DEF IdsLeft, TablesOK, TablesTyped, LikesRefer, LikeId
<1> HIDE DEF row, q
<1>7. CASE likes' = likes
  <2>1. TablesOK'
    BY <1>1, <1>3, <1>6, <1>7 DEF TablesOK, TablesTyped, AzitGone, LikesRefer, CommentsRefer,
         PartyLikedOnce, LikesOf, OnParty, content
  <2>2. \A u \in Users, t \in Targets : LikesOf(u, t)' \subseteq LikesOf(u, t)
    BY <1>7 DEF LikesOf
  <2> QED BY <1>2, <1>3, <2>1, <2>2, FewerInv
<1>8. CASE /\ q.target \in DOMAIN targets
           /\ q.party => LikesOf(q.user, q.target) = {}
           /\ likes' = [i \in DOMAIN likes \union {nextLike} |-> IF i = nextLike THEN row ELSE likes[i]]
  <2>1. /\ DOMAIN likes' = DOMAIN likes \union {nextLike} /\ likes'[nextLike] = row
        /\ \A i \in DOMAIN likes : i # nextLike /\ likes'[i] = likes[i]
    BY <1>6, <1>8
  <2>2. ASSUME NEW i \in DOMAIN likes'
        PROVE  /\ i \in LikeId /\ likes'[i] \in Like /\ i < nextLike'
               /\ likes'[i].target \in DOMAIN targets' \union {None}
    <3>0. DOMAIN targets' = DOMAIN targets
      BY <1>1 DEF content
    <3>1. CASE i = nextLike
      BY <1>5, <1>6, <1>8, <2>1, <3>0, <3>1
    <3>2. CASE i # nextLike
      BY <1>3, <1>6, <2>1, <3>0, <3>2 DEF TablesOK, TablesTyped, LikesRefer
    <3> QED BY <3>1, <3>2
  <2>3. ASSUME NEW u \in Users, NEW t \in Targets
        PROVE  /\ <<u, t>> = <<q.user, q.target>> => LikesOf(u, t)' = LikesOf(u, t) \union {nextLike}
               /\ <<u, t>> # <<q.user, q.target>> => LikesOf(u, t)' = LikesOf(u, t)
    BY <1>5, <2>1 DEF LikesOf
  <2>4. PartyLikedOnce'
    <3> SUFFICES ASSUME NEW u \in Users, NEW t \in DOMAIN targets, targets[t].kind = "party",
                        NEW i \in LikesOf(u, t)', NEW j \in LikesOf(u, t)'
                 PROVE  i = j
      BY <1>1 DEF PartyLikedOnce, content
    <3>1. t \in Targets
      BY <1>3 DEF TablesOK, TablesTyped
    <3>2. CASE <<u, t>> = <<q.user, q.target>>
      <4>1. q.op = "toggle" /\ q.party = TRUE
        BY <1>3, <1>4, <1>1, <1>8, <3>2 DEF SoundRequest, TargetRead, Interacts, LikesInAzit, Inserting
      <4>2. LikesOf(u, t)' = {nextLike}
        BY <1>8, <2>3, <3>1, <3>2, <4>1
      <4> QED BY <4>2
    <3>3. CASE <<u, t>> # <<q.user, q.target>>
      BY <1>3, <2>3, <3>1, <3>3 DEF TablesOK, PartyLikedOnce
    <3> QED BY <3>2, <3>3
  <2>5. TablesOK'
    BY <1>1, <1>3, <1>6, <2>1, <2>2, <2>4 DEF TablesOK, TablesTyped, AzitGone, LikesRefer,
         CommentsRefer, OnParty, content
  <2>6. ASSUME NEW u \in Users, NEW t \in Targets PROVE Bounded(u, t)'
    <3>1. CASE <<u, t>> = <<q.user, q.target>>
      <4>1. r \in AboutToLike(u, t)
        BY <1>1, <3>1 DEF AboutToLike, q
      <4>2. AboutToLike(u, t)' = AboutToLike(u, t) \ {r}
        BY <1>2, IdleRequest DEF AboutToLike, Inserting
      <4> QED BY <2>3, <3>1, <4>1, <4>2, MovedBounded
    <3>2. CASE <<u, t>> # <<q.user, q.target>>
      BY <1>2, <2>3, <3>2, ReturnedFewer, FewerBounded
    <3> QED BY <3>1, <3>2
  <2> QED BY <1>2, <1>3, <2>5, <2>6, StepInv
<1> QED BY <1>1, <1>7, <1>8

\* Likes that only go, while nothing else changes but requests that return.
LEMMA LikesGone ==
  ASSUME TablesOK, UNCHANGED <<content, comments, nextLike, nextComment>>,
         DOMAIN likes' \subseteq DOMAIN likes, \A i \in DOMAIN likes' : likes'[i] = likes[i]
  PROVE  TablesOK'
<1>1. \A u, t : LikesOf(u, t)' \subseteq LikesOf(u, t)
  BY DEF LikesOf
<1> QED BY <1>1 DEF TablesOK, TablesTyped, AzitGone, LikesRefer, CommentsRefer, PartyLikedOnce, OnParty,
                content

LEMMA DeleteLikeInv == ASSUME Inv, NEW r \in Requests, DeleteLike(r) PROVE Inv'
<1>1. /\ Return(r) /\ UNCHANGED <<content, comments, nextLike, nextComment>>
      /\ DOMAIN likes' \subseteq DOMAIN likes /\ \A i \in DOMAIN likes' : likes'[i] = likes[i]
  BY DEF DeleteLike
<1>2. TablesOK' /\ TargetsKept /\ CommentsKept
  BY <1>1, LikesGone, ContentKept, NoCommentsChanged DEF Inv
<1>3. \A u \in Users, t \in Targets : LikesOf(u, t)' \subseteq LikesOf(u, t)
  BY <1>1 DEF LikesOf
<1> QED BY <1>1, <1>2, <1>3, Returned, FewerInv

LEMMA RestartInv == ASSUME Inv, Restart PROVE Inv'
<1>1. /\ req' \in [Requests -> Request] /\ \A s \in Requests : req'[s] = Idle
      /\ UNCHANGED <<content, comments, nextLike, nextComment, likes>>
  BY IdleRequest DEF Restart, Reads, reactions
<1>2. TablesOK' /\ TargetsKept /\ CommentsKept
  BY <1>1, LikesGone, ContentKept, NoCommentsChanged DEF Inv
<1>3. \A u \in Users, t \in Targets : LikesOf(u, t)' \subseteq LikesOf(u, t)
  BY <1>1 DEF LikesOf
<1> QED BY <1>1, <1>2, <1>3, FewerInv
-----------------------------------------------------------------------------
(* Comments and their replies. *)

LEMMA OnPartyTable ==
  ASSUME NEW i \in DOMAIN comments
  PROVE  (i \in TableOf(TRUE) <=> OnParty(i)) /\ (i \in TableOf(FALSE) <=> ~ OnParty(i))
BY DEF TableOf, OnParty

\* What goes is closed under replies on parties, and nothing else goes.
LEMMA RemovedIds ==
  ASSUME NEW ids
  PROVE  \A i \in DOMAIN comments \intersect ids : i \in WithReplies(ids)
BY DEF WithReplies

LEMMA RepliesRemoved ==
  ASSUME TablesOK, NEW ids \in SUBSET CommentId,
         NEW j \in DOMAIN comments, OnParty(j), comments[j].parent \in WithReplies(ids)
  PROVE  j \in WithReplies(ids)
<1>1. j \in TableOf(TRUE)
  BY OnPartyTable
<1> QED BY <1>1 DEF WithReplies

LEMMA OnlyRepliesRemoved ==
  ASSUME TablesOK, NEW ids \in SUBSET CommentId, NEW i \in WithReplies(ids), i \notin ids
  PROVE  OnParty(i) /\ comments[i].parent \in WithReplies(ids)
<1> DEFINE Closed(S) == ids \subseteq S /\ \A j \in TableOf(TRUE) : comments[j].parent \in S => j \in S
           K == {x \in CommentId : \A S \in SUBSET CommentId : Closed(S) => x \in S}
<1>1. WithReplies(ids) = DOMAIN comments \intersect K /\ DOMAIN comments \subseteq CommentId
  BY DEF WithReplies, TablesOK, TablesTyped
<1>2. Closed(K)
  <2>1. ids \subseteq K
    OBVIOUS
  <2>2. ASSUME NEW j \in TableOf(TRUE), comments[j].parent \in K PROVE j \in K
    BY <1>1, <2>2 DEF TableOf
  <2> QED BY <2>1, <2>2
<1>3. SUFFICES ASSUME ~ (OnParty(i) /\ comments[i].parent \in WithReplies(ids)) PROVE FALSE
  OBVIOUS
<1>4. i \in DOMAIN comments /\ i \in K
  BY <1>1
<1>5. ~ (i \in TableOf(TRUE) /\ comments[i].parent \in K)
  <2>1. comments[i].parent \in K => comments[i].parent \in DOMAIN comments
    <3>1. K \subseteq CommentId
      OBVIOUS
    <3>2. None \notin CommentId
      BY InteractionAssumption DEF CommentId
    <3> HIDE DEF K, Closed
    <3>3. comments[i].parent \in K => comments[i].parent # None
      BY <3>1, <3>2
    <3> QED BY <1>4, <3>3 DEF TablesOK, CommentsRefer
  <2> QED BY <1>1, <1>3, <1>4, <2>1, OnPartyTable
<1>6. Closed(K \ {i})
  BY <1>2, <1>5
<1>7. K \ {i} \in SUBSET CommentId
  OBVIOUS
<1> QED BY <1>4, <1>6, <1>7

\* A comment that stays keeps all but a parent that goes.
LEMMA CommentStays ==
  ASSUME TablesOK, NEW ids \in SUBSET CommentId, NEW i \in DOMAIN comments \ WithReplies(ids)
  PROVE  /\ i \in DOMAIN CommentsWithout(ids)
         /\ CommentsWithout(ids)[i] \in Comment
         /\ CommentsWithout(ids)[i].user = comments[i].user
         /\ CommentsWithout(ids)[i].target = comments[i].target
         /\ CommentsWithout(ids)[i].edited = comments[i].edited
         /\ \/ CommentsWithout(ids)[i].parent = None
            \/ /\ CommentsWithout(ids)[i].parent = comments[i].parent
               /\ comments[i].parent \in DOMAIN comments \ WithReplies(ids)
<1>1. comments[i] \in Comment
  BY DEF TablesOK, TablesTyped
<1>2. CASE comments[i].parent \in ids
  BY <1>1, <1>2 DEF CommentsWithout, Comment
<1>3. CASE comments[i].parent \notin ids
  <2>1. CommentsWithout(ids)[i] = comments[i]
    BY <1>3 DEF CommentsWithout
  <2>2. CASE comments[i].parent # None
    <3> DEFINE p == comments[i].parent
    <3>1. p \in DOMAIN comments /\ (OnParty(p) <=> OnParty(i))
      BY <2>2 DEF TablesOK, CommentsRefer
    <3>2. p \notin WithReplies(ids)
      <4> SUFFICES ASSUME p \in WithReplies(ids) PROVE FALSE
        OBVIOUS
      <4>1. OnParty(p)
        BY <1>3, OnlyRepliesRemoved
      <4> QED BY <3>1, <4>1, RepliesRemoved
    <3> QED BY <1>1, <2>1, <3>1, <3>2 DEF CommentsWithout
  <2>3. CASE comments[i].parent = None
    BY <1>1, <2>1, <2>3 DEF CommentsWithout
  <2> QED BY <2>2, <2>3
<1> QED BY <1>2, <1>3

LEMMA InsertCommentInv == ASSUME Inv, NEW r \in Requests, InsertComment(r) PROVE Inv'
<1> DEFINE q == req[r]
           row == [user |-> q.user, target |-> q.target, parent |-> q.comment, edited |-> FALSE]
<1>1. /\ q.op = "comment" /\ q.pc = "write" /\ IdsLeft /\ Return(r) /\ nextComment' = nextComment + 1
      /\ UNCHANGED <<content, likes, nextLike>>
      /\ \/ comments' = comments
         \/ /\ q.target \in DOMAIN targets /\ q.comment \in TableOf(q.party) \union {None}
            /\ comments' = [i \in DOMAIN comments \union {nextComment} |->
                              IF i = nextComment THEN row ELSE comments[i]]
  BY DEF InsertComment
<1>2. TablesOK /\ q \in Request /\ SoundRequest(q) /\ TargetsKept
  BY <1>1, ContentKept DEF Inv
<1>3. q.user \in Users /\ q.target \in Targets /\ q.target # None
  BY <1>1, <1>2, InteractionAssumption DEF SoundRequest, Caller, Interacts
<1>4. row \in Comment /\ row.target = q.target /\ row.parent = q.comment
  BY <1>2, <1>3 DEF Comment, Request
<1>5. /\ nextComment \in CommentId /\ nextComment' \in 1..MaxRow + 1 /\ nextComment \in Nat
      /\ nextComment' = nextComment + 1 /\ None \notin CommentId
      /\ \A i \in DOMAIN comments : i \in CommentId /\ i \in Nat /\ i < nextComment
  BY <1>1, <1>2, InteractionAssumption DEF IdsLeft, TablesOK, TablesTyped, CommentsRefer, CommentId
<1>6. q.target \in DOMAIN targets => (q.party = TRUE <=> targets[q.target].kind = "party")
  BY <1>1, <1>2 DEF SoundRequest, TargetRead, Interacts
<1>7. q.party \in BOOLEAN
  BY <1>2 DEF Request
<1>8. \A u \in Users, t \in Targets : LikesOf(u, t)' \subseteq LikesOf(u, t)
  BY <1>1 DEF LikesOf
<1> HIDE DEF row, q
<1>9. CASE comments' = comments
  <2>1. TablesOK'
    BY <1>1, <1>2, <1>5, <1>9 DEF TablesOK, TablesTyped, AzitGone, LikesRefer, CommentsRefer,
         PartyLikedOnce, LikesOf, OnParty, content
  <2>2. CommentsKept
    BY <1>5, <1>9 DEF CommentsKept
  <2> QED BY <1>1, <1>2, <1>8, <2>1, <2>2, Returned, FewerInv
<1>10. CASE /\ q.target \in DOMAIN targets /\ q.comment \in TableOf(q.party) \union {None}
            /\ comments' = [i \in DOMAIN comments \union {nextComment} |->
                              IF i = nextComment THEN row ELSE comments[i]]
  <2>1. /\ DOMAIN comments' = DOMAIN comments \union {nextComment} /\ comments'[nextComment] = row
        /\ \A i \in DOMAIN comments : i # nextComment /\ comments'[i] = comments[i]
        /\ targets' = targets
    BY <1>1, <1>5, <1>10 DEF content
  <2>2. \A i \in DOMAIN comments : OnParty(i)' <=> OnParty(i)
    BY <2>1 DEF OnParty
  <2>3. ASSUME NEW i, i = nextComment PROVE OnParty(i)' <=> q.party = TRUE
    BY <1>3, <1>4, <1>6, <1>10, <2>1, <2>3 DEF OnParty
  <2>4. q.comment # None => q.comment \in DOMAIN comments /\ (OnParty(q.comment) <=> q.party = TRUE)
    BY <1>7, <1>10, OnPartyTable DEF TableOf
  <2>5. ASSUME NEW i \in DOMAIN comments'
        PROVE  /\ i \in CommentId /\ comments'[i] \in Comment /\ i < nextComment'
               /\ comments'[i].target \in DOMAIN targets' \union {None}
               /\ comments'[i].parent # None =>
                    /\ comments'[i].parent \in DOMAIN comments'
                    /\ OnParty(comments[i].parent)' <=> OnParty(i)'
    <3>1. CASE i = nextComment
      <4>1. comments'[i] = row /\ i \in CommentId /\ i < nextComment'
        BY <1>5, <2>1, <3>1
      <4>2. ASSUME NEW p, p = q.comment, p # None PROVE p \in DOMAIN comments' /\ (OnParty(p)' <=> OnParty(i)')
        BY <2>1, <2>2, <2>3, <2>4, <3>1, <4>2
      <4> QED BY <1>4, <1>10, <2>1, <4>1, <4>2
    <3>2. CASE i # nextComment
      <4>1. i \in DOMAIN comments /\ comments'[i] = comments[i]
        BY <2>1, <3>2
      <4>2. /\ comments[i] \in Comment /\ comments[i].target \in DOMAIN targets \union {None}
            /\ comments[i].parent # None =>
                 /\ comments[i].parent \in DOMAIN comments
                 /\ OnParty(comments[i].parent) <=> OnParty(i)
        BY <1>2, <4>1 DEF TablesOK, TablesTyped, CommentsRefer
      <4>3. ASSUME NEW p, p = comments[i].parent, p # None
            PROVE  p \in DOMAIN comments' /\ (OnParty(p)' <=> OnParty(i)')
        BY <2>1, <2>2, <4>1, <4>2, <4>3
      <4>4. i \in CommentId /\ i < nextComment'
        BY <1>5, <4>1
      <4> QED BY <2>1, <4>1, <4>2, <4>3, <4>4
    <3> QED BY <3>1, <3>2
  <2>6. CommentsRefer'
    BY <2>5 DEF CommentsRefer
  <2>7. TablesOK'
    BY <1>1, <1>2, <1>5, <2>5, <2>6 DEF TablesOK, TablesTyped, AzitGone, LikesRefer,
         PartyLikedOnce, LikesOf, content
  <2>8. CommentsKept
    BY <1>5, <2>1 DEF CommentsKept
  <2> QED BY <1>1, <1>2, <1>8, <2>7, <2>8, Returned, FewerInv
<1> QED BY <1>1, <1>9, <1>10

\* Comments go, with their replies, or lose their parent; nothing else changes about them.
LEMMA WithoutRefers ==
  ASSUME TablesOK, NEW ids \in SUBSET CommentId, comments' = CommentsWithout(ids),
         UNCHANGED nextComment,
         \A i \in DOMAIN comments' : (OnParty(i)' <=> OnParty(i))
                                    /\ comments[i].target \in DOMAIN targets' \union {None}
  PROVE  /\ DOMAIN comments' \subseteq CommentId
         /\ \A i \in DOMAIN comments' : comments'[i] \in Comment
         /\ CommentsRefer' /\ CommentsKept
<1>1. DOMAIN comments' = DOMAIN comments \ WithReplies(ids)
  BY DEF CommentsWithout
<1>2. ASSUME NEW i \in DOMAIN comments'
      PROVE  /\ i \in DOMAIN comments /\ comments'[i] \in Comment
             /\ comments'[i].user = comments[i].user /\ comments'[i].target = comments[i].target
             /\ comments'[i].parent # None =>
                  comments'[i].parent = comments[i].parent /\ comments[i].parent \in DOMAIN comments'
  BY <1>1, CommentStays
<1>3. nextComment \in Nat
  BY InteractionAssumption DEF TablesOK, TablesTyped
<1>4. CommentsKept
  BY <1>2, <1>3 DEF CommentsKept
<1>5. CommentsRefer'
  <2> SUFFICES ASSUME NEW i \in DOMAIN comments'
               PROVE  /\ i < nextComment' /\ comments'[i].target \in DOMAIN targets' \union {None}
                      /\ comments'[i].parent # None =>
                           /\ comments'[i].parent \in DOMAIN comments'
                           /\ OnParty(comments[i].parent)' <=> OnParty(i)'
    BY DEF CommentsRefer
  <2>1. /\ i < nextComment
        /\ comments[i].parent # None => (OnParty(comments[i].parent) <=> OnParty(i))
    BY <1>2 DEF TablesOK, CommentsRefer
  <2>2. CASE comments'[i].parent = None
    BY <1>2, <2>1, <2>2
  <2>3. CASE comments'[i].parent # None
    <3>1. comments'[i].parent = comments[i].parent /\ comments[i].parent \in DOMAIN comments'
      BY <1>2, <2>3
    <3>2. ASSUME NEW p, p = comments[i].parent
          PROVE  p \in DOMAIN comments' /\ (OnParty(p)' <=> OnParty(i)')
      BY <2>1, <2>3, <3>1, <3>2
    <3> QED BY <1>2, <2>1, <3>1, <3>2
  <2> QED BY <2>2, <2>3
<1> QED BY <1>2, <1>4, <1>5 DEF TablesOK, TablesTyped

LEMMA DeleteCommentInv == ASSUME Inv, NEW r \in Requests, DeleteComment(r) PROVE Inv'
<1> DEFINE ids == {req[r].comment}
<1>1. /\ req[r].op = "retract" /\ comments' = CommentsWithout(ids) /\ Return(r)
      /\ UNCHANGED <<content, likes, nextLike, nextComment>>
      /\ TablesOK /\ SoundRequest(req[r])
  BY DEF DeleteComment, Inv
<1>2. ids \in SUBSET CommentId
  BY <1>1 DEF SoundRequest, OwnComment, Edits
<1>3. DOMAIN comments' = DOMAIN comments \ WithReplies(ids)
  BY <1>1 DEF CommentsWithout
<1> HIDE DEF ids
<1>4. ASSUME NEW i \in DOMAIN comments'
      PROVE  (OnParty(i)' <=> OnParty(i)) /\ comments[i].target \in DOMAIN targets' \union {None}
  <2>1. comments'[i].target = comments[i].target /\ i \in DOMAIN comments
    BY <1>1, <1>2, <1>3, CommentStays
  <2> QED BY <1>1, <2>1 DEF OnParty, content, TablesOK, CommentsRefer
<1>5. /\ DOMAIN comments' \subseteq CommentId
      /\ \A i \in DOMAIN comments' : comments'[i] \in Comment
      /\ CommentsRefer' /\ CommentsKept
  BY <1>1, <1>2, <1>4, WithoutRefers
<1>6. TablesOK'
  BY <1>1, <1>5 DEF TablesOK, TablesTyped, AzitGone, LikesRefer, PartyLikedOnce, LikesOf, content
<1>7. \A u \in Users, t \in Targets : LikesOf(u, t)' \subseteq LikesOf(u, t)
  BY <1>1 DEF LikesOf
<1> QED BY <1>1, <1>5, <1>6, <1>7, ContentKept, Returned, FewerInv

LEMMA UpdateCommentInv == ASSUME Inv, NEW r \in Requests, UpdateComment(r) PROVE Inv'
<1> DEFINE c == req[r].comment
<1>1. /\ Return(r) /\ UNCHANGED <<content, likes, nextLike, nextComment>> /\ TablesOK
      /\ comments' = IF c \in DOMAIN comments THEN [comments EXCEPT ![c].edited = TRUE] ELSE comments
  BY DEF UpdateComment, Inv
<1> HIDE DEF c
<1>2. ASSUME NEW i \in DOMAIN comments
      PROVE  /\ comments'[i] \in Comment /\ comments'[i].user = comments[i].user
             /\ comments'[i].target = comments[i].target /\ comments'[i].parent = comments[i].parent
  <2>1. comments[i] \in Comment
    BY <1>1 DEF TablesOK, TablesTyped
  <2> QED BY <1>1, <2>1 DEF Comment
<1>3. DOMAIN comments' = DOMAIN comments
  BY <1>1
<1>4. \A i \in DOMAIN comments : OnParty(i)' <=> OnParty(i)
  BY <1>1, <1>2 DEF OnParty, content
<1>5. CommentsRefer'
  BY <1>1, <1>2, <1>3, <1>4 DEF TablesOK, CommentsRefer, content
<1>6. TablesOK'
  <2>1. DOMAIN comments' \subseteq CommentId /\ \A i \in DOMAIN comments' : comments'[i] \in Comment
    BY <1>1, <1>2, <1>3 DEF TablesOK, TablesTyped
  <2>2. TablesOK /\ UNCHANGED <<content, likes, nextLike, nextComment>>
    BY <1>1
  <2> QED BY <1>5, <2>1, <2>2 DEF TablesOK, TablesTyped, AzitGone, LikesRefer, PartyLikedOnce,
                                       LikesOf, content
<1>7. CommentsKept
  <2>1. nextComment \in Nat
    BY <1>1, InteractionAssumption DEF TablesOK, TablesTyped
  <2> QED BY <1>1, <1>2, <1>3, <2>1 DEF CommentsKept
<1>8. \A u \in Users, t \in Targets : LikesOf(u, t)' \subseteq LikesOf(u, t)
  BY <1>1 DEF LikesOf
<1> QED BY <1>1, <1>6, <1>7, <1>8, ContentKept, Returned, FewerInv
-----------------------------------------------------------------------------
(* Targets and members change. *)

\* The requests stay as they are.
LEMMA EnvironmentInv ==
  ASSUME Inv, TablesOK', TargetsKept, CommentsKept, UNCHANGED req,
         \A u \in Users, t \in Targets : LikesOf(u, t)' \subseteq LikesOf(u, t)
  PROVE  Inv'
<1>1. req' \in [Requests -> Request] /\ \A s \in Requests : req'[s] = req[s]
  BY DEF Inv
<1> QED BY <1>1, FewerInv

\* Likes and comments stay, and every target they refer to with its kind.
LEMMA ReactionsStay ==
  ASSUME TablesOK, UNCHANGED reactions,
         \A t \in DOMAIN targets : t \in DOMAIN targets' /\ targets'[t].kind = targets[t].kind
  PROVE  /\ LikesRefer' /\ CommentsRefer' /\ CommentsKept
         /\ \A u \in Users, t \in Targets : LikesOf(u, t)' = LikesOf(u, t)
<1>1. \A i \in DOMAIN comments : OnParty(i)' <=> OnParty(i)
  BY DEF OnParty, reactions, TablesOK, CommentsRefer
<1>2. CommentsRefer'
  BY <1>1 DEF TablesOK, CommentsRefer, reactions
<1>3. LikesRefer' /\ \A u \in Users, t \in Targets : LikesOf(u, t)' = LikesOf(u, t)
  BY DEF TablesOK, LikesRefer, LikesOf, reactions
<1> QED BY <1>2, <1>3, NoCommentsChanged DEF reactions

LEMMA NewTargetInv == ASSUME Inv, NewTarget PROVE Inv'
<1>1. PICK t \in Targets \ (DOMAIN targets \union gone), x \in Target :
        /\ x.azit => azit
        /\ targets' = [s \in DOMAIN targets \union {t} |-> IF s = t THEN x ELSE targets[s]]
        /\ UNCHANGED <<gone, azit, members, reactions, req>>
  BY DEF NewTarget
<1>2. TablesOK
  BY DEF Inv
<1>3. /\ DOMAIN targets' = DOMAIN targets \union {t} /\ targets'[t] = x
      /\ \A s \in DOMAIN targets : s # t /\ targets'[s] = targets[s]
  BY <1>1
<1>4. TargetsKept
  BY <1>1, <1>3 DEF TargetsKept
<1>5. /\ LikesRefer' /\ CommentsRefer' /\ CommentsKept
      /\ \A u \in Users, s \in Targets : LikesOf(u, s)' = LikesOf(u, s)
  BY <1>1, <1>2, <1>3, ReactionsStay
<1>6. PartyLikedOnce'
  <2> SUFFICES ASSUME NEW u \in Users, NEW s \in DOMAIN targets', targets'[s].kind = "party",
                      NEW i \in LikesOf(u, s)', NEW j \in LikesOf(u, s)'
               PROVE  i = j
    BY DEF PartyLikedOnce
  <2>1. CASE s = t
    <3>1. None \notin Targets /\ likes' = likes /\ i \in DOMAIN likes' /\ likes'[i].target = t
      BY <1>1, <2>1, InteractionAssumption DEF LikesOf, reactions
    <3> QED BY <1>1, <1>2, <3>1 DEF TablesOK, LikesRefer
  <2>2. CASE s # t
    <3>1. s \in DOMAIN targets /\ targets[s].kind = "party" /\ s \in Targets
      BY <1>2, <1>3, <2>2 DEF TablesOK, TablesTyped
    <3> QED BY <1>2, <1>5, <3>1 DEF TablesOK, PartyLikedOnce
  <2> QED BY <2>1, <2>2
<1>7. TablesTyped' /\ AzitGone'
  BY <1>1, <1>2, <1>3 DEF TablesOK, TablesTyped, AzitGone, reactions
<1>8. TablesOK'
  BY <1>5, <1>6, <1>7 DEF TablesOK
<1> QED BY <1>1, <1>4, <1>5, <1>8, EnvironmentInv

\* Targets stay, with their kinds; what else changes about them is checked by the caller.
LEMMA TargetsStayInv ==
  ASSUME Inv, DOMAIN targets' = DOMAIN targets,
         \A t \in DOMAIN targets :
           /\ targets'[t] \in Target /\ targets'[t].kind = targets[t].kind
           /\ azit' => targets'[t].azit = targets[t].azit,
         UNCHANGED <<gone, reactions, req>>, azit' \in BOOLEAN, members' \subseteq Users,
         azit' => azit, AzitGone'
  PROVE  Inv'
<1>1. TablesOK
  BY DEF Inv
<1>2. TargetsKept
  BY DEF TargetsKept
<1>3. /\ LikesRefer' /\ CommentsRefer' /\ CommentsKept
      /\ \A u \in Users, t \in Targets : LikesOf(u, t)' = LikesOf(u, t)
  BY <1>1, ReactionsStay
<1>4. TablesTyped'
  BY <1>1 DEF TablesOK, TablesTyped, reactions
<1>5. PartyLikedOnce'
  BY <1>1, <1>3 DEF TablesOK, TablesTyped, PartyLikedOnce
<1>6. TablesOK'
  BY <1>3, <1>4, <1>5 DEF TablesOK
<1> QED BY <1>2, <1>3, <1>6, EnvironmentInv

LEMMA PublishInv == ASSUME Inv, Publish PROVE Inv'
<1>1. PICK t \in DOMAIN targets : targets' = [targets EXCEPT ![t].public = ~ @]
  BY DEF Publish
<1>2. UNCHANGED <<gone, azit, members, reactions, req>> /\ TablesOK
  BY DEF Publish, Inv
<1>3. ASSUME NEW s \in DOMAIN targets
      PROVE  /\ targets'[s] \in Target /\ targets'[s].kind = targets[s].kind
             /\ targets'[s].azit = targets[s].azit
  <2>1. targets[s] \in Target
    BY <1>2 DEF TablesOK, TablesTyped
  <2> QED BY <1>1, <2>1 DEF Target
<1>4. DOMAIN targets' = DOMAIN targets
  BY <1>1
<1>5. azit' \in BOOLEAN /\ members' \subseteq Users /\ (azit' => azit)
  BY <1>2 DEF TablesOK, TablesTyped
<1>6. AzitGone'
  BY <1>2, <1>3, <1>4 DEF TablesOK, AzitGone
<1> QED BY <1>2, <1>3, <1>4, <1>5, <1>6, TargetsStayInv

LEMMA MembersChangeInv == ASSUME Inv, MembersChange PROVE Inv'
<1>1. PICK t \in DOMAIN targets, u \in Users :
        targets[t].azit /\ (members' = members \union {u} \/ members' = members \ {u})
  BY DEF MembersChange
<1>2. UNCHANGED <<targets, gone, azit, reactions, req>> /\ TablesOK
  BY DEF MembersChange, Inv
<1>3. azit' \in BOOLEAN /\ members' \subseteq Users /\ \A s \in DOMAIN targets : targets'[s] \in Target
  BY <1>1, <1>2 DEF TablesOK, TablesTyped
<1>4. AzitGone'
  BY <1>1, <1>2 DEF TablesOK, AzitGone
<1> QED BY <1>2, <1>3, <1>4, TargetsStayInv

LEMMA AzitDeletedInv == ASSUME Inv, AzitDeleted PROVE Inv'
<1>1. /\ azit' = FALSE /\ members' = {}
      /\ targets' = [t \in DOMAIN targets |-> [targets[t] EXCEPT !.azit = FALSE]]
      /\ UNCHANGED <<gone, reactions, req>> /\ TablesOK
  BY DEF AzitDeleted, Inv
<1>2. ASSUME NEW s \in DOMAIN targets
      PROVE  /\ targets'[s] \in Target /\ targets'[s].kind = targets[s].kind
             /\ targets'[s].azit = FALSE
  <2>1. targets[s] \in Target
    BY <1>1 DEF TablesOK, TablesTyped
  <2> QED BY <1>1, <2>1 DEF Target
<1>3. DOMAIN targets' = DOMAIN targets
  BY <1>1
<1>4. AzitGone'
  BY <1>1, <1>2, <1>3 DEF AzitGone
<1> QED BY <1>1, <1>2, <1>3, <1>4, TargetsStayInv

\* A target goes: with its likes and comments if it is a post or party.
LEMMA DropTargetInv == ASSUME Inv, DropTarget PROVE Inv'
<1>1. PICK t \in DOMAIN targets :
        LET OnTarget == {i \in DOMAIN comments : comments[i].target = t} IN
        /\ targets' = [s \in DOMAIN targets \ {t} |-> targets[s]]
        /\ gone' = gone \union {t}
        /\ IF targets[t].kind # "highlight"
             THEN /\ likes' = [i \in {j \in DOMAIN likes : likes[j].target # t} |-> likes[i]]
                  /\ comments' = CommentsWithout(OnTarget)
             ELSE /\ likes' = [i \in DOMAIN likes |->
                        IF likes[i].target = t THEN [likes[i] EXCEPT !.target = None] ELSE likes[i]]
                  /\ comments' = [i \in DOMAIN comments |->
                        IF i \in OnTarget THEN [comments[i] EXCEPT !.target = None] ELSE comments[i]]
  BY DEF DropTarget
<1> DEFINE OnTarget == {i \in DOMAIN comments : comments[i].target = t}
<1>2. UNCHANGED <<azit, members, nextLike, nextComment, req>> /\ TablesOK
  BY DEF DropTarget, Inv
<1>3. /\ DOMAIN targets' = DOMAIN targets \ {t} /\ gone' = gone \union {t}
      /\ \A s \in DOMAIN targets' : targets'[s] = targets[s]
  BY <1>1
<1>4. None \notin Targets /\ t \in Targets /\ t # None
  BY <1>2, InteractionAssumption DEF TablesOK, TablesTyped
<1>5. TargetsKept
  BY <1>2, <1>3 DEF TargetsKept
<1>6. AzitGone'
  BY <1>2, <1>3 DEF TablesOK, AzitGone
<1>7. /\ DOMAIN likes' \subseteq DOMAIN likes
      /\ \A i \in DOMAIN likes' :
           /\ likes'[i] \in Like /\ likes'[i].user = likes[i].user
           /\ likes'[i].target # t
           /\ likes'[i].target = likes[i].target \/ likes'[i].target = None
  <2>1. \A i \in DOMAIN likes : likes[i] \in Like
    BY <1>2 DEF TablesOK, TablesTyped
  <2> QED BY <1>1, <1>4, <2>1 DEF Like
<1>8. \A u \in Users, s \in Targets : LikesOf(u, s)' \subseteq LikesOf(u, s)
  BY <1>4, <1>7 DEF LikesOf
<1>9. LikesRefer'
  BY <1>2, <1>3, <1>7 DEF TablesOK, LikesRefer
<1>10. PartyLikedOnce'
  BY <1>2, <1>3, <1>8 DEF TablesOK, TablesTyped, PartyLikedOnce
<1>11. /\ DOMAIN comments' \subseteq CommentId
       /\ \A i \in DOMAIN comments' : comments'[i] \in Comment
       /\ CommentsRefer' /\ CommentsKept
  <2>1. CASE targets[t].kind # "highlight"
    <3>1. comments' = CommentsWithout(OnTarget) /\ OnTarget \in SUBSET CommentId
      BY <1>1, <1>2, <2>1 DEF TablesOK, TablesTyped
    <3>2. ASSUME NEW i \in DOMAIN comments'
          PROVE  (OnParty(i)' <=> OnParty(i)) /\ comments[i].target \in DOMAIN targets' \union {None}
      <4>1. i \in DOMAIN comments \ WithReplies(OnTarget)
        BY <3>1 DEF CommentsWithout
      <4>2. i \notin OnTarget
        BY <4>1, RemovedIds
      <4>3. comments[i].target # t /\ comments[i].target \in DOMAIN targets \union {None}
        BY <1>2, <4>1, <4>2 DEF TablesOK, CommentsRefer
      <4> HIDE DEF OnTarget
      <4>4. comments'[i].target = comments[i].target
        BY <3>1, <4>1, <1>2, CommentStays
      <4> QED BY <1>3, <4>3, <4>4 DEF OnParty
    <3> HIDE DEF OnTarget
    <3> QED BY <1>2, <3>1, <3>2, WithoutRefers
  <2>2. CASE targets[t].kind = "highlight"
    <3>1. /\ DOMAIN comments' = DOMAIN comments
          /\ \A i \in DOMAIN comments :
               comments'[i] = IF comments[i].target = t THEN [comments[i] EXCEPT !.target = None]
                                                        ELSE comments[i]
      BY <1>1, <2>2
    <3>2. ASSUME NEW i \in DOMAIN comments
          PROVE  /\ comments'[i] \in Comment /\ comments'[i].user = comments[i].user
                 /\ comments'[i].parent = comments[i].parent
                 /\ comments'[i].target \in DOMAIN targets' \union {None}
                 /\ OnParty(i)' <=> OnParty(i)
      <4>1. comments[i] \in Comment /\ comments[i].target \in DOMAIN targets \union {None}
        BY <1>2 DEF TablesOK, TablesTyped, CommentsRefer
      <4>2. CASE comments[i].target = t
        BY <1>3, <1>4, <2>2, <3>1, <4>1, <4>2 DEF Comment, OnParty
      <4>3. CASE comments[i].target # t
        BY <1>3, <3>1, <4>1, <4>3 DEF OnParty
      <4> QED BY <4>2, <4>3
    <3>3. CommentsRefer'
      BY <1>2, <3>1, <3>2 DEF TablesOK, CommentsRefer
    <3>4. nextComment \in Nat /\ DOMAIN comments \subseteq CommentId
      BY <1>2, InteractionAssumption DEF TablesOK, TablesTyped
    <3>5. CommentsKept
      BY <1>2, <3>1, <3>2, <3>4 DEF CommentsKept
    <3> QED BY <3>1, <3>2, <3>3, <3>4, <3>5
  <2> QED BY <2>1, <2>2
<1>12. TablesTyped'
  BY <1>2, <1>3, <1>4, <1>7, <1>11 DEF TablesOK, TablesTyped
<1>13. TablesOK'
  BY <1>6, <1>9, <1>10, <1>11, <1>12 DEF TablesOK
<1> QED BY <1>2, <1>5, <1>8, <1>11, <1>13, EnvironmentInv
-----------------------------------------------------------------------------
LEMMA StutterInv == ASSUME Inv, UNCHANGED vars PROVE Inv'
<1>1. TablesOK /\ UNCHANGED <<content, reactions, req>>
  BY DEF Inv, vars, content, reactions
<1>2. TargetsKept /\ CommentsKept /\ \A u \in Users, t \in Targets : LikesOf(u, t)' \subseteq LikesOf(u, t)
  BY <1>1, ContentKept, NoCommentsChanged DEF LikesOf, reactions
<1>3. TablesOK'
  BY <1>1 DEF TablesOK, TablesTyped, AzitGone, LikesRefer, CommentsRefer, PartyLikedOnce, LikesOf,
              OnParty, content, reactions
<1> QED BY <1>1, <1>2, <1>3, EnvironmentInv

LEMMA NextInv == Inv /\ [Next]_vars => Inv'
<1> SUFFICES ASSUME Inv, [Next]_vars PROVE Inv'
  OBVIOUS
<1>1. ASSUME NEW r \in Requests, Step(r) PROVE Inv'
  BY <1>1, StartInteractionInv, StartLikeInv, CheckMemberInv, FindHighlightInv, LookInv, LookAgainInv,
     InsertLikeInv, DeleteLikeInv, CheckParentInv, InsertCommentInv, StartRetractInv,
     DeleteCommentInv, UpdateCommentInv
     DEF Step, ToggleLike, CreateComment
<1>2. CASE Environment
  BY <1>2, NewTargetInv, PublishInv, DropTargetInv, MembersChangeInv, AzitDeletedInv DEF Environment
<1>3. CASE Restart
  BY <1>3, RestartInv
<1>4. CASE UNCHANGED vars
  BY <1>4, StutterInv
<1> QED BY <1>1, <1>2, <1>3, <1>4 DEF Next

LEMMA Invariance == Spec => []Inv
BY InitInv, NextInv, PTL DEF Spec
-----------------------------------------------------------------------------
\* Rows and requests of Interaction keep their types under every interleaving.
THEOREM TypeCorrect == Spec => []TypeOK
<1>1. Inv => TypeOK
  BY DEF Inv, TablesOK, TablesTyped, TypeOK
<1> QED BY <1>1, Invariance, PTL

\* toggleLike and addLike look first and insert later: the rows of a user and a target are
\* never more than the requests in flight, and one at most for a party.
THEOREM LikesAreBounded == Spec => []LikesBounded
<1>1. Inv => LikesBounded
  <2> SUFFICES ASSUME Inv, NEW u \in Users, NEW t \in Targets, t \in DOMAIN targets,
                      targets[t].kind = "party"
               PROVE  Cardinality(LikesOf(u, t)) <= 1
    BY DEF Inv, Bounded, LikesBounded
  <2>1. \A i, j \in LikesOf(u, t) : i = j
    BY DEF Inv, TablesOK, PartyLikedOnce
  <2>2. CASE LikesOf(u, t) = {}
    BY <2>2, FS_EmptySet
  <2>3. CASE LikesOf(u, t) # {}
    <3>1. PICK i : i \in LikesOf(u, t)
      BY <2>3
    <3>2. LikesOf(u, t) = {i}
      BY <2>1, <3>1
    <3>3. Cardinality({i}) = 1
      BY FS_Singleton
    <3> QED BY <3>2, <3>3
  <2> QED BY <2>2, <2>3
<1> QED BY <1>1, Invariance, PTL

\* Whoever is about to like or comment on a target that is still there could see it at some
\* step of the request, whichever of the three services decides.
THEOREM ReactorsCould == Spec => []ReactorsCouldSee
<1>1. Inv => ReactorsCouldSee
  BY DEF Inv, SoundRequest, Seen, Interacts, ReactorsCouldSee
<1> QED BY <1>1, Invariance, PTL

\* Comments change only by the steps of Interaction that write comments.
LEMMA CommentsUntouched ==
  ASSUME [Next]_vars, comments' # comments
  PROVE  \/ DropTarget
         \/ \E r \in Requests : InsertComment(r) \/ DeleteComment(r) \/ UpdateComment(r)
<1>1. CASE NewTarget \/ Publish \/ MembersChange \/ AzitDeleted \/ Restart \/ UNCHANGED vars
  BY <1>1 DEF NewTarget, Publish, MembersChange, AzitDeleted, Restart, Reads, reactions, vars
<1>2. ASSUME NEW r \in Requests, Step(r), ~ (InsertComment(r) \/ DeleteComment(r) \/ UpdateComment(r))
      PROVE  FALSE
  BY <1>2 DEF Step, ToggleLike, CreateComment, StartInteraction, StartLike, CheckMember, FindHighlight,
     Look, LookAgain, InsertLike, DeleteLike, CheckParent, StartRetract, Reads, reactions
<1> QED BY <1>1, <1>2 DEF Next, Environment

\* A comment goes or changes at the hands of its author, with its post or with the comment on
\* a party it replies to, although authors are compared an await before the write.
THEOREM CommentsAreTheirAuthors == Spec => CommentsByAuthor
<1> DEFINE Same(i) == /\ i \in DOMAIN comments' /\ comments'[i].user = comments[i].user
                      /\ comments'[i].edited = comments[i].edited
           WithTarget(i) == comments[i].target \in gone' \ gone
           WithParent(i) == /\ OnParty(i) /\ comments[i].parent \in DOMAIN comments
                            /\ comments[i].parent \notin DOMAIN comments'
           ByAuthor(i) == \E r \in Requests : /\ req[r].op \in {"retract", "revise"}
                                              /\ req[r].comment = i
                                              /\ req[r].user = comments[i].user
<1>1. ASSUME Inv, [Next]_vars, NEW i \in DOMAIN comments
      PROVE  Same(i) \/ WithTarget(i) \/ WithParent(i) \/ ByAuthor(i)
  <2>0. TablesOK /\ comments[i] \in Comment /\ DOMAIN comments \subseteq CommentId
    BY <1>1 DEF Inv, TablesOK, TablesTyped
  <2>1. CASE comments' = comments
    BY <2>1
  <2>2. ASSUME NEW r \in Requests, InsertComment(r) PROVE Same(i)
    <3>1. i # nextComment
      <4>1. i < nextComment /\ nextComment \in Nat
        BY <2>0, InteractionAssumption DEF TablesOK, TablesTyped, CommentsRefer
      <4> QED BY <4>1
    <3> QED BY <2>2, <3>1 DEF InsertComment
  <2>3. ASSUME NEW r \in Requests, DeleteComment(r) PROVE Same(i) \/ WithParent(i) \/ ByAuthor(i)
    <3> DEFINE ids == {req[r].comment}
    <3>1. SoundRequest(req[r]) /\ req[r].op = "retract" /\ comments' = CommentsWithout(ids)
      BY <1>1, <2>3 DEF Inv, DeleteComment
    <3>2. ids \in SUBSET CommentId /\ (i \in ids => ByAuthor(i))
      BY <3>1 DEF SoundRequest, OwnComment, Edits
    <3>3. DOMAIN comments' = DOMAIN comments \ WithReplies(ids)
      BY <3>1 DEF CommentsWithout
    <3> HIDE DEF ids
    <3>4. CASE i \notin WithReplies(ids)
      BY <2>0, <3>1, <3>2, <3>3, <3>4, CommentStays
    <3>5. CASE i \in WithReplies(ids) /\ i \notin ids
      <4>1. OnParty(i) /\ comments[i].parent \in WithReplies(ids)
        BY <2>0, <3>2, <3>5, OnlyRepliesRemoved
      <4>2. comments[i].parent \in DOMAIN comments
        BY <4>1 DEF WithReplies
      <4> QED BY <3>3, <4>1, <4>2
    <3> QED BY <3>2, <3>4, <3>5
  <2>4. ASSUME NEW r \in Requests, UpdateComment(r) PROVE Same(i) \/ ByAuthor(i)
    <3>1. SoundRequest(req[r]) /\ req[r].op = "revise"
      BY <1>1, <2>4 DEF Inv, UpdateComment
    <3>2. CASE i = req[r].comment
      BY <3>1, <3>2 DEF SoundRequest, OwnComment, Edits
    <3>3. CASE i # req[r].comment
      BY <2>4, <3>3 DEF UpdateComment
    <3> QED BY <3>2, <3>3
  <2>5. ASSUME DropTarget PROVE Same(i) \/ WithTarget(i) \/ WithParent(i)
    <3>1. PICK t \in DOMAIN targets :
            LET OnTarget == {j \in DOMAIN comments : comments[j].target = t} IN
            /\ gone' = gone \union {t}
            /\ \/ comments' = CommentsWithout(OnTarget)
               \/ comments' = [j \in DOMAIN comments |->
                     IF j \in OnTarget THEN [comments[j] EXCEPT !.target = None] ELSE comments[j]]
      BY <2>5 DEF DropTarget
    <3> DEFINE OnTarget == {j \in DOMAIN comments : comments[j].target = t}
    <3>2. i \in OnTarget => WithTarget(i)
      BY <2>0, <3>1 DEF TablesOK, TablesTyped
    <3>3. OnTarget \in SUBSET CommentId
      BY <2>0
    <3>4. CASE comments' = [j \in DOMAIN comments |->
                  IF j \in OnTarget THEN [comments[j] EXCEPT !.target = None] ELSE comments[j]]
      BY <2>0, <3>4 DEF Comment
    <3>5. CASE comments' = CommentsWithout(OnTarget)
      <4> HIDE DEF OnTarget
      <4>1. DOMAIN comments' = DOMAIN comments \ WithReplies(OnTarget)
        BY <3>5 DEF CommentsWithout
      <4>2. CASE i \notin WithReplies(OnTarget)
        BY <2>0, <3>3, <3>5, <4>1, <4>2, CommentStays
      <4>3. CASE i \in WithReplies(OnTarget) /\ i \notin OnTarget
        <5>1. OnParty(i) /\ comments[i].parent \in WithReplies(OnTarget)
          BY <2>0, <3>3, <4>3, OnlyRepliesRemoved
        <5>2. comments[i].parent \in DOMAIN comments
          BY <5>1 DEF WithReplies
        <5> QED BY <4>1, <5>1, <5>2
      <4> QED BY <3>2, <4>2, <4>3
    <3> QED BY <3>1, <3>4, <3>5
  <2> QED BY <1>1, <2>1, <2>2, <2>3, <2>4, <2>5, CommentsUntouched
<1>2. Inv /\ [Next]_vars =>
        [\A i \in DOMAIN comments :
           \/ i \in DOMAIN comments' /\ comments'[i].user = comments[i].user
                                      /\ comments'[i].edited = comments[i].edited
           \/ comments[i].target \in gone' \ gone
           \/ /\ OnParty(i) /\ comments[i].parent \in DOMAIN comments
              /\ comments[i].parent \notin DOMAIN comments'
           \/ \E r \in Requests : /\ req[r].op \in {"retract", "revise"} /\ req[r].comment = i
                                  /\ req[r].user = comments[i].user]_vars
  BY <1>1
<1> QED BY <1>2, Invariance, PTL DEF Spec, CommentsByAuthor
-----------------------------------------------------------------------------
(* The like a request found is a like of its user for its target.          *)

OwnLike(q) ==
  q.op = "toggle" /\ q.like # None =>
    /\ q.like < nextLike
    /\ q.like \in DOMAIN likes => likes[q.like].user = q.user /\ likes[q.like].target \in {q.target, None}

LikeInv == \A r \in Requests : OwnLike(req[r])

\* Ids are not used again, and a like changes only by losing its target.
LikesKept ==
  /\ nextLike' >= nextLike
  /\ \A i \in DOMAIN likes' :
       i < nextLike => /\ i \in DOMAIN likes /\ likes'[i].user = likes[i].user
                       /\ likes'[i].target = likes[i].target \/ likes'[i].target = None

LEMMA OwnLikeStable ==
  ASSUME TablesOK, NEW q \in Request, OwnLike(q), LikesKept, nextLike' \in Nat
  PROVE  OwnLike(q)'
<1> SUFFICES ASSUME q.op = "toggle", q.like # None
             PROVE  /\ q.like < nextLike'
                    /\ q.like \in DOMAIN likes' =>
                         likes'[q.like].user = q.user /\ likes'[q.like].target \in {q.target, None}
  BY DEF OwnLike
<1>1. q.like \in Nat /\ nextLike \in Nat /\ q.like < nextLike
  BY InteractionAssumption DEF OwnLike, Request, LikeId, TablesOK, TablesTyped
<1> QED BY <1>1 DEF OwnLike, LikesKept

\* Every step of a request leaves one behind that found nothing, what it had found before, or
\* a like of its own.
LEMMA Follows ==
  ASSUME Inv, NEW r \in Requests, Step(r)
  PROVE  \/ Return(r)
         \/ \E q \in Request :
              /\ Become(r, q)
              /\ \/ q.like = None
                 \/ q.like = req[r].like /\ q.op = req[r].op /\ q.user = req[r].user
                                         /\ q.target = req[r].target
                 \/ q.like \in LikesOf(q.user, q.target)
<1>0. TablesOK /\ req[r] \in Request
  BY DEF Inv
<1>1. ASSUME NEW pc \in Pcs, Goto(r, pc)
      PROVE  \E q \in Request : /\ Become(r, q) /\ q.like = req[r].like /\ q.op = req[r].op
                                 /\ q.user = req[r].user /\ q.target = req[r].target
  BY <1>0, <1>1, GotoFields DEF Goto
<1>2. {"look", "again", "parent", "write"} \subseteq Pcs
  BY DEF Pcs
<1>3. ASSUME StartInteraction(r, "toggle", "look") \/ StartInteraction(r, "comment", "parent")
      PROVE  \E q \in Request : Become(r, q) /\ q.like = None
  <2>1. PICK op \in {"toggle", "comment"}, u \in Users, t \in DOMAIN targets,
             c \in CommentId \union {None}, pc \in {"member", "look", "parent"} :
          Become(r, [Idle EXCEPT !.op = op, !.party = (targets[t].kind = "party"),
                                 !.user = u, !.target = t, !.comment = c, !.pc = pc])
    BY <1>3 DEF StartInteraction, Begin
  <2> DEFINE q == [Idle EXCEPT !.op = op, !.party = (targets[t].kind = "party"),
                               !.user = u, !.target = t, !.comment = c, !.pc = pc]
  <2>2. t \in Targets /\ (targets[t].kind = "party") \in BOOLEAN
    BY <1>0 DEF TablesOK, TablesTyped
  <2>3. q \in Request /\ q.like = None
    BY <2>2 DEF Idle, Request, Ops, Pcs
  <2> QED BY <2>1, <2>3
<1>4. ASSUME StartLike(r) PROVE \E q \in Request : Become(r, q) /\ q.like = None
  <2>1. PICK u \in members, t \in Targets, op \in {"add", "remove"} :
          Become(r, [Idle EXCEPT !.op = op, !.pc = "find", !.user = u, !.target = t])
    BY <1>4 DEF StartLike, Begin
  <2> DEFINE q == [Idle EXCEPT !.op = op, !.pc = "find", !.user = u, !.target = t]
  <2>2. q \in Request /\ q.like = None
    BY <1>0 DEF Idle, Request, Ops, Pcs, TablesOK, TablesTyped
  <2> QED BY <2>1, <2>2
<1>5. ASSUME StartRetract(r) PROVE \E q \in Request : Become(r, q) /\ q.like = None
  <2>1. PICK u \in Users, c \in DOMAIN comments, op \in {"retract", "revise"} :
          Become(r, [Idle EXCEPT !.op = op, !.pc = "write", !.user = u, !.comment = c])
    BY <1>5 DEF StartRetract, Begin
  <2> DEFINE q == [Idle EXCEPT !.op = op, !.pc = "write", !.user = u, !.comment = c]
  <2>2. q \in Request /\ q.like = None
    BY <1>0 DEF Idle, Request, Ops, Pcs, TablesOK, TablesTyped
  <2> QED BY <2>1, <2>2
<1>6. ASSUME Look(r), ~ Return(r), \A pc \in Pcs : ~ Goto(r, pc)
      PROVE  \E q \in Request : Become(r, q) /\ q.like \in LikesOf(q.user, q.target)
  <2>1. PICK i \in LikesOf(req[r].user, req[r].target) :
          Become(r, [req[r] EXCEPT !.like = i, !.pc = "write"])
    <3>1. req[r].op \in {"toggle", "add", "remove"}
      BY <1>6 DEF Inv, SoundRequest, Shape, LikesInAzit, Look
    <3>2. CASE req[r].op = "toggle"
      BY <1>2, <1>6, <3>2 DEF Look
    <3>3. CASE req[r].op = "add"
      BY <1>2, <1>6, <3>3 DEF Look
    <3>4. CASE req[r].op = "remove"
      BY <1>2, <1>6, <3>4 DEF Look
    <3> QED BY <3>1, <3>2, <3>3, <3>4
  <2>2. i \in LikeId
    BY <1>0 DEF LikesOf, TablesOK, TablesTyped
  <2> DEFINE q == [req[r] EXCEPT !.like = i, !.pc = "write"]
  <2>3. q \in Request /\ q.like = i /\ q.user = req[r].user /\ q.target = req[r].target
    BY <1>0, <2>2 DEF Request, Pcs
  <2> QED BY <2>1, <2>3
<1>7. CASE \E pc \in Pcs : Goto(r, pc)
  BY <1>1, <1>7
<1>8. CASE Return(r)
  BY <1>8
<1>9. CASE ~ Return(r) /\ \A pc \in Pcs : ~ Goto(r, pc)
  <2>1. \/ StartInteraction(r, "toggle", "look") \/ StartInteraction(r, "comment", "parent")
        \/ StartLike(r) \/ StartRetract(r) \/ Look(r)
    BY <1>2, <1>9 DEF Step, ToggleLike, CreateComment, CheckMember, FindHighlight, LookAgain,
       CheckParent, InsertLike, DeleteLike, InsertComment, DeleteComment, UpdateComment
  <2> QED BY <1>3, <1>4, <1>5, <1>6, <1>9, <2>1
<1> QED BY <1>7, <1>8, <1>9

LEMMA LikesStepKept == ASSUME Inv, [Next]_vars PROVE LikesKept
<1>1. /\ TablesOK /\ nextLike \in Nat /\ None \notin Targets
      /\ \A i \in DOMAIN likes : likes[i] \in Like /\ i < nextLike /\ i \in Nat
  BY InteractionAssumption DEF Inv, TablesOK, TablesTyped, LikesRefer, LikeId
<1>2. CASE likes' = likes /\ nextLike' = nextLike
  BY <1>1, <1>2 DEF LikesKept
<1>3. ASSUME NEW r \in Requests, InsertLike(r) PROVE LikesKept
  <2>1. /\ nextLike' = nextLike + 1
        /\ \A i \in DOMAIN likes' : i = nextLike \/ (i \in DOMAIN likes /\ likes'[i] = likes[i])
    BY <1>1, <1>3 DEF InsertLike
  <2> QED BY <1>1, <2>1 DEF LikesKept
<1>4. ASSUME NEW r \in Requests, DeleteLike(r) PROVE LikesKept
  BY <1>1, <1>4 DEF DeleteLike, LikesKept
<1>5. CASE DropTarget
  <2>1. /\ nextLike' = nextLike
        /\ \A i \in DOMAIN likes' :
             i \in DOMAIN likes /\ (likes'[i] = likes[i] \/ likes'[i] = [likes[i] EXCEPT !.target = None])
    BY <1>5 DEF DropTarget
  <2> QED BY <1>1, <2>1 DEF LikesKept, Like
<1>6. CASE NewTarget \/ Publish \/ MembersChange \/ AzitDeleted \/ Restart \/ UNCHANGED vars
  BY <1>2, <1>6 DEF NewTarget, Publish, MembersChange, AzitDeleted, Restart, Reads, reactions, vars
<1>7. ASSUME NEW r \in Requests, Step(r), ~ (InsertLike(r) \/ DeleteLike(r))
      PROVE  likes' = likes /\ nextLike' = nextLike
  BY <1>7 DEF Step, ToggleLike, CreateComment, StartInteraction, StartLike, CheckMember, FindHighlight,
     Look, LookAgain, CheckParent, StartRetract, InsertComment, DeleteComment, UpdateComment, Reads,
     reactions
<1> QED BY <1>2, <1>3, <1>4, <1>5, <1>6, <1>7 DEF Next, Environment

LEMMA LikeInvNext == Inv /\ LikeInv /\ [Next]_vars => LikeInv'
<1> SUFFICES ASSUME Inv, LikeInv, [Next]_vars, NEW s \in Requests PROVE OwnLike(req[s])'
  BY DEF LikeInv
<1>1. /\ TablesOK /\ LikesKept /\ nextLike' \in Nat /\ req \in [Requests -> Request]
      /\ req' \in [Requests -> Request]
  BY NextInv, LikesStepKept, InteractionAssumption DEF Inv, TablesOK, TablesTyped
<1>2. \E p \in Request : OwnLike(p) /\ req'[s] = p
  <2>1. CASE req'[s] = req[s]
    BY <1>1, <2>1 DEF LikeInv
  <2>2. CASE req'[s] = Idle
    BY <2>2, IdleRequest DEF OwnLike
  <2>3. ASSUME NEW r \in Requests, Step(r) PROVE \E p \in Request : OwnLike(p) /\ req'[s] = p
    <3>1. CASE Return(r)
      BY <1>1, <2>1, <2>2, <3>1 DEF Return
    <3>2. ASSUME NEW q \in Request, Become(r, q),
                 \/ q.like = None
                 \/ q.like = req[r].like /\ q.op = req[r].op /\ q.user = req[r].user
                                         /\ q.target = req[r].target
                 \/ q.like \in LikesOf(q.user, q.target)
          PROVE  \E p \in Request : OwnLike(p) /\ req'[s] = p
      <4>1. OwnLike(q)
        BY <1>1, <3>2 DEF LikeInv, OwnLike, LikesOf, TablesOK, LikesRefer
      <4>2. OwnLike(Marked(q)) /\ Marked(q) \in Request
        BY <4>1, MarkedRequest DEF OwnLike
      <4>3. req' = [req EXCEPT ![r] = Marked(q)]
        BY <3>2 DEF Become, Marked
      <4> QED BY <1>1, <2>1, <4>2, <4>3
    <3> QED BY <2>3, <3>1, <3>2, Follows
  <2>4. CASE Environment \/ UNCHANGED vars
    BY <2>1, <2>4 DEF Environment, NewTarget, Publish, DropTarget, MembersChange, AzitDeleted, vars
  <2>5. CASE Restart
    BY <2>2, <2>5 DEF Restart
  <2> QED BY <2>3, <2>4, <2>5 DEF Next
<1>3. PICK p \in Request : OwnLike(p) /\ req'[s] = p
  BY <1>2
<1>4. OwnLike(p)'
  BY <1>1, <1>3, OwnLikeStable
<1> QED BY <1>3, <1>4 DEF OwnLike

LEMMA LikeInvariance == Spec => []LikeInv
<1>1. Init => LikeInv
  BY IdleRequest DEF Init, LikeInv, OwnLike
<1> QED BY <1>1, LikeInvNext, Invariance, PTL DEF Spec
-----------------------------------------------------------------------------
(* The tables implement Reactions.                                         *)

Liked == {<<likes[i].user, likes[i].target>> : i \in {j \in DOMAIN likes : likes[j].target # None}}
Said  == {<<i, comments[i].user, comments[i].target>> :
            i \in {j \in TableOf(FALSE) : comments[j].target # None}}
Spoken == {i \in TableOf(FALSE) : comments[i].target # None}

Pairs == {x \in Users \X Targets : LikesOf(x[1], x[2]) # {}}

LEMMA LikedPairs == TablesTyped => Liked = Pairs
<1> SUFFICES ASSUME TablesTyped PROVE Liked = Pairs
  OBVIOUS
<1>1. None \notin Targets
  BY InteractionAssumption
<1>2. ASSUME NEW x \in Liked PROVE x \in Pairs
  <2>1. PICK i \in DOMAIN likes : likes[i].target # None /\ x = <<likes[i].user, likes[i].target>>
    BY DEF Liked
  <2>2. likes[i].user \in Users /\ likes[i].target \in Targets
    BY <2>1 DEF TablesTyped, Like
  <2>3. i \in LikesOf(x[1], x[2])
    BY <2>1 DEF LikesOf
  <2> QED BY <2>1, <2>2, <2>3 DEF Pairs
<1>3. ASSUME NEW x \in Pairs PROVE x \in Liked
  <2>1. PICK i \in DOMAIN likes : likes[i].user = x[1] /\ likes[i].target = x[2]
    BY DEF LikesOf, Pairs
  <2>2. x = <<likes[i].user, likes[i].target>> /\ likes[i].target # None
    BY <1>1, <2>1 DEF Pairs
  <2> QED BY <2>2 DEF Liked
<1> QED BY <1>2, <1>3

LEMMA LikedPairsNext == (TablesTyped => Liked = Pairs)'
BY LikedPairs, PTL

\* What is liked follows from the rows of each user and target.
LEMMA LikedSame ==
  ASSUME Inv, Inv', \A u \in Users, t \in Targets : LikesOf(u, t)' = {} <=> LikesOf(u, t) = {}
  PROVE  Liked' = Liked
<1>1. Liked = Pairs /\ Liked' = Pairs'
  BY LikedPairs, LikedPairsNext DEF Inv, TablesOK
<1>2. \A x \in Users \X Targets : x \in Pairs' <=> x \in Pairs
  BY DEF Pairs
<1>3. Pairs' \subseteq Users \X Targets /\ Pairs \subseteq Users \X Targets
  BY DEF Pairs
<1> QED BY <1>1, <1>2, <1>3

LEMMA LikedMore ==
  ASSUME Inv, Inv', NEW u \in Users, NEW t \in Targets, LikesOf(u, t)' # {},
         \A v \in Users, s \in Targets : <<v, s>> # <<u, t>> => LikesOf(v, s)' = LikesOf(v, s)
  PROVE  Liked' = Liked \union {<<u, t>>}
<1>1. Liked = Pairs /\ Liked' = Pairs'
  BY LikedPairs, LikedPairsNext DEF Inv, TablesOK
<1>2. \A x \in Users \X Targets : x \in Pairs' <=> x \in Pairs \/ x = <<u, t>>
  BY DEF Pairs
<1>3. Pairs' \subseteq Users \X Targets /\ Pairs \subseteq Users \X Targets
  BY DEF Pairs
<1> QED BY <1>1, <1>2, <1>3

LEMMA LikedFewer ==
  ASSUME Inv, Inv', NEW u \in Users, NEW t \in Targets, LikesOf(u, t)' = {},
         \A v \in Users, s \in Targets : <<v, s>> # <<u, t>> => LikesOf(v, s)' = LikesOf(v, s)
  PROVE  Liked' = Liked \ {<<u, t>>}
<1>1. Liked = Pairs /\ Liked' = Pairs'
  BY LikedPairs, LikedPairsNext DEF Inv, TablesOK
<1>2. \A x \in Users \X Targets : x \in Pairs' <=> x \in Pairs /\ x # <<u, t>>
  BY DEF Pairs
<1>3. Pairs' \subseteq Users \X Targets /\ Pairs \subseteq Users \X Targets
  BY DEF Pairs
<1> QED BY <1>1, <1>2, <1>3

LEMMA LikedWithout ==
  ASSUME Inv, Inv', NEW t \in Targets,
         \A u \in Users, s \in Targets : LikesOf(u, s)' = IF s = t THEN {} ELSE LikesOf(u, s)
  PROVE  Liked' = {x \in Liked : x[2] # t}
<1>1. Liked = Pairs /\ Liked' = Pairs'
  BY LikedPairs, LikedPairsNext DEF Inv, TablesOK
<1>2. \A x \in Users \X Targets : x \in Pairs' <=> x \in Pairs /\ x[2] # t
  BY DEF Pairs
<1>3. Pairs' \subseteq Users \X Targets /\ Pairs \subseteq Users \X Targets
  BY DEF Pairs
<1> QED BY <1>1, <1>2, <1>3

\* What is said follows from the comments in the community, which keep author and target.
LEMMA SaidSame ==
  ASSUME Spoken' = Spoken,
         \A i \in Spoken : comments'[i].user = comments[i].user /\ comments'[i].target = comments[i].target
  PROVE  Said' = Said
<1>1. Said = {<<i, comments[i].user, comments[i].target>> : i \in Spoken}
  BY DEF Said, Spoken
<1>2. Said' = {<<i, comments'[i].user, comments'[i].target>> : i \in Spoken'}
  BY DEF Said, Spoken
<1> QED BY <1>1, <1>2

LEMMA SaidMore ==
  ASSUME NEW n, n \notin Spoken, Spoken' = Spoken \union {n},
         \A i \in Spoken : comments'[i].user = comments[i].user /\ comments'[i].target = comments[i].target
  PROVE  /\ Said' = Said \union {<<n, comments'[n].user, comments'[n].target>>}
         /\ \A x \in Said : x[1] # n
<1>1. Said = {<<i, comments[i].user, comments[i].target>> : i \in Spoken}
  BY DEF Said, Spoken
<1>2. Said' = {<<i, comments'[i].user, comments'[i].target>> : i \in Spoken'}
  BY DEF Said, Spoken
<1> QED BY <1>1, <1>2

LEMMA SaidFewer ==
  ASSUME NEW c, Spoken' = Spoken \ {c},
         \A i \in Spoken' : comments'[i].user = comments[i].user /\ comments'[i].target = comments[i].target
  PROVE  Said' = {x \in Said : x[1] # c}
<1>1. Said = {<<i, comments[i].user, comments[i].target>> : i \in Spoken}
  BY DEF Said, Spoken
<1>2. Said' = {<<i, comments'[i].user, comments'[i].target>> : i \in Spoken'}
  BY DEF Said, Spoken
<1> QED BY <1>1, <1>2

LEMMA SaidWithout ==
  ASSUME NEW t, Spoken' = {i \in Spoken : comments[i].target # t},
         \A i \in Spoken' : comments'[i].user = comments[i].user /\ comments'[i].target = comments[i].target
  PROVE  Said' = {x \in Said : x[3] # t}
<1>1. Said = {<<i, comments[i].user, comments[i].target>> : i \in Spoken}
  BY DEF Said, Spoken
<1>2. Said' = {<<i, comments'[i].user, comments'[i].target>> : i \in Spoken'}
  BY DEF Said, Spoken
<1> QED BY <1>1, <1>2
-----------------------------------------------------------------------------
(* Every step maps to a step of Reactions or to a stutter.                 *)

Live == DOMAIN targets
ReactVars == <<DOMAIN targets, Liked, Said>>

LEMMA LikeReacts ==
  ASSUME NEW u \in Users, NEW t \in Targets, t \in DOMAIN targets, Live' = Live,
         Liked' = Liked \union {<<u, t>>}, Said' = Said
  PROVE  React!Next
<1>1. React!Like(u, t)
  BY DEF React!Like, Liked, Said, Live
<1> QED BY <1>1 DEF React!Next

LEMMA UnlikeReacts ==
  ASSUME NEW u \in Users, NEW t \in Targets, Live' = Live,
         Liked' = Liked \ {<<u, t>>}, Said' = Said
  PROVE  React!Next
<1>1. React!Unlike(u, t)
  BY DEF React!Unlike, Liked, Said, Live
<1> QED BY <1>1 DEF React!Next

LEMMA SayReacts ==
  ASSUME NEW c \in CommentId, NEW u \in Users, NEW t \in Targets, t \in DOMAIN targets, Live' = Live,
         \A x \in Said : x[1] # c, Said' = Said \union {<<c, u, t>>}, Liked' = Liked
  PROVE  React!Next
<1>1. React!Say(c, u, t)
  BY DEF React!Say, Liked, Said, Live
<1> QED BY <1>1 DEF React!Next

LEMMA RetractReacts ==
  ASSUME NEW c \in CommentId, Live' = Live, Said' = {x \in Said : x[1] # c}, Liked' = Liked
  PROVE  React!Next
<1>1. React!Retract(c)
  BY DEF React!Retract, Liked, Said, Live
<1> QED BY <1>1 DEF React!Next

LEMMA AppearReacts ==
  ASSUME NEW t \in Targets, Live' = Live \union {t}, Said' = Said, Liked' = Liked
  PROVE  React!Next
<1>1. React!Appear(t)
  BY DEF React!Appear, Liked, Said, Live
<1> QED BY <1>1 DEF React!Next

LEMMA VanishReacts ==
  ASSUME NEW t \in Targets, t \in DOMAIN targets, Live' = Live \ {t},
         Said' = {x \in Said : x[3] # t}, Liked' = {x \in Liked : x[2] # t}
  PROVE  React!Next
<1>1. React!Vanish(t)
  BY DEF React!Vanish, Liked, Said, Live
<1> QED BY <1>1 DEF React!Next

LEMMA InsertLikeReacts ==
  ASSUME Inv, Inv', NEW r \in Requests, InsertLike(r)
  PROVE  React!Next \/ UNCHANGED ReactVars
<1> DEFINE q == req[r]
           row == [user |-> q.user, target |-> q.target]
<1>1. /\ Inserting(q) /\ UNCHANGED <<content, comments>>
      /\ \/ likes' = likes
         \/ /\ q.target \in DOMAIN targets
            /\ likes' = [i \in DOMAIN likes \union {nextLike} |-> IF i = nextLike THEN row ELSE likes[i]]
  BY DEF InsertLike
<1>2. SoundRequest(q)
  BY DEF Inv
<1>3. q.user \in Users /\ q.target \in Targets
  BY <1>1, <1>2 DEF SoundRequest, Caller, Interacts, LikesInAzit, Inserting
<1>4. Live' = Live /\ Said' = Said
  BY <1>1 DEF Live, Said, TableOf, OnParty, content
<1>5. CASE likes' = likes
  BY <1>4, <1>5 DEF ReactVars, Liked, Live
<1>6. CASE /\ q.target \in DOMAIN targets
           /\ likes' = [i \in DOMAIN likes \union {nextLike} |-> IF i = nextLike THEN row ELSE likes[i]]
  <2>1. nextLike \notin DOMAIN likes
    BY InteractionAssumption DEF Inv, TablesOK, TablesTyped, LikesRefer, LikeId
  <2>2. ASSUME NEW v \in Users, NEW s \in Targets, <<v, s>> # <<q.user, q.target>>
        PROVE  LikesOf(v, s)' = LikesOf(v, s)
    BY <1>6, <2>1, <2>2 DEF LikesOf
  <2> HIDE DEF q
  <2>3. Liked' = Liked \union {<<q.user, q.target>>}
    <3>1. PICK u, t : u = q.user /\ t = q.target
      OBVIOUS
    <3>2. u \in Users /\ t \in Targets
      BY <1>3, <3>1
    <3>3. LikesOf(u, t)' # {}
      BY <1>6, <2>1, <3>1 DEF LikesOf
    <3>4. Liked' = Liked \union {<<u, t>>}
      BY <2>2, <3>1, <3>2, <3>3, LikedMore
    <3> QED BY <3>1, <3>4
  <2> QED BY <1>3, <1>4, <1>6, <2>3, LikeReacts
<1> QED BY <1>1, <1>5, <1>6

LEMMA DeleteLikeReacts ==
  ASSUME Inv, Inv', LikeInv, NEW r \in Requests, DeleteLike(r)
  PROVE  React!Next \/ UNCHANGED ReactVars
<1>1. PICK q : q = req[r]
  OBVIOUS
<1>2. PICK u, t : u = q.user /\ t = q.target
  OBVIOUS
<1>3. /\ q.op = "remove" \/ (q.op = "toggle" /\ q.like # None)
      /\ likes' = [i \in DOMAIN likes \ Unliked(q) |-> likes[i]]
      /\ UNCHANGED <<content, comments>> /\ SoundRequest(q) /\ OwnLike(q)
  BY <1>1 DEF DeleteLike, Inv, LikeInv
<1>4. u \in Users /\ t \in Targets
  BY <1>2, <1>3 DEF SoundRequest, Caller, Interacts, LikesInAzit
<1>5. \A i \in Unliked(q) \intersect DOMAIN likes :
        likes[i].user = u /\ likes[i].target \in {t, None}
  BY <1>2, <1>3 DEF Unliked, OwnLike, LikesOf
<1>6. Live' = Live /\ Said' = Said
  BY <1>3 DEF Live, Said, TableOf, OnParty, content
<1>7. \A v \in Users, s \in Targets : <<v, s>> # <<u, t>> => LikesOf(v, s)' = LikesOf(v, s)
  BY <1>3, <1>5, InteractionAssumption DEF LikesOf
<1>8. LikesOf(u, t)' \subseteq LikesOf(u, t)
  BY <1>3 DEF LikesOf
<1>9. CASE LikesOf(u, t)' = {}
  <2>1. Liked' = Liked \ {<<u, t>>}
    BY <1>4, <1>7, <1>9, LikedFewer
  <2> QED BY <1>4, <1>6, <2>1, UnlikeReacts
<1>10. CASE LikesOf(u, t)' # {}
  <2>1. \A v \in Users, s \in Targets : LikesOf(v, s)' = {} <=> LikesOf(v, s) = {}
    BY <1>7, <1>8, <1>10
  <2>2. Liked' = Liked
    BY <2>1, LikedSame
  <2> QED BY <1>6, <2>2 DEF ReactVars, Live
<1> QED BY <1>9, <1>10

\* Likes are as they were when no like and no target changes.
LEMMA LikedStays ==
  ASSUME UNCHANGED <<content, likes>>
  PROVE  Live' = Live /\ Liked' = Liked
BY DEF Live, Liked, content

LEMMA SpokenComments ==
  ASSUME NEW i
  PROVE  i \in Spoken <=> i \in DOMAIN comments /\ ~ OnParty(i) /\ comments[i].target # None
BY DEF Spoken, TableOf, OnParty

LEMMA InsertCommentReacts ==
  ASSUME Inv, NEW r \in Requests, InsertComment(r)
  PROVE  React!Next \/ UNCHANGED ReactVars
<1>1. PICK q, n, u, t : q = req[r] /\ n = nextComment /\ u = q.user /\ t = q.target
  OBVIOUS
<1>2. /\ q.op = "comment" /\ q.pc = "write" /\ UNCHANGED <<content, likes>>
      /\ TablesOK /\ SoundRequest(q)
      /\ \/ comments' = comments
         \/ /\ t \in DOMAIN targets
            /\ comments' = [i \in DOMAIN comments \union {n} |->
                 IF i = n THEN [user |-> u, target |-> t, parent |-> q.comment, edited |-> FALSE]
                          ELSE comments[i]]
  BY <1>1 DEF InsertComment, Inv
<1>3. u \in Users /\ t \in Targets /\ t # None
  BY <1>1, <1>2, InteractionAssumption DEF SoundRequest, Caller, Interacts
<1>4. Live' = Live /\ Liked' = Liked
  BY <1>2, LikedStays
<1>5. n \in CommentId /\ n \notin DOMAIN comments
  BY <1>1, InteractionAssumption DEF Inv, TablesOK, TablesTyped, CommentsRefer, CommentId, InsertComment,
     IdsLeft
<1>6. CASE comments' = comments
  <2>1. Said' = Said
    BY <1>2, <1>6 DEF Said, TableOf, OnParty, content
  <2> QED BY <1>4, <2>1 DEF ReactVars, Live
<1>7. CASE /\ t \in DOMAIN targets
           /\ comments' = [i \in DOMAIN comments \union {n} |->
                IF i = n THEN [user |-> u, target |-> t, parent |-> q.comment, edited |-> FALSE]
                         ELSE comments[i]]
  <2>1. /\ DOMAIN comments' = DOMAIN comments \union {n} /\ targets' = targets
        /\ comments'[n].user = u /\ comments'[n].target = t
        /\ \A i \in DOMAIN comments : comments'[i] = comments[i]
    BY <1>2, <1>5, <1>7 DEF content
  <2>2. \A i \in DOMAIN comments : i \in Spoken' <=> i \in Spoken
    BY <2>1 DEF Spoken, TableOf, OnParty
  <2>3. n \in Spoken' <=> targets[t].kind # "party"
    BY <1>3, <2>1 DEF Spoken, TableOf, OnParty
  <2>4. Spoken' \subseteq DOMAIN comments \union {n} /\ Spoken \subseteq DOMAIN comments
    BY <2>1 DEF Spoken, TableOf
  <2>5. CASE targets[t].kind = "party"
    <3>1. Spoken' = Spoken
      BY <1>5, <2>2, <2>3, <2>4, <2>5
    <3>2. Said' = Said
      BY <2>1, <2>4, <3>1, SaidSame
    <3> QED BY <1>4, <3>2 DEF ReactVars, Live
  <2>6. CASE targets[t].kind # "party"
    <3>1. Spoken' = Spoken \union {n} /\ n \notin Spoken
      BY <1>5, <2>2, <2>3, <2>4, <2>6
    <3>2. Said' = Said \union {<<n, u, t>>} /\ \A x \in Said : x[1] # n
      BY <2>1, <2>4, <3>1, SaidMore
    <3> QED BY <1>3, <1>4, <1>5, <1>7, <3>2, SayReacts
  <2> QED BY <2>5, <2>6
<1> QED BY <1>2, <1>6, <1>7

LEMMA DeleteCommentReacts ==
  ASSUME Inv, NEW r \in Requests, DeleteComment(r)
  PROVE  React!Next
<1>1. PICK c, ids : c = req[r].comment /\ ids = {c}
  OBVIOUS
<1>2. /\ UNCHANGED <<content, likes>> /\ comments' = CommentsWithout(ids) /\ TablesOK
      /\ c \in CommentId
  BY <1>1 DEF DeleteComment, Inv, SoundRequest, OwnComment, Edits
<1>3. Live' = Live /\ Liked' = Liked
  BY <1>2, LikedStays
<1>4. DOMAIN comments' = DOMAIN comments \ WithReplies(ids) /\ ids \in SUBSET CommentId
  BY <1>1, <1>2 DEF CommentsWithout
<1>5. ASSUME NEW i \in DOMAIN comments'
      PROVE  /\ i \in DOMAIN comments /\ comments'[i].user = comments[i].user
             /\ comments'[i].target = comments[i].target
  BY <1>2, <1>4, CommentStays
<1>6. Spoken' = Spoken \ {c}
  <2>1. \A i \in DOMAIN comments' : i \in Spoken' <=> i \in Spoken
    BY <1>2, <1>5 DEF Spoken, TableOf, OnParty, content
  <2>2. \A i \in DOMAIN comments \ DOMAIN comments' : i \in Spoken => i = c
    BY <1>1, <1>2, <1>4, OnlyRepliesRemoved, SpokenComments
  <2>3. c \notin DOMAIN comments'
    BY <1>1, <1>4, RemovedIds
  <2>4. Spoken' \subseteq DOMAIN comments' /\ Spoken \subseteq DOMAIN comments
    BY DEF Spoken, TableOf
  <2>5. DOMAIN comments' \subseteq DOMAIN comments
    BY <1>4
  <2> QED BY <2>1, <2>2, <2>3, <2>4, <2>5
<1>7. Said' = {x \in Said : x[1] # c}
  <2>1. Spoken' \subseteq DOMAIN comments'
    BY DEF Spoken, TableOf
  <2> QED BY <1>5, <1>6, <2>1, SaidFewer
<1> QED BY <1>2, <1>3, <1>7, RetractReacts

LEMMA UpdateCommentReacts ==
  ASSUME Inv, NEW r \in Requests, UpdateComment(r)
  PROVE  UNCHANGED ReactVars
<1>1. UNCHANGED <<content, likes>> /\ TablesOK
  BY DEF UpdateComment, Inv
<1>2. Live' = Live /\ Liked' = Liked
  BY <1>1, LikedStays
<1>3. /\ DOMAIN comments' = DOMAIN comments
      /\ \A i \in DOMAIN comments : /\ comments'[i].user = comments[i].user
                                    /\ comments'[i].target = comments[i].target
  <2>1. \A i \in DOMAIN comments : comments[i] \in Comment
    BY <1>1 DEF TablesOK, TablesTyped
  <2> QED BY <2>1 DEF UpdateComment, Comment
<1>4. Spoken' = Spoken
  BY <1>1, <1>3 DEF Spoken, TableOf, OnParty, content
<1>5. Said' = Said
  BY <1>3, <1>4, SaidSame DEF Spoken, TableOf
<1> QED BY <1>2, <1>5 DEF ReactVars, Live

\* Steps that leave likes and comments alone, and the kinds of the targets they refer to.
LEMMA SaidStays ==
  ASSUME TablesOK, UNCHANGED reactions,
         \A t \in DOMAIN targets : t \in DOMAIN targets' /\ targets'[t].kind = targets[t].kind
  PROVE  Said' = Said /\ Liked' = Liked
<1>1. Liked' = Liked
  BY DEF Liked, reactions
<1>2. Spoken' = Spoken
  BY DEF TablesOK, CommentsRefer, Spoken, TableOf, OnParty, reactions
<1>3. Said' = Said
  BY <1>2, SaidSame DEF reactions
<1> QED BY <1>1, <1>3

LEMMA NewTargetReacts == ASSUME Inv, NewTarget PROVE React!Next
<1>1. PICK t \in Targets \ (DOMAIN targets \union gone), x \in Target :
        targets' = [s \in DOMAIN targets \union {t} |-> IF s = t THEN x ELSE targets[s]]
  BY DEF NewTarget
<1>2. Said' = Said /\ Liked' = Liked
  BY <1>1, SaidStays DEF NewTarget, Inv
<1>3. Live' = Live \union {t}
  BY <1>1 DEF Live
<1> QED BY <1>2, <1>3, AppearReacts

LEMMA SameTargetsReact ==
  ASSUME Inv, Publish \/ MembersChange \/ AzitDeleted
  PROVE  UNCHANGED ReactVars
<1>1. TablesOK /\ \A t \in DOMAIN targets : targets[t] \in Target
  BY DEF Inv, TablesOK, TablesTyped
<1>2. /\ DOMAIN targets' = DOMAIN targets /\ UNCHANGED reactions
      /\ \A t \in DOMAIN targets : targets'[t].kind = targets[t].kind
  BY <1>1 DEF Publish, MembersChange, AzitDeleted, Target
<1>3. Said' = Said /\ Liked' = Liked
  BY <1>1, <1>2, SaidStays
<1> QED BY <1>2, <1>3 DEF ReactVars

LEMMA DropTargetReacts == ASSUME Inv, Inv', DropTarget PROVE React!Next
<1>1. SUFFICES ASSUME NEW t \in DOMAIN targets, NEW OnTarget,
                      OnTarget = {i \in DOMAIN comments : comments[i].target = t},
                      targets' = [s \in DOMAIN targets \ {t} |-> targets[s]],
                      \/ /\ targets[t].kind # "highlight"
                         /\ likes' = [i \in {j \in DOMAIN likes : likes[j].target # t} |-> likes[i]]
                         /\ comments' = CommentsWithout(OnTarget)
                      \/ /\ targets[t].kind = "highlight"
                         /\ likes' = [i \in DOMAIN likes |->
                                IF likes[i].target = t THEN [likes[i] EXCEPT !.target = None]
                                                       ELSE likes[i]]
                         /\ comments' = [i \in DOMAIN comments |->
                                IF i \in OnTarget THEN [comments[i] EXCEPT !.target = None] ELSE comments[i]]
              PROVE  React!Next
  BY DEF DropTarget
<1>2. /\ TablesOK /\ t \in Targets /\ t # None /\ None \notin Targets /\ OnTarget \in SUBSET CommentId
      /\ \A i \in DOMAIN likes : likes[i] \in Like
      /\ \A i \in DOMAIN comments :
           comments[i] \in Comment /\ comments[i].target \in DOMAIN targets \union {None}
  BY <1>1, InteractionAssumption DEF Inv, TablesOK, TablesTyped, CommentsRefer
<1>3. Live' = Live \ {t} /\ \A s \in DOMAIN targets \ {t} : targets'[s] = targets[s]
  BY <1>1 DEF Live
<1>4. \A u \in Users, s \in Targets : LikesOf(u, s)' = IF s = t THEN {} ELSE LikesOf(u, s)
  BY <1>1, <1>2 DEF LikesOf, Like
<1>5. Liked' = {x \in Liked : x[2] # t}
  BY <1>2, <1>4, LikedWithout
<1>6. /\ Spoken' = {i \in Spoken : comments[i].target # t}
      /\ \A i \in Spoken' : comments'[i].user = comments[i].user /\ comments'[i].target = comments[i].target
  <2>0. Spoken' \subseteq DOMAIN comments' /\ Spoken \subseteq DOMAIN comments
    BY DEF Spoken, TableOf
  <2>1. CASE comments' = CommentsWithout(OnTarget)
    <3>1. DOMAIN comments' = DOMAIN comments \ WithReplies(OnTarget)
      BY <2>1 DEF CommentsWithout
    <3>2. ASSUME NEW i \in DOMAIN comments'
          PROVE  /\ i \in DOMAIN comments /\ comments'[i].user = comments[i].user
                 /\ comments'[i].target = comments[i].target
      BY <1>2, <2>1, <3>1, CommentStays
    <3>3. \A i \in DOMAIN comments' : i \notin OnTarget /\ comments[i].target # t
      BY <1>1, <3>1, RemovedIds
    <3>4. \A i \in DOMAIN comments' : i \in Spoken' <=> i \in Spoken
      BY <1>2, <1>3, <3>2, <3>3 DEF Spoken, TableOf, OnParty
    <3>5. \A i \in DOMAIN comments \ DOMAIN comments' : i \in Spoken => i \in OnTarget
      BY <1>2, <3>1, OnlyRepliesRemoved, SpokenComments
    <3>6. \A i \in OnTarget : comments[i].target = t
      BY <1>1
    <3> QED BY <2>0, <3>1, <3>2, <3>3, <3>4, <3>5, <3>6
  <2>2. CASE /\ targets[t].kind = "highlight"
             /\ comments' = [i \in DOMAIN comments |->
                    IF i \in OnTarget THEN [comments[i] EXCEPT !.target = None] ELSE comments[i]]
    <3>1. DOMAIN comments' = DOMAIN comments
      BY <2>2
    <3>2. \A i \in OnTarget : comments[i].target = t /\ comments'[i].target = None
      BY <1>1, <1>2, <2>2 DEF Comment
    <3>3. \A i \in DOMAIN comments \ OnTarget : comments[i].target # t /\ comments'[i] = comments[i]
      BY <1>1, <2>2
    <3>4. \A i \in DOMAIN comments : i \in Spoken' <=> i \in Spoken /\ comments[i].target # t
      BY <1>2, <1>3, <3>1, <3>2, <3>3 DEF Spoken, TableOf, OnParty
    <3> QED BY <2>0, <3>1, <3>2, <3>3, <3>4
  <2> QED BY <1>1, <2>1, <2>2
<1>7. Said' = {x \in Said : x[3] # t}
  BY <1>6, SaidWithout
<1> QED BY <1>2, <1>3, <1>5, <1>7, VanishReacts

LEMMA StepReacts == ASSUME Inv, Inv', LikeInv, [Next]_vars PROVE React!Next \/ UNCHANGED ReactVars
<1>1. CASE UNCHANGED <<content, reactions>>
  BY <1>1 DEF ReactVars, Liked, Said, TableOf, OnParty, content, reactions
<1>2. CASE UNCHANGED vars
  BY <1>1, <1>2 DEF vars, content, reactions
<1>3. CASE Restart
  BY <1>1, <1>3 DEF Restart, Reads
<1>4. CASE Environment
  BY <1>4, NewTargetReacts, SameTargetsReact, DropTargetReacts DEF Environment
<1>5. ASSUME NEW r \in Requests, Step(r) PROVE React!Next \/ UNCHANGED ReactVars
  <2>1. CASE \/ InsertLike(r) \/ DeleteLike(r) \/ InsertComment(r) \/ DeleteComment(r)
             \/ UpdateComment(r)
    BY <2>1, InsertLikeReacts, DeleteLikeReacts, InsertCommentReacts, DeleteCommentReacts,
       UpdateCommentReacts
  <2>2. CASE Reads
    BY <1>1, <2>2 DEF Reads
  <2> QED BY <1>5, <2>1, <2>2 DEF Step, ToggleLike, CreateComment, StartInteraction, StartLike,
     CheckMember, FindHighlight, Look, LookAgain, CheckParent, StartRetract
<1> QED BY <1>2, <1>3, <1>4, <1>5 DEF Next

\* toggleLike, addLike, removeLike and the comment services, on tables without unique keys and
\* with rows read earlier, keep to Reactions: one step changes the reactions of one user to
\* one target, and there are none to what is gone.
THEOREM Refinement == Spec => ImplementsReactions
<1>1. Init => React!Init
  BY DEF Init, React!Init, TableOf
<1>2. Inv /\ Inv' /\ LikeInv /\ [Next]_vars => React!Next \/ UNCHANGED ReactVars
  BY StepReacts
<1>3. Inv /\ Inv' /\ LikeInv /\ [Next]_vars =>
        [React!Next]_<<DOMAIN targets,
                       {<<likes[i].user, likes[i].target>> : i \in {j \in DOMAIN likes : likes[j].target # None}},
                       {<<i, comments[i].user, comments[i].target>> :
                          i \in {j \in TableOf(FALSE) : comments[j].target # None}}>>
  BY <1>2 DEF ReactVars, Liked, Said
<1> QED BY <1>1, <1>3, Invariance, LikeInvariance, PTL DEF Spec, ImplementsReactions, React!Spec
=============================================================================

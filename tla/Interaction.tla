----------------------------- MODULE Interaction -----------------------------
(***************************************************************************)
(* Likes and comments on community posts, highlights and party posts:      *)
(* CommunityInteractionService (toggleLike, comments) and                  *)
(* HighlightLikeService (addLike, removeLike) on the same two tables, and  *)
(* PartyInteractionService (toggleLike) and PartyCommentService on two     *)
(* tables of their own, with other keys.                                   *)
(*                                                                         *)
(* A request looks at the target, at the membership of its caller and at   *)
(* the rows there are in separate statements, then writes.  The targets    *)
(* and the members of the azit change underneath by the steps of           *)
(* Environment, which stands for the other services.                       *)
(***************************************************************************)
EXTENDS Naturals, FiniteSets

CONSTANTS
  Users,
  Requests,   \* concurrent requests in flight
  Targets,    \* bound: ids of posts and highlights
  MaxRow,     \* bound: ids handed out to likes and comments together
  None        \* absent value

ASSUME InteractionAssumption ==
  /\ IsFiniteSet(Requests)
  /\ MaxRow \in Nat
  /\ None \notin Users /\ None \notin Targets /\ None \notin Nat

VARIABLES
  targets,  \* rows of highlights, community_posts and party_posts: a function on the ids that exist
  gone,     \* ids that have been deleted: ids are not used again
  azit,     \* the azit exists (one is enough: no request sees two)
  members,  \* users with a row in the azit
  likes,    \* rows of community_likes and user_post_like: a function on their ids
  comments, \* rows of community_comments and post_comments: a function on their ids
  nextLike, nextComment,
  req       \* local state of every request

vars == <<targets, gone, azit, members, likes, comments, nextLike, nextComment, req>>

LikeId    == 1..MaxRow
CommentId == 1..MaxRow
\* azit: the highlight belongs to the azit.
\* owner: of a highlight; nothing here asks whose a post is.
Target  == [kind: {"highlight", "post", "party"}, owner: Users \union {None}, azit: BOOLEAN, public: BOOLEAN]
Like    == [user: Users, target: Targets \union {None}]
Comment == [user: Users, target: Targets \union {None}, parent: CommentId \union {None},
            edited: BOOLEAN]

Ops == {"idle", "toggle", "add", "remove", "comment", "retract", "revise"}
Pcs == {"idle", "member", "find", "look", "again", "parent", "write"}
Request ==
  [op: Ops, pc: Pcs,
   party: BOOLEAN,                    \* on the tables of the party services
   user: Users \union {None},
   target: Targets \union {None},
   could: BOOLEAN,                    \* history: the user could see the target at some step
   like: LikeId \union {None},        \* the like found
   comment: CommentId \union {None}]  \* the comment to change or delete, or the parent of a new one

Idle == [op |-> "idle", pc |-> "idle", party |-> FALSE, user |-> None, target |-> None,
         could |-> FALSE, like |-> None, comment |-> None]

TypeOK ==
  /\ DOMAIN targets \subseteq Targets /\ gone \subseteq Targets \ DOMAIN targets
  /\ \A t \in DOMAIN targets : targets[t] \in Target
  /\ azit \in BOOLEAN /\ members \subseteq Users
  /\ DOMAIN likes \subseteq LikeId /\ DOMAIN comments \subseteq CommentId
  /\ \A i \in DOMAIN likes : likes[i] \in Like
  /\ \A i \in DOMAIN comments : comments[i] \in Comment
  /\ nextLike \in 1..MaxRow + 1 /\ nextComment \in 1..MaxRow + 1
  /\ req \in [Requests -> Request]

Init ==
  /\ targets = [t \in {} |-> None] /\ gone = {}
  /\ azit = TRUE /\ members = {}
  /\ likes = [i \in {} |-> None] /\ comments = [i \in {} |-> None]
  /\ nextLike = 1 /\ nextComment = 1
  /\ req = [r \in Requests |-> Idle]
-----------------------------------------------------------------------------
\* checkHighlightAccess: whom the page of a highlight is shown to; a post is shown to everybody.
MaySee(u, t) ==
  \/ targets[t].kind # "highlight" \/ targets[t].public
  \/ targets[t].owner = u
  \/ targets[t].azit /\ u \in members

Sees(q) == q.target \in DOMAIN targets /\ MaySee(q.user, q.target)

Become(r, q) == req' = [req EXCEPT ![r] = IF Sees(q) THEN [q EXCEPT !.could = TRUE] ELSE q]
Goto(r, pc)  == Become(r, [req[r] EXCEPT !.pc = pc])
Return(r)    == req' = [req EXCEPT ![r] = Idle]
Begin(r, q)  == req[r] = Idle /\ Become(r, q)

content   == <<targets, gone, azit, members>>
reactions == <<likes, comments, nextLike, nextComment>>
Reads     == UNCHANGED <<content, reactions>>

IdsLeft   == nextLike + nextComment < MaxRow + 2

\* The comments of one of the two tables.  A comment on a party never outlives it.
OnParty(i)     == comments[i].target # None /\ targets[comments[i].target].kind = "party"
TableOf(party) == {i \in DOMAIN comments : OnParty(i) = party}

LikesOf(u, t) == {i \in DOMAIN likes : likes[i].user = u /\ likes[i].target = t}

\* validateTargetResource: a private highlight is for the members of its azit, or for its
\* owner when it belongs to none.  Membership is looked up in a later statement.  Posts are
\* open to everybody (validateParty only asks whether the party exists).
NeedsMember(t)      == targets[t].kind = "highlight" /\ ~ targets[t].public /\ targets[t].azit
OpenTo(u, t)        == \/ targets[t].kind # "highlight" \/ targets[t].public
                       \/ ~ targets[t].azit /\ targets[t].owner = u
-----------------------------------------------------------------------------
(* toggleLike and createComment: the target, then the membership.          *)

StartInteraction(r, op, next) ==
  /\ \E u \in Users, t \in DOMAIN targets, c \in IF op = "comment" THEN CommentId \union {None} ELSE {None} :
       LET q == [Idle EXCEPT !.op = op, !.party = targets[t].kind = "party",
                             !.user = u, !.target = t, !.comment = c] IN
       \/ NeedsMember(t) /\ Begin(r, [q EXCEPT !.pc = "member"])
       \/ OpenTo(u, t) /\ Begin(r, [q EXCEPT !.pc = next])
  /\ Reads

ToggleLike(r)    == StartInteraction(r, "toggle", "look")
CreateComment(r) == StartInteraction(r, "comment", "parent")

\* Mutant of CheckMember: the caller is taken to be a member.
CheckMemberNever(r) ==
  /\ req[r].pc = "member"
  /\ Goto(r, IF req[r].op = "toggle" THEN "look" ELSE "parent")
  /\ Reads

CheckMember(r) ==
  /\ req[r].pc = "member"
  /\ IF req[r].user \notin members THEN Return(r)
     ELSE Goto(r, IF req[r].op = "toggle" THEN "look" ELSE "parent")
  /\ Reads

\* addLike and removeLike of a highlight of the azit: the membership, the highlight, the
\* like, the membership again.
StartLike(r) ==
  /\ \E u \in members, t \in Targets, op \in {"add", "remove"} :
       Begin(r, [Idle EXCEPT !.op = op, !.pc = "find", !.user = u, !.target = t])
  /\ Reads

FindHighlight(r) ==
  LET t == req[r].target IN
  /\ req[r].pc = "find"
  /\ IF t \in DOMAIN targets /\ targets[t].kind = "highlight" /\ targets[t].azit
       THEN Goto(r, "look") ELSE Return(r)
  /\ Reads

\* Mutant of MayAdd: a second like is not refused.
MayAddAlways(found) == TRUE

\* validateNotAlreadyLiked.
MayAdd(found) == found = {}

\* findLike: any of the rows of the user, there is no ORDER BY.
Look(r) ==
  LET q == req[r]
      Found == LikesOf(q.user, q.target) IN
  /\ q.pc = "look"
  /\ CASE q.op = "toggle" ->
            IF Found = {} THEN Goto(r, "write")
            ELSE \E i \in Found : Become(r, [q EXCEPT !.like = i, !.pc = "write"])
       [] q.op = "add"    -> IF MayAdd(Found) THEN Goto(r, "again") ELSE Return(r)
       [] q.op = "remove" -> IF Found # {} THEN Goto(r, "again") ELSE Return(r)
  /\ Reads

LookAgain(r) ==
  /\ req[r].pc = "again"
  /\ IF req[r].user \in members THEN Goto(r, "write") ELSE Return(r)
  /\ Reads

\* createLike, createHighlightLike: community_likes has no unique key, user_post_like has
\* one; the foreign key refuses a target that has gone.
Inserting(q) == q.pc = "write" /\ (q.op = "add" \/ (q.op = "toggle" /\ q.like = None))

InsertLike(r) ==
  LET q == req[r] IN
  /\ Inserting(q)
  /\ IdsLeft
  /\ likes' = IF \/ q.target \notin DOMAIN targets
                \/ (q.party /\ LikesOf(q.user, q.target) # {})
              THEN likes
              ELSE [i \in DOMAIN likes \union {nextLike} |->
                      IF i = nextLike THEN [user |-> q.user, target |-> q.target] ELSE likes[i]]
  /\ nextLike' = nextLike + 1
  /\ Return(r)
  /\ UNCHANGED <<content, comments, nextComment>>

\* Mutant of Unliked: every like of the target.
UnlikedByAll(q) == {i \in DOMAIN likes : likes[i].target = q.target}

\* deleteLike of the community deletes the row found, and fails when it has gone;
\* deleteHighlightLike deletes every row of the user, deleteLike of a party the one there is.
Unliked(q) == IF q.op = "toggle" /\ ~ q.party THEN {q.like} ELSE LikesOf(q.user, q.target)

DeleteLike(r) ==
  LET q == req[r] IN
  /\ q.pc = "write"
  /\ q.op = "remove" \/ (q.op = "toggle" /\ q.like # None)
  /\ likes' = [i \in DOMAIN likes \ Unliked(q) |-> likes[i]]
  /\ Return(r)
  /\ UNCHANGED <<content, comments, nextLike, nextComment>>
-----------------------------------------------------------------------------
\* validateParentComment, validateCommentOwnership: the parent exists; whether it is on the
\* same target is not asked.
CheckParent(r) ==
  /\ req[r].pc = "parent"
  /\ IF req[r].comment \in TableOf(req[r].party) \union {None} THEN Goto(r, "write") ELSE Return(r)
  /\ Reads

\* Foreign keys to the target and to the parent.
InsertComment(r) ==
  LET q == req[r] IN
  /\ q.op = "comment" /\ q.pc = "write"
  /\ IdsLeft
  /\ comments' =
       IF q.target \notin DOMAIN targets \/ q.comment \notin TableOf(q.party) \union {None}
       THEN comments
       ELSE [i \in DOMAIN comments \union {nextComment} |->
               IF i = nextComment
               THEN [user |-> q.user, target |-> q.target, parent |-> q.comment,
                     edited |-> FALSE] ELSE comments[i]]
  /\ nextComment' = nextComment + 1
  /\ Return(r)
  /\ UNCHANGED <<content, likes, nextLike>>

\* Replies on a party go with their parent (cascade): the comments in every set that holds
\* `ids` and the replies to its members.
WithReplies(ids) ==
  {i \in DOMAIN comments : \A S \in SUBSET CommentId :
     /\ ids \subseteq S
     /\ \A j \in TableOf(TRUE) : comments[j].parent \in S => j \in S
     => i \in S}

\* Deleting comments; replies in the community stay and lose their parent (set null).
CommentsWithout(ids) ==
  [i \in DOMAIN comments \ WithReplies(ids) |->
     IF comments[i].parent \in ids THEN [comments[i] EXCEPT !.parent = None] ELSE comments[i]]

\* Mutant of MayRetract: the caller is not compared with the author.
MayRetractAny(u, c) == TRUE

\* validateCommentOwner, validateCommentOwnership.
MayRetract(u, c) == comments[c].user = u

StartRetract(r) ==
  /\ \E u \in Users, c \in DOMAIN comments, op \in {"retract", "revise"} :
       /\ MayRetract(u, c)
       /\ Begin(r, [Idle EXCEPT !.op = op, !.pc = "write", !.user = u, !.comment = c])
  /\ Reads

DeleteComment(r) ==
  /\ req[r].op = "retract"
  /\ comments' = CommentsWithout({req[r].comment})
  /\ Return(r)
  /\ UNCHANGED <<content, likes, nextLike, nextComment>>

\* updateComment, which fails when the comment has gone.
UpdateComment(r) ==
  LET c == req[r].comment IN
  /\ req[r].op = "revise"
  /\ comments' = IF c \in DOMAIN comments THEN [comments EXCEPT ![c].edited = TRUE] ELSE comments
  /\ Return(r)
  /\ UNCHANGED <<content, likes, nextLike, nextComment>>

\* The process dies: requests in flight write nothing.
Restart ==
  /\ \E r \in Requests : req[r] # Idle
  /\ req' = [r \in Requests |-> Idle]
  /\ Reads
-----------------------------------------------------------------------------
(* The other services.                                                     *)

NewTarget ==
  /\ \E t \in Targets \ (DOMAIN targets \union gone), x \in Target :
       /\ x.azit => azit
       /\ IF x.kind = "highlight" THEN x.owner # None
          ELSE x.owner = None /\ ~ x.azit /\ x.public
       /\ targets' = [s \in DOMAIN targets \union {t} |-> IF s = t THEN x ELSE targets[s]]
  /\ UNCHANGED <<gone, azit, members, reactions, req>>

\* A highlight is published, or hidden again.
Publish ==
  /\ \E t \in DOMAIN targets :
       /\ targets[t].kind = "highlight"
       /\ targets' = [targets EXCEPT ![t].public = ~ @]
  /\ UNCHANGED <<gone, azit, members, reactions, req>>

\* The likes and comments of a post or party go with it (cascade); those of a highlight stay
\* without a target (set null).
DropTarget ==
  /\ \E t \in DOMAIN targets :
       LET OnTarget == {i \in DOMAIN comments : comments[i].target = t} IN
       /\ targets' = [s \in DOMAIN targets \ {t} |-> targets[s]]
       /\ gone' = gone \union {t}
       /\ IF targets[t].kind # "highlight"
            THEN /\ likes' = [i \in {j \in DOMAIN likes : likes[j].target # t} |-> likes[i]]
                 /\ comments' = CommentsWithout(OnTarget)
            ELSE /\ likes' = [i \in DOMAIN likes |->
                       IF likes[i].target = t THEN [likes[i] EXCEPT !.target = None] ELSE likes[i]]
                 /\ comments' = [i \in DOMAIN comments |->
                       IF i \in OnTarget THEN [comments[i] EXCEPT !.target = None] ELSE comments[i]]
  /\ UNCHANGED <<azit, members, nextLike, nextComment, req>>

\* Members of the azit come and go, which matters while it has a highlight; when the azit is
\* deleted its highlights stay.
MembersChange ==
  /\ \E t \in DOMAIN targets : targets[t].azit
  /\ \E u \in Users : members' = members \union {u} \/ members' = members \ {u}
  /\ UNCHANGED <<targets, gone, azit, reactions, req>>

AzitDeleted ==
  /\ azit' = FALSE /\ members' = {}
  /\ targets' = [t \in DOMAIN targets |-> [targets[t] EXCEPT !.azit = FALSE]]
  /\ UNCHANGED <<gone, reactions, req>>

Environment == NewTarget \/ Publish \/ DropTarget \/ MembersChange \/ AzitDeleted

Step(r) ==
  \/ ToggleLike(r) \/ StartLike(r) \/ CheckMember(r) \/ FindHighlight(r)
  \/ Look(r) \/ LookAgain(r) \/ InsertLike(r) \/ DeleteLike(r)
  \/ CreateComment(r) \/ CheckParent(r) \/ InsertComment(r)
  \/ StartRetract(r) \/ DeleteComment(r) \/ UpdateComment(r)

Next == Environment \/ Restart \/ \E r \in Requests : Step(r)
Spec == Init /\ [][Next]_vars
-----------------------------------------------------------------------------
\* Requests that found no like and are on their way to insert one.
AboutToLike(u, t) ==
  {r \in Requests : /\ req[r].user = u /\ req[r].target = t
                    /\ Inserting(req[r]) \/ (req[r].op = "add" /\ req[r].pc = "again")}

\* A double tap, or a tap in the azit and one in the community, may insert a like twice:
\* never more rows for a user and a target than there are requests in flight at once.  A
\* party is liked once at most.
LikesBounded ==
  \A u \in Users, t \in Targets :
    /\ Cardinality(LikesOf(u, t)) + Cardinality(AboutToLike(u, t)) <= Cardinality(Requests)
    /\ t \in DOMAIN targets /\ targets[t].kind = "party" => Cardinality(LikesOf(u, t)) <= 1

\* To a user the rows are a set of likes and a set of comments, whichever service writes
\* them (comments on parties are left out, replies go with them): a request changes the reactions of one user to one target only.
React == INSTANCE Reactions WITH
  Comments <- CommentId,
  live  <- DOMAIN targets,
  liked <- {<<likes[i].user, likes[i].target>> : i \in {j \in DOMAIN likes : likes[j].target # None}},
  said  <- {<<i, comments[i].user, comments[i].target>> :
              i \in {j \in TableOf(FALSE) : comments[j].target # None}}
ImplementsReactions == React!Spec

\* The community, the azit and the page of a highlight decide access each for itself, from rows
\* that were read at different moments while members, visibility and azit change: who likes or
\* comments could have seen the page at some step of the very request.
ReactorsCouldSee ==
  \A r \in Requests :
    req[r].pc = "write" /\ req[r].op \in {"toggle", "add", "comment"}
      /\ req[r].target \in DOMAIN targets
      => req[r].could

\* A comment disappears or changes at the hands of its author, although the author is
\* compared an await earlier; else it goes with its post, or, on a party, with the comment
\* it replies to.
CommentsByAuthor ==
  [][\A i \in DOMAIN comments :
       \/ i \in DOMAIN comments' /\ comments'[i].user = comments[i].user
                                  /\ comments'[i].edited = comments[i].edited
       \/ comments[i].target \in gone' \ gone
       \/ /\ OnParty(i) /\ comments[i].parent \in DOMAIN comments
          /\ comments[i].parent \notin DOMAIN comments'
       \/ \E r \in Requests : /\ req[r].op \in {"retract", "revise"} /\ req[r].comment = i
                              /\ req[r].user = comments[i].user]_vars
=============================================================================

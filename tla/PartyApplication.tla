-------------------------- MODULE PartyApplication --------------------------
(***************************************************************************)
(* Party posts and the applications to them: PartyService (create, update, *)
(* delete) and PartyInteractionService (apply, handle, cancel).            *)
(*                                                                         *)
(* Requests interleave at every awaited statement, as in AzitMembership.   *)
(* The first statement of a request only reads, so it is part of the       *)
(* action that starts the request; a request that returns there has no     *)
(* effect and does not appear.  azits and azit_user change underneath by   *)
(* the steps of MemberTable, and two steps here change them as well: an    *)
(* accepted applicant becomes a member, and the last post of an azit takes *)
(* the azit along.                                                         *)
(***************************************************************************)
EXTENDS MemberTable

CONSTANTS
  Requests,   \* concurrent requests in flight
  MaxPost,    \* bound: party_posts ids handed out
  MaxApp,     \* bound: applications ids handed out
  MaxRestart, \* bound: restarts of the process
  None        \* absent value

ASSUME PartyAssumption ==
  /\ MaxPost \in Nat /\ MaxApp \in Nat /\ MaxRestart \in Nat
  /\ None \notin Users /\ None \notin Nat

VARIABLES
  posts,        \* rows of party_posts: a function on the ids that exist
  applications, \* rows of applications
  nextPost,     \* AUTO_INCREMENT counter of party_posts
  nextApp,      \* AUTO_INCREMENT counter of applications
  admitted,     \* ghost: applications whose acceptance found or made the member row
  restarts,     \* ghost: how often the process died
  req           \* local state of every request

partyTables == <<posts, applications, nextPost, nextApp, admitted>>
vars        == <<tableVars, partyTables, restarts, req>>

PostId      == 1..MaxPost
AppId       == 1..MaxApp
Post        == [owner: Users, azit: AzitId]
Application == [id: AppId, user: Users, post: PostId, accepted: BOOLEAN]

Ops == {"idle", "apply", "handle", "cancel", "create", "update", "delete"}
Pcs == {"idle", "duplicate", "insert", "status", "existing", "member",
        "azit", "write", "snapshot", "commit"}
Request ==
  [op: Ops, pc: Pcs,
   user: Users \union {None},    \* the caller; the applicant once it is accepted
   post: PostId \union {None},
   app: AppId \union {None},
   azit: AzitId \union {None},   \* dto.azitId, or the azit read with the post
   accept: BOOLEAN,              \* body.isAccepted
   others: SUBSET PostId]        \* other posts of the azit in the transaction's snapshot

Idle == [op |-> "idle", pc |-> "idle", user |-> None, post |-> None, app |-> None,
         azit |-> None, accept |-> FALSE, others |-> {}]

\* Types, and the foreign keys applications.post_id and party_posts.azit_id.
TypeOK ==
  /\ TableTypeOK
  /\ DOMAIN posts \subseteq PostId
  /\ \A p \in DOMAIN posts : posts[p] \in Post /\ posts[p].azit \in azits
  /\ applications \subseteq Application
  /\ \A a \in applications : a.post \in DOMAIN posts
  /\ nextPost \in 1..MaxPost + 1
  /\ nextApp \in 1..MaxApp + 1
  /\ admitted \subseteq AppId
  /\ restarts \in 0..MaxRestart
  /\ req \in [Requests -> Request]

Init ==
  /\ TableInit
  /\ posts = [p \in {} |-> None]
  /\ applications = {}
  /\ nextPost = 1 /\ nextApp = 1
  /\ admitted = {}
  /\ restarts = 0
  /\ req = [r \in Requests |-> Idle]
-----------------------------------------------------------------------------
At(r, op, pc) == req[r].op = op /\ req[r].pc = pc
Become(r, q)  == req' = [req EXCEPT ![r] = q]
Goto(r, pc)   == Become(r, [req[r] EXCEPT !.pc = pc])
Return(r)     == Become(r, Idle)
Begin(r, q)   == req[r].pc = "idle" /\ Become(r, q)

Reads == UNCHANGED <<tableVars, partyTables, restarts>>

RowsOf(u, a)     == {m \in azitUser : m.user = u /\ m.azit = a}
AppRow(id)       == {a \in applications : a.id = id}
PostsOf(a)       == {p \in DOMAIN posts : posts[p].azit = a}
SetPost(id, row) == posts' = [p \in DOMAIN posts \union {id} |-> IF p = id THEN row ELSE posts[p]]
-----------------------------------------------------------------------------
(* POST /parties/{id}/applications: applyParty.  Its first statement finds  *)
(* the post and refuses the owner.                                          *)

StartApply(r) ==
  /\ \E u \in Users, p \in DOMAIN posts :
       /\ posts[p].owner # u
       /\ Begin(r, [Idle EXCEPT !.op = "apply", !.pc = "duplicate", !.user = u, !.post = p])
  /\ Reads

\* Mutant of Applied: the lookup is missing.
AppliedNever(q) == FALSE

\* findApplication: whatever its status, one application is enough.
Applied(q) == \E a \in applications : a.user = q.user /\ a.post = q.post

ApplyCheckDuplicate(r) ==
  /\ At(r, "apply", "duplicate")
  /\ IF Applied(req[r]) THEN Return(r) ELSE Goto(r, "insert")
  /\ Reads

\* createApplication: the foreign key refuses a post that is gone.
ApplyInsert(r) ==
  LET q == req[r] IN
  /\ At(r, "apply", "insert")
  /\ \/ /\ q.post \in DOMAIN posts
        /\ nextApp <= MaxApp
        /\ applications' = applications \union
             {[id |-> nextApp, user |-> q.user, post |-> q.post, accepted |-> FALSE]}
        /\ nextApp' = nextApp + 1
     \/ /\ q.post \notin DOMAIN posts
        /\ UNCHANGED <<applications, nextApp>>
  /\ Return(r)
  /\ UNCHANGED <<tableVars, posts, nextPost, admitted, restarts>>
-----------------------------------------------------------------------------
(* PATCH /parties/applications/{id}: handleApplication.  Its first statement *)
(* reads the application together with its post.                             *)

\* Mutants of MayHandle: the owner, or the status, is not compared.
MayHandleAnyone(u, a) == ~a.accepted
MayHandleAgain(u, a)  == posts[a.post].owner = u

MayHandle(u, a) == ~a.accepted /\ posts[a.post].owner = u

StartHandle(r) ==
  /\ \E u \in Users, a \in applications, accept \in BOOLEAN :
       /\ MayHandle(u, a)
       /\ Begin(r, [Idle EXCEPT !.op = "handle", !.pc = "status", !.user = u, !.app = a.id,
                                !.post = a.post, !.azit = posts[a.post].azit, !.accept = accept])
  /\ Reads

\* updateApplicationStatus, by id: an exception when the application is gone.
\* From here on the request works for the applicant.
HandleStatus(r) ==
  LET q == req[r] IN
  /\ At(r, "handle", "status")
  /\ applications' = {IF a.id = q.app THEN [a EXCEPT !.accepted = q.accept] ELSE a :
                        a \in applications}
  /\ \/ q.accept /\ \E a \in AppRow(q.app) :
                      Become(r, [q EXCEPT !.user = a.user, !.pc = "existing"])
     \/ (~q.accept \/ AppRow(q.app) = {}) /\ Return(r)
  /\ UNCHANGED <<tableVars, posts, nextPost, nextApp, admitted, restarts>>

\* Mutants of IsMember: the lookup is missing; the azit is not compared.
IsMemberNever(q)    == FALSE
IsMemberAnywhere(q) == \E m \in azitUser : m.user = q.user

IsMember(q) == RowsOf(q.user, q.azit) # {}

HandleFindMember(r) ==
  LET q == req[r] IN
  /\ At(r, "handle", "existing")
  /\ IF IsMember(q) THEN Return(r) ELSE Goto(r, "member")
  /\ admitted' = IF RowsOf(q.user, q.azit) # {} THEN admitted \union {q.app} ELSE admitted
  /\ UNCHANGED <<tableVars, posts, applications, nextPost, nextApp, restarts>>

\* createAzitUser: the foreign key refuses an azit that is gone.
HandleAdmit(r) ==
  LET q == req[r] IN
  /\ At(r, "handle", "member")
  /\ \/ /\ q.azit \in azits
        /\ nextMember <= MaxMember
        /\ azitUser' = azitUser \union {NewMember(q.user, q.azit, "MEMBER")}
        /\ nextMember' = nextMember + 1
        /\ admitted' = admitted \union {q.app}
     \/ /\ q.azit \notin azits
        /\ UNCHANGED <<azitUser, nextMember, admitted>>
  /\ Return(r)
  /\ UNCHANGED <<azits, nextAzit, posts, applications, nextPost, nextApp, restarts>>
-----------------------------------------------------------------------------
(* DELETE /parties/applications/{id}: cancelApplication, by the applicant.  *)

MayCancel(u, a) == a.user = u

StartCancel(r) ==
  /\ \E u \in Users, a \in applications :
       /\ MayCancel(u, a)
       /\ Begin(r, [Idle EXCEPT !.op = "cancel", !.pc = "write", !.user = u, !.app = a.id])
  /\ Reads

CancelDelete(r) ==
  /\ At(r, "cancel", "write")
  /\ applications' = applications \ AppRow(req[r].app)
  /\ Return(r)
  /\ UNCHANGED <<tableVars, posts, nextPost, nextApp, admitted, restarts>>
-----------------------------------------------------------------------------
(* POST /parties and PATCH /parties/{id}: createParty and updateParty.  Any  *)
(* user may post for any azit.  Only the azit and the owner of a post matter *)
(* here: an update that does not move the post changes neither.              *)

StartCreate(r) ==
  /\ \E u \in Users, a \in azits :
       Begin(r, [Idle EXCEPT !.op = "create", !.pc = "write", !.user = u, !.azit = a])
  /\ Reads

\* Mutant of CreatePost: the post is connected to no azit that is checked to exist.
CreatePostUnchecked(r) ==
  /\ At(r, "create", "write")
  /\ nextPost <= MaxPost
  /\ SetPost(nextPost, [owner |-> req[r].user, azit |-> req[r].azit])
  /\ nextPost' = nextPost + 1
  /\ Return(r)
  /\ UNCHANGED <<tableVars, applications, nextApp, admitted, restarts>>

CreatePost(r) ==
  LET q == req[r] IN
  /\ At(r, "create", "write")
  /\ \/ /\ q.azit \in azits
        /\ nextPost <= MaxPost
        /\ SetPost(nextPost, [owner |-> q.user, azit |-> q.azit])
        /\ nextPost' = nextPost + 1
     \/ /\ q.azit \notin azits
        /\ UNCHANGED <<posts, nextPost>>
  /\ Return(r)
  /\ UNCHANGED <<tableVars, applications, nextApp, admitted, restarts>>

StartUpdate(r) ==
  /\ \E p \in DOMAIN posts, a \in AzitId :
       Begin(r, [Idle EXCEPT !.op = "update", !.pc = "azit", !.user = posts[p].owner,
                             !.post = p, !.azit = a])
  /\ Reads

UpdateFindAzit(r) ==
  /\ At(r, "update", "azit")
  /\ IF req[r].azit \in azits THEN Goto(r, "write") ELSE Return(r)
  /\ Reads

\* An exception when the post or the azit is gone.
UpdatePost(r) ==
  LET q == req[r] IN
  /\ At(r, "update", "write")
  /\ IF q.post \in DOMAIN posts /\ q.azit \in azits
     THEN SetPost(q.post, [posts[q.post] EXCEPT !.azit = q.azit])
     ELSE UNCHANGED posts
  /\ Return(r)
  /\ UNCHANGED <<tableVars, applications, nextPost, nextApp, admitted, restarts>>
-----------------------------------------------------------------------------
(* DELETE /parties/{id}: deleteParty.  The post is read first; then one      *)
(* transaction deletes it, counts the posts its azit has left and, when      *)
(* there are none, deletes the azit.  InnoDB's REPEATABLE READ counts in the *)
(* snapshot of the transaction's first read, and constraints are checked     *)
(* against the rows at the time of the statement.                            *)

StartDelete(r) ==
  /\ \E p \in DOMAIN posts :
       Begin(r, [Idle EXCEPT !.op = "delete", !.pc = "snapshot", !.user = posts[p].owner,
                             !.post = p, !.azit = posts[p].azit])
  /\ Reads

\* Mutant of Others: the posts are counted before the deletion.
OthersAndItself(q) == PostsOf(q.azit)

Others(q) == PostsOf(q.azit) \ {q.post}

DeleteSnapshot(r) ==
  LET q == req[r] IN
  /\ At(r, "delete", "snapshot")
  /\ Become(r, [q EXCEPT !.others = Others(q), !.pc = "commit"])
  /\ Reads

\* The post goes with its applications (deleteMany, and ON DELETE CASCADE for a row
\* inserted meanwhile).
ErasePost(p) ==
  /\ posts' = [o \in DOMAIN posts \ {p} |-> posts[o]]
  /\ applications' = {a \in applications : a.post # p}

\* Rolled back when the post is gone, or when the azit, to be deleted, is gone or
\* referred to by another post by now.
DeleteCommit(r) ==
  LET q == req[r]
      Last == q.others = {}
      Fails == \/ q.post \notin DOMAIN posts
               \/ Last /\ (q.azit \notin azits \/ PostsOf(q.azit) \ {q.post} # {}) IN
  /\ At(r, "delete", "commit")
  /\ \/ Fails /\ UNCHANGED <<tableVars, posts, applications>>
     \/ ~Fails /\ ErasePost(q.post) /\ Last /\ DeleteAzit(q.azit)
     \/ ~Fails /\ ErasePost(q.post) /\ ~Last /\ UNCHANGED tableVars
  /\ Return(r)
  /\ UNCHANGED <<nextPost, nextApp, admitted, restarts>>
-----------------------------------------------------------------------------
(* The rest of the system. *)

\* Azits and members come and go; an azit with posts stays (ON DELETE RESTRICT).
MembersChange ==
  /\ TableNext
  /\ \A p \in DOMAIN posts : posts[p].azit \in azits'
  /\ UNCHANGED <<partyTables, restarts, req>>

\* The process dies and is started again: requests vanish, rows stay.
Restart ==
  /\ restarts < MaxRestart
  /\ restarts' = restarts + 1
  /\ req' = [r \in Requests |-> Idle]
  /\ UNCHANGED <<tableVars, partyTables>>

Step(r) ==
  \/ StartApply(r) \/ ApplyCheckDuplicate(r) \/ ApplyInsert(r)
  \/ StartHandle(r) \/ HandleStatus(r) \/ HandleFindMember(r) \/ HandleAdmit(r)
  \/ StartCancel(r) \/ CancelDelete(r)
  \/ StartCreate(r) \/ CreatePost(r)
  \/ StartUpdate(r) \/ UpdateFindAzit(r) \/ UpdatePost(r)
  \/ StartDelete(r) \/ DeleteSnapshot(r) \/ DeleteCommit(r)

Next == (\E r \in Requests : Step(r)) \/ MembersChange \/ Restart

Spec == Init /\ [][Next]_vars
-----------------------------------------------------------------------------
(* Properties. *)

\* Accepting an applicant and deleting the last post of an azit keep the promises of
\* the abstract tables, whatever happened since the request read what it uses: no
\* second row for a host, no member of an azit that is gone.
ImplementsTable == TableSpec

\* An application becomes accepted only at the hands of the owner of its post, and
\* disappears only by its applicant or together with its post, although caller and
\* row were compared in an earlier statement than the write.
Accepting(a)  == \E r \in Requests : /\ At(r, "handle", "status")
                                     /\ req[r].app = a.id
                                     /\ req[r].accept
                                     /\ req[r].user = posts[a.post].owner
Cancelling(a) == \E r \in Requests : /\ At(r, "cancel", "write")
                                     /\ req[r].app = a.id
                                     /\ req[r].user = a.user

ApplicationsAuthorized ==
  [][\A a \in applications :
       \/ \E b \in applications' : b.id = a.id /\ (b.accepted /\ ~a.accepted => Accepting(a))
       \/ a.post \notin DOMAIN posts'
       \/ Cancelling(a)]_vars

\* applyParty, "duplicate application check": one application per user and post, as
\* long as requests do not overlap.
OneApplication ==
  \A a, b \in applications : a.user = b.user /\ a.post = b.post => a = b

\* handleApplication, "already accepted": acceptance is never taken back, as long as
\* requests do not overlap.
KeepsAccepted ==
  \A a \in applications, b \in applications' : a.id = b.id /\ a.accepted => b.accepted

\* handleApplication, "add the applicant as a member of the azit": the applicant of an
\* accepted application has been found or made a member, unless a request is about to
\* do so.  An accepted application cannot be handled again, so nothing else ever will.
AcceptedAdmitted ==
  \A a \in applications :
    a.accepted => \/ a.id \in admitted
                  \/ \E r \in Requests : req[r].op = "handle" /\ req[r].app = a.id

\* deleteParty, "delete the party and tidy up the azit": the azit of a deleted post
\* goes with it exactly if it was the last one.
AzitGoesWithPost ==
  \A p \in DOMAIN posts \ DOMAIN posts' :
    (posts[p].azit \notin azits') <=> (\A o \in DOMAIN posts' : posts'[o].azit # posts[p].azit)
=============================================================================

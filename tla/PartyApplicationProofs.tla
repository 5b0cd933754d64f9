----------------------- MODULE PartyApplicationProofs -----------------------
(***************************************************************************)
(* Party posts and applications implement MemberTable, and applications    *)
(* are accepted and removed only by those entitled, for any number of      *)
(* users, requests, posts, applications, azits and restarts.               *)
(*                                                                         *)
(* As in AzitMembershipProofs every step is a step of MemberTable or       *)
(* nothing, together with a move to a sound local state.  The tables of    *)
(* this module keep what requests rely on: rows get fresh ids and keep     *)
(* their owner, applicant and post (RowsKept).                             *)
(*                                                                         *)
(* With one request at a time what it has read of posts and applications   *)
(* is still so when it writes (Current): applying, accepting and deleting  *)
(* a post then do what their comments promise.                             *)
(***************************************************************************)
EXTENDS PartyApplication, TLAPS

Handles(q) == q.op = "handle"

\* The azit of the post was read from a row: its id will not be handed out again.
AzitSeen(q) == Handles(q) => q.azit \in AzitId /\ q.azit < nextAzit

\* A request about to admit an applicant does not give a host a second row.
ApplicantNotHost(q) ==
  Handles(q) => /\ q.pc \in {"status", "existing", "member"}
                /\ q.user \in Users
                /\ q.app \in AppId
                /\ q.pc = "member" => \A h \in azitUser : Hosts(h, q.azit) => h.user # q.user

\* The application to be handled, if it is still there, is one for a post of the caller.
OwnerHandles(q) ==
  Handles(q) /\ q.pc = "status" =>
    /\ q.app < nextApp
    /\ \A a \in applications : a.id = q.app => posts[a.post].owner = q.user

\* The application to be cancelled, if it is still there, is the caller's.
ApplicantCancels(q) ==
  q.op = "cancel" => /\ q.app \in AppId /\ q.app < nextApp
                     /\ \A a \in applications : a.id = q.app => a.user = q.user

\* What other requests carry into the rows they write.
Inputs(q) ==
  /\ q.op \in {"apply", "create"} => q.user \in Users
  /\ q.op = "apply" => q.post \in PostId

SoundRequest(q) ==
  /\ AzitSeen(q) /\ ApplicantNotHost(q) /\ OwnerHandles(q) /\ ApplicantCancels(q) /\ Inputs(q)

\* Types, keys and foreign keys of the party tables; their ids are fresh.
DataOK ==
  /\ DOMAIN posts \subseteq PostId
  /\ \A p \in DOMAIN posts : posts[p] \in Post /\ posts[p].azit \in azits /\ p < nextPost
  /\ applications \subseteq Application
  /\ \A a \in applications : a.post \in DOMAIN posts /\ a.id < nextApp
  /\ \A a, b \in applications : a.id = b.id => a = b
  /\ nextPost \in 1..MaxPost + 1
  /\ nextApp \in 1..MaxApp + 1
  /\ admitted \subseteq AppId
  /\ restarts \in 0..MaxRestart

Inv ==
  /\ TableInv
  /\ DataOK
  /\ req \in [Requests -> Request]
  /\ \A r \in Requests : SoundRequest(req[r])

\* What every step does to the rows of the party tables.
RowsKept ==
  /\ nextApp' \in Nat /\ nextApp' >= nextApp
  /\ \A b \in applications' : b.id < nextApp =>
       \E a \in applications : a.id = b.id /\ a.user = b.user /\ a.post = b.post
  /\ \A p \in DOMAIN posts \intersect DOMAIN posts' : posts'[p].owner = posts[p].owner
-----------------------------------------------------------------------------
\* The invariant of MemberTable, which every step of the other services keeps (the
\* same argument as in AzitMembershipProofs).
LEMMA TableInitInv == TableInit => TableInv
BY MemberTableAssumption
   DEF TableInit, TableInv, TableTypeOK, IdsFresh, MembersReferToAzits, OneHost, HostHasOneRow

LEMMA TableNextInv == TableInv /\ [TableNext]_tableVars => TableInv'
<1> SUFFICES ASSUME TableInv, [TableNext]_tableVars PROVE TableInv'
  OBVIOUS
<1> USE MemberTableAssumption
<1> USE DEF TableInv, TableTypeOK, IdsFresh, MembersReferToAzits, OneHost, HostHasOneRow,
            Member, AzitId, MemberId, Role, Hosts
<1>1. ASSUME NEW u \in Users, CreateAzit(u) PROVE TableInv'
  <2> DEFINE new == NewMember(u, nextAzit, "HOST")
  <2>1. azitUser' = azitUser \union {new} /\ azits' = azits \union {nextAzit}
    BY <1>1 DEF CreateAzit
  <2>2. new \in Member /\ Hosts(new, nextAzit) /\ new.id = nextMember
    BY <1>1 DEF CreateAzit, NewMember
  <2>3. (TableTypeOK /\ IdsFresh /\ MembersReferToAzits)'
    BY <1>1, <2>1, <2>2 DEF CreateAzit
  <2>4. OneHost'
    BY <2>1, <2>2
  <2>5. HostHasOneRow'
    BY <2>1, <2>2
  <2> QED BY <2>3, <2>4, <2>5
<1>2. ASSUME NEW u \in Users, NEW a \in azits, AddMember(u, a) PROVE TableInv'
  <2> DEFINE new == NewMember(u, a, "MEMBER")
  <2>1. azitUser' = azitUser \union {new} /\ azits' = azits
    BY <1>2 DEF AddMember
  <2>2. new \in Member /\ new.role = "MEMBER" /\ new.id = nextMember /\ new.user = u /\ new.azit = a
    BY <1>2 DEF AddMember, NewMember
  <2>3. (TableTypeOK /\ IdsFresh /\ MembersReferToAzits)'
    BY <1>2, <2>1, <2>2 DEF AddMember
  <2>4. OneHost'
    BY <2>1, <2>2
  <2>5. HostHasOneRow'
    BY <1>2, <2>1, <2>2 DEF AddMember
  <2> QED BY <2>3, <2>4, <2>5
<1>3. ASSUME NEW m \in azitUser, RemoveMember(m) PROVE TableInv'
  BY <1>3 DEF RemoveMember
<1>4. ASSUME NEW a \in azits, DeleteAzit(a) PROVE TableInv'
  <2>1. (TableTypeOK /\ IdsFresh /\ MembersReferToAzits)'
    BY <1>4 DEF DeleteAzit
  <2>2. (OneHost /\ HostHasOneRow)'
    BY <1>4 DEF DeleteAzit
  <2> QED BY <2>1, <2>2
<1>5. CASE UNCHANGED tableVars
  BY <1>5 DEF tableVars
<1> QED BY <1>1, <1>2, <1>3, <1>4, <1>5 DEF TableNext

LEMMA IdleSound == Idle \in Request /\ SoundRequest(Idle)
BY DEF Idle, Request, Ops, Pcs, SoundRequest, AzitSeen, ApplicantNotHost, OwnerHandles,
       ApplicantCancels, Inputs, Handles

LEMMA InitInv == Init => Inv
<1> SUFFICES ASSUME Init PROVE Inv
  OBVIOUS
<1>1. TableInv
  BY TableInitInv DEF Init
<1>2. \A r \in Requests : req[r] = Idle
  BY DEF Init
<1>3. DataOK
  BY PartyAssumption DEF Init, DataOK
<1>4. req \in [Requests -> Request]
  BY IdleSound DEF Init
<1> QED BY <1>1, <1>2, <1>3, <1>4, IdleSound DEF Inv

\* Nobody else's step makes a sound local state unsound.
LEMMA SoundStable ==
  ASSUME NEW q, SoundRequest(q), TableInv, DataOK, DataOK', [TableNext]_tableVars, RowsKept
  PROVE  SoundRequest(q)'
<1> USE MemberTableAssumption, PartyAssumption
<1>1. Inputs(q)'
  BY DEF SoundRequest, Inputs
<1>2. OwnerHandles(q)'
  <2> SUFFICES ASSUME Handles(q), q.pc = "status"
               PROVE  /\ q.app < nextApp'
                      /\ \A b \in applications' : b.id = q.app => posts'[b.post].owner = q.user
    BY DEF OwnerHandles, Handles
  <2>1. q.app \in AppId /\ q.app < nextApp /\ \A a \in applications : a.id = q.app => posts[a.post].owner = q.user
    BY DEF SoundRequest, OwnerHandles, ApplicantNotHost
  <2>2. q.app < nextApp'
    BY <2>1 DEF RowsKept, DataOK, AppId
  <2>3. ASSUME NEW b \in applications', b.id = q.app PROVE posts'[b.post].owner = q.user
    <3>1. PICK a \in applications : a.id = b.id /\ a.post = b.post
      BY <2>1, <2>3 DEF RowsKept
    <3>2. a.post \in DOMAIN posts /\ b.post \in DOMAIN posts'
      BY DEF DataOK
    <3> QED BY <2>1, <2>3, <3>1, <3>2 DEF RowsKept
  <2> QED BY <2>2, <2>3
<1>3. ApplicantCancels(q)'
  BY DEF SoundRequest, ApplicantCancels, RowsKept, DataOK, AppId
<1>4. (AzitSeen(q) /\ ApplicantNotHost(q))'
  <2>1. CASE UNCHANGED tableVars
    BY <2>1 DEF tableVars, SoundRequest, AzitSeen, ApplicantNotHost
  <2>2. CASE TableNext
    <3> USE DEF SoundRequest, TableInv, TableTypeOK, IdsFresh, AzitId, Hosts, AzitSeen, ApplicantNotHost
    <3>1. ASSUME NEW u \in Users, CreateAzit(u) PROVE (AzitSeen(q) /\ ApplicantNotHost(q))'
      BY <3>1 DEF CreateAzit, NewMember
    <3>2. ASSUME NEW u \in Users, NEW a \in azits, AddMember(u, a)
          PROVE  (AzitSeen(q) /\ ApplicantNotHost(q))'
      BY <3>2 DEF AddMember, NewMember
    <3>3. ASSUME NEW m \in azitUser, RemoveMember(m) PROVE (AzitSeen(q) /\ ApplicantNotHost(q))'
      BY <3>3 DEF RemoveMember
    <3>4. ASSUME NEW a \in azits, DeleteAzit(a) PROVE (AzitSeen(q) /\ ApplicantNotHost(q))'
      BY <3>4 DEF DeleteAzit
    <3> QED BY <2>2, <3>1, <3>2, <3>3, <3>4 DEF TableNext
  <2> QED BY <2>1, <2>2
<1> QED BY <1>1, <1>2, <1>3, <1>4 DEF SoundRequest
-----------------------------------------------------------------------------
(* The local half of every step: a move to a sound local state. *)

Local(r) == \E q \in Request : SoundRequest(q) /\ Become(r, q)

\* What every step of a request r does.
Good(r) == [TableNext]_tableVars /\ DataOK' /\ RowsKept /\ Local(r)

LEMMA ReturnLocal == ASSUME NEW r, Return(r) PROVE Local(r)
BY IdleSound DEF Return, Local

\* A step that only moves the request.
LEMMA ReadsGood == ASSUME NEW r, Inv, Local(r), Reads PROVE Good(r)
<1>1. UNCHANGED <<tableVars, azits, posts, applications, nextPost, nextApp, admitted, restarts>>
  BY DEF Reads, partyTables, tableVars
<1>2. DataOK'
  BY <1>1 DEF Inv, DataOK
<1>3. RowsKept
  BY <1>1, PartyAssumption DEF RowsKept, Inv, DataOK
<1> QED BY <1>1, <1>2, <1>3 DEF Good

\* Requests of createParty, updateParty, deleteParty and applyParty.
LEMMA PostRequestSound ==
  ASSUME NEW q \in Request, q.op \in {"idle", "apply", "create", "update", "delete"}, Inputs(q)
  PROVE  SoundRequest(q)
BY DEF SoundRequest, AzitSeen, ApplicantNotHost, OwnerHandles, ApplicantCancels, Handles

LEMMA StartGood ==
  ASSUME Inv, NEW r \in Requests,
         \/ StartApply(r) \/ StartHandle(r) \/ StartCancel(r)
         \/ StartCreate(r) \/ StartUpdate(r) \/ StartDelete(r)
  PROVE  Good(r)
<1>d. DataOK /\ TableInv /\ azits \subseteq AzitId
  BY DEF Inv, TableInv, TableTypeOK
<1> USE DEF Request, Ops, Pcs, Idle
<1>1. CASE StartApply(r)
  <2>1. PICK u \in Users, p \in DOMAIN posts :
          Become(r, [Idle EXCEPT !.op = "apply", !.pc = "duplicate", !.user = u, !.post = p])
    BY <1>1 DEF StartApply, Begin
  <2> DEFINE q == [Idle EXCEPT !.op = "apply", !.pc = "duplicate", !.user = u, !.post = p]
  <2>2. p \in PostId
    BY <1>d DEF DataOK
  <2>3. q \in Request /\ q.op = "apply" /\ q.user = u /\ q.post = p
    BY <2>2
  <2>4. SoundRequest(q)
    BY <2>2, <2>3, PostRequestSound DEF Inputs
  <2> QED BY <1>1, <2>1, <2>3, <2>4, ReadsGood DEF Local, StartApply
<1>2. CASE StartHandle(r)
  <2>1. PICK u \in Users, a \in applications, accept \in BOOLEAN :
          /\ MayHandle(u, a)
          /\ Become(r, [Idle EXCEPT !.op = "handle", !.pc = "status", !.user = u, !.app = a.id,
                                    !.post = a.post, !.azit = posts[a.post].azit, !.accept = accept])
    BY <1>2 DEF StartHandle, Begin
  <2> DEFINE q == [Idle EXCEPT !.op = "handle", !.pc = "status", !.user = u, !.app = a.id,
                               !.post = a.post, !.azit = posts[a.post].azit, !.accept = accept]
  <2>2. a \in Application /\ a.post \in DOMAIN posts /\ posts[a.post].azit \in azits
    BY <1>d DEF DataOK
  <2>3. a.id \in AppId /\ a.post \in PostId /\ posts[a.post].azit \in AzitId
        /\ posts[a.post].azit < nextAzit
    BY <1>d, <2>2 DEF Application, TableInv, IdsFresh
  <2>4. q \in Request /\ q.op = "handle" /\ q.pc = "status" /\ q.user = u /\ q.app = a.id
        /\ q.azit = posts[a.post].azit
    BY <2>3
  <2>5. OwnerHandles(q)
    BY <1>d, <2>1, <2>4 DEF OwnerHandles, MayHandle, DataOK
  <2>6. SoundRequest(q)
    BY <2>3, <2>4, <2>5 DEF SoundRequest, AzitSeen, ApplicantNotHost, ApplicantCancels, Inputs, Handles
  <2> QED BY <1>2, <2>1, <2>4, <2>6, ReadsGood DEF Local, StartHandle
<1>3. CASE StartCancel(r)
  <2>1. PICK u \in Users, a \in applications :
          /\ MayCancel(u, a)
          /\ Become(r, [Idle EXCEPT !.op = "cancel", !.pc = "write", !.user = u, !.app = a.id])
    BY <1>3 DEF StartCancel, Begin
  <2> DEFINE q == [Idle EXCEPT !.op = "cancel", !.pc = "write", !.user = u, !.app = a.id]
  <2>2. a.id \in AppId /\ a.id < nextApp /\ a.user = u
    BY <1>d, <2>1 DEF DataOK, Application, MayCancel
  <2>3. q \in Request /\ q.op = "cancel" /\ q.user = u /\ q.app = a.id
    BY <2>2
  <2>4. ApplicantCancels(q)
    BY <1>d, <2>2, <2>3 DEF ApplicantCancels, DataOK
  <2>5. SoundRequest(q)
    BY <2>3, <2>4 DEF SoundRequest, AzitSeen, ApplicantNotHost, OwnerHandles, Inputs, Handles
  <2> QED BY <1>3, <2>1, <2>3, <2>5, ReadsGood DEF Local, StartCancel
<1>4. CASE StartCreate(r)
  <2>1. PICK u \in Users, a \in azits :
          Become(r, [Idle EXCEPT !.op = "create", !.pc = "write", !.user = u, !.azit = a])
    BY <1>4 DEF StartCreate, Begin
  <2> DEFINE q == [Idle EXCEPT !.op = "create", !.pc = "write", !.user = u, !.azit = a]
  <2>2. q \in Request /\ q.op = "create" /\ q.user = u
    BY <1>d
  <2>3. SoundRequest(q)
    BY <2>2, PostRequestSound DEF Inputs
  <2> QED BY <1>4, <2>1, <2>2, <2>3, ReadsGood DEF Local, StartCreate
<1>5. CASE StartUpdate(r)
  <2>1. PICK p \in DOMAIN posts, a \in AzitId :
          Become(r, [Idle EXCEPT !.op = "update", !.pc = "azit", !.user = posts[p].owner,
                                 !.post = p, !.azit = a])
    BY <1>5 DEF StartUpdate, Begin
  <2> DEFINE q == [Idle EXCEPT !.op = "update", !.pc = "azit", !.user = posts[p].owner,
                               !.post = p, !.azit = a]
  <2>2. p \in PostId /\ posts[p].owner \in Users
    BY <1>d DEF DataOK, Post
  <2>3. q \in Request /\ q.op = "update"
    BY <2>2
  <2>4. SoundRequest(q)
    BY <2>3, PostRequestSound DEF Inputs
  <2> QED BY <1>5, <2>1, <2>3, <2>4, ReadsGood DEF Local, StartUpdate
<1>6. CASE StartDelete(r)
  <2>1. PICK p \in DOMAIN posts :
          Become(r, [Idle EXCEPT !.op = "delete", !.pc = "snapshot", !.user = posts[p].owner,
                                 !.post = p, !.azit = posts[p].azit])
    BY <1>6 DEF StartDelete, Begin
  <2> DEFINE q == [Idle EXCEPT !.op = "delete", !.pc = "snapshot", !.user = posts[p].owner,
                               !.post = p, !.azit = posts[p].azit]
  <2>2. p \in PostId /\ posts[p].owner \in Users /\ posts[p].azit \in AzitId
    BY <1>d DEF DataOK, Post
  <2>3. q \in Request /\ q.op = "delete"
    BY <2>2
  <2>4. SoundRequest(q)
    BY <2>3, PostRequestSound DEF Inputs
  <2> QED BY <1>6, <2>1, <2>3, <2>4, ReadsGood DEF Local, StartDelete
<1> QED BY <1>1, <1>2, <1>3, <1>4, <1>5, <1>6
\* Checks of posts, and the statements that write party_posts.
LEMMA PostGood ==
  ASSUME Inv, NEW r \in Requests,
         CreatePost(r) \/ UpdateFindAzit(r) \/ UpdatePost(r) \/ DeleteSnapshot(r) \/ DeleteCommit(r)
  PROVE  Good(r)
<1> DEFINE q == req[r]
<1>q. q \in Request /\ SoundRequest(q) /\ Inputs(q)
  BY DEF Inv, SoundRequest
<1>d. DataOK /\ TableInv /\ azits \subseteq AzitId /\ azitUser \subseteq Member
  BY DEF Inv, TableInv, TableTypeOK
<1> USE PartyAssumption DEF At, Goto
<1>1. CASE CreatePost(r)
  <2>1. CASE q.azit \notin azits
    BY <1>1, <2>1, ReturnLocal, ReadsGood DEF CreatePost, Reads, partyTables
  <2>2. CASE q.azit \in azits
    <3> DEFINE new == [owner |-> q.user, azit |-> q.azit]
    <3>1. new \in Post /\ new.azit \in azits /\ nextPost \in PostId /\ nextPost \notin DOMAIN posts
      BY <1>1, <1>q, <1>d, <2>2 DEF CreatePost, Inputs, Post, DataOK, PostId
    <3>2. /\ posts' = [p \in DOMAIN posts \union {nextPost} |-> IF p = nextPost THEN new ELSE posts[p]]
          /\ nextPost' = nextPost + 1
          /\ UNCHANGED <<azits, applications, nextApp, admitted, restarts>>
      BY <1>1, <2>2 DEF CreatePost, SetPost, tableVars
    <3>3. DataOK'
      BY <1>d, <3>1, <3>2 DEF DataOK, PostId
    <3>4. RowsKept
      BY <1>d, <3>1, <3>2 DEF RowsKept, DataOK
    <3> QED BY <1>1, <3>3, <3>4, ReturnLocal DEF Good, CreatePost
  <2> QED BY <2>1, <2>2
<1>2. CASE UpdateFindAzit(r)
  <2> DEFINE n == [q EXCEPT !.pc = "write"]
  <2>1. SUFFICES ASSUME Become(r, n) PROVE Local(r)
    BY <1>2, ReturnLocal, ReadsGood DEF UpdateFindAzit
  <2>2. n \in Request /\ n.op = "update"
    BY <1>2, <1>q DEF UpdateFindAzit, Request, Pcs
  <2>3. SoundRequest(n)
    BY <2>2, PostRequestSound DEF Inputs
  <2> QED BY <2>1, <2>2, <2>3 DEF Local
<1>3. CASE UpdatePost(r)
  <2>1. CASE ~(q.post \in DOMAIN posts /\ q.azit \in azits)
    BY <1>3, <2>1, ReturnLocal, ReadsGood DEF UpdatePost, Reads, partyTables
  <2>2. CASE q.post \in DOMAIN posts /\ q.azit \in azits
    <3> DEFINE new == [posts[q.post] EXCEPT !.azit = q.azit]
    <3>1. new \in Post /\ new.azit \in azits /\ new.owner = posts[q.post].owner
      BY <1>d, <2>2 DEF DataOK, Post
    <3>2. /\ posts' = [p \in DOMAIN posts \union {q.post} |-> IF p = q.post THEN new ELSE posts[p]]
          /\ UNCHANGED <<azits, applications, nextPost, nextApp, admitted, restarts>>
      BY <1>3, <2>2 DEF UpdatePost, SetPost, tableVars
    <3>3. DataOK'
      BY <1>d, <2>2, <3>1, <3>2 DEF DataOK
    <3>4. RowsKept
      BY <1>d, <2>2, <3>1, <3>2 DEF RowsKept, DataOK
    <3> QED BY <1>3, <3>3, <3>4, ReturnLocal DEF Good, UpdatePost
  <2> QED BY <2>1, <2>2
<1>4. CASE DeleteSnapshot(r)
  <2> DEFINE n == [q EXCEPT !.others = Others(q), !.pc = "commit"]
  <2>1. Others(q) \subseteq PostId
    BY <1>d DEF Others, PostsOf, DataOK
  <2>2. n \in Request /\ n.op = "delete"
    BY <1>4, <1>q, <2>1 DEF DeleteSnapshot, Request, Pcs
  <2>3. SoundRequest(n)
    BY <2>2, PostRequestSound DEF Inputs
  <2> QED BY <1>4, <2>2, <2>3, ReadsGood DEF Local, DeleteSnapshot
<1>5. CASE DeleteCommit(r)
  <2>0. UNCHANGED <<nextPost, nextApp, admitted, restarts>> /\ Return(r)
    BY <1>5 DEF DeleteCommit
  <2>1. CASE UNCHANGED <<tableVars, posts, applications>>
    BY <2>0, <2>1, ReturnLocal, ReadsGood DEF Reads, partyTables
  <2>2. CASE /\ ErasePost(q.post)
             /\ \/ UNCHANGED tableVars
                \/ /\ DeleteAzit(q.azit)
                   /\ PostsOf(q.azit) \ {q.post} = {}
    <3>1. /\ posts' = [p \in DOMAIN posts \ {q.post} |-> posts[p]]
          /\ applications' = {a \in applications : a.post # q.post}
      BY <2>2 DEF ErasePost
    <3>2. \A p \in DOMAIN posts' : posts'[p].azit \in azits'
      BY <1>d, <2>2, <3>1 DEF DataOK, PostsOf, DeleteAzit, tableVars
    <3>3. DataOK'
      BY <1>d, <2>0, <3>1, <3>2 DEF DataOK
    <3>4. RowsKept
      BY <1>d, <2>0, <3>1 DEF RowsKept, DataOK
    <3>5. [TableNext]_tableVars
      BY <2>2 DEF TableNext, DeleteAzit
    <3> QED BY <2>0, <3>3, <3>4, <3>5, ReturnLocal DEF Good
  <2> QED BY <1>5, <2>1, <2>2 DEF DeleteCommit
<1> QED BY <1>1, <1>2, <1>3, <1>4, <1>5

\* applyParty and cancelApplication: the statements that insert and delete applications.
LEMMA ApplicationGood ==
  ASSUME Inv, NEW r \in Requests, ApplyCheckDuplicate(r) \/ ApplyInsert(r) \/ CancelDelete(r)
  PROVE  Good(r)
<1> DEFINE q == req[r]
<1>q. q \in Request /\ SoundRequest(q) /\ Inputs(q)
  BY DEF Inv, SoundRequest
<1>d. DataOK /\ TableInv
  BY DEF Inv
<1> USE PartyAssumption DEF At, Goto
<1>1. CASE ApplyCheckDuplicate(r)
  <2> DEFINE n == [q EXCEPT !.pc = "insert"]
  <2>1. SUFFICES ASSUME Become(r, n) PROVE Local(r)
    BY <1>1, ReturnLocal, ReadsGood DEF ApplyCheckDuplicate
  <2>2. n \in Request /\ n.op = "apply" /\ n.user = q.user /\ n.post = q.post
    BY <1>1, <1>q DEF ApplyCheckDuplicate, Request, Pcs
  <2>3. SoundRequest(n)
    BY <1>1, <1>q, <2>2, PostRequestSound DEF Inputs, ApplyCheckDuplicate
  <2> QED BY <2>1, <2>2, <2>3 DEF Local
<1>2. CASE ApplyInsert(r)
  <2>1. CASE q.post \notin DOMAIN posts
    BY <1>2, <2>1, ReturnLocal, ReadsGood DEF ApplyInsert, Reads, partyTables
  <2>2. CASE q.post \in DOMAIN posts
    <3> DEFINE new == [id |-> nextApp, user |-> q.user, post |-> q.post, accepted |-> FALSE]
    <3>1. new \in Application /\ new.id = nextApp /\ new.post \in DOMAIN posts /\ nextApp + 1 \in 1..MaxApp + 1
      BY <1>2, <1>q, <1>d, <2>2 DEF ApplyInsert, Inputs, Application, DataOK, AppId
    <3>2. /\ applications' = applications \union {new}
          /\ nextApp' = nextApp + 1
          /\ UNCHANGED <<azits, posts, nextPost, admitted, restarts>>
      BY <1>2, <2>2 DEF ApplyInsert, tableVars
    <3>3. \A a \in applications : a \in Application /\ a.id < nextApp /\ a.id \in AppId /\ nextApp \in Nat
      BY <1>d DEF DataOK, Application
    <3>4. DataOK'
      <4> HIDE DEF new
      <4>1. \A a \in applications' : a \in Application /\ a.post \in DOMAIN posts' /\ a.id < nextApp'
        BY <1>d, <3>1, <3>2, <3>3 DEF DataOK, AppId
      <4>2. \A a, b \in applications' : a.id = b.id => a = b
        BY <1>d, <3>1, <3>2, <3>3 DEF DataOK, AppId
      <4> QED BY <1>d, <3>1, <3>2, <4>1, <4>2 DEF DataOK
    <3>5. RowsKept
      BY <1>d, <3>1, <3>2, <3>3 DEF RowsKept, DataOK
    <3> QED BY <1>2, <3>4, <3>5, ReturnLocal DEF Good, ApplyInsert
  <2> QED BY <2>1, <2>2
<1>3. CASE CancelDelete(r)
  <2>1. /\ applications' \subseteq applications
        /\ UNCHANGED <<azits, posts, nextPost, nextApp, admitted, restarts>>
    BY <1>3 DEF CancelDelete, tableVars
  <2>2. DataOK'
    BY <1>d, <2>1 DEF DataOK
  <2>3. RowsKept
    BY <1>d, <2>1 DEF RowsKept, DataOK
  <2> QED BY <1>3, <2>2, <2>3, ReturnLocal DEF Good, CancelDelete
<1> QED BY <1>1, <1>2, <1>3

\* handleApplication: the membership it inserts is never a second row of a host.
LEMMA HandleGood ==
  ASSUME Inv, NEW r \in Requests, HandleStatus(r) \/ HandleFindMember(r) \/ HandleAdmit(r)
  PROVE  Good(r)
<1> DEFINE q == req[r]
<1>q. q \in Request /\ SoundRequest(q) /\ AzitSeen(q) /\ ApplicantNotHost(q)
  BY DEF Inv, SoundRequest
<1>d. DataOK /\ TableInv /\ azits \subseteq AzitId /\ azitUser \subseteq Member
  BY DEF Inv, TableInv, TableTypeOK
<1>s. ASSUME NEW n \in Request, n.op = "handle", AzitSeen(n), ApplicantNotHost(n), n.pc # "status"
      PROVE  SoundRequest(n)
  BY <1>s DEF SoundRequest, OwnerHandles, ApplicantCancels, Inputs, Handles
<1> USE PartyAssumption DEF At, Goto
<1>1. CASE HandleStatus(r)
  <2>1. /\ applications' = {IF a.id = q.app THEN [a EXCEPT !.accepted = q.accept] ELSE a :
                              a \in applications}
        /\ UNCHANGED <<tableVars, azits, posts, nextPost, nextApp, admitted, restarts>>
    BY <1>1 DEF HandleStatus, tableVars
  <2>2. \A b \in applications' : \E a \in applications :
          /\ b \in Application
          /\ b.id = a.id /\ b.user = a.user /\ b.post = a.post
          /\ b = IF a.id = q.app THEN [a EXCEPT !.accepted = q.accept] ELSE a
    BY <1>q, <1>d, <2>1 DEF DataOK, Application, Request
  <2>3. DataOK'
    BY <1>d, <2>1, <2>2 DEF DataOK
  <2>4. RowsKept
    BY <1>d, <2>1, <2>2 DEF RowsKept, DataOK
  <2>5. Local(r)
    <3>1. SUFFICES ASSUME NEW a \in AppRow(q.app), Become(r, [q EXCEPT !.user = a.user, !.pc = "existing"])
                   PROVE  Local(r)
      BY <1>1, ReturnLocal DEF HandleStatus
    <3> DEFINE n == [q EXCEPT !.user = a.user, !.pc = "existing"]
    <3>2. a.user \in Users
      BY <1>d DEF AppRow, DataOK, Application
    <3>3. n \in Request /\ n.op = q.op /\ n.user = a.user /\ n.pc = "existing" /\ n.azit = q.azit /\ n.app = q.app
      BY <1>q, <3>2 DEF Request, Pcs
    <3>4. SoundRequest(n)
      BY <1>1, <1>q, <1>s, <3>2, <3>3 DEF HandleStatus, AzitSeen, ApplicantNotHost, Handles
    <3> QED BY <3>1, <3>3, <3>4 DEF Local
  <2> QED BY <2>1, <2>3, <2>4, <2>5 DEF Good
<1>2. CASE HandleFindMember(r)
  <2>1. q.op = "handle" /\ q.app \in AppId
    BY <1>2, <1>q DEF HandleFindMember, ApplicantNotHost, Handles
  <2>2. /\ admitted' \subseteq admitted \union {q.app}
        /\ UNCHANGED <<tableVars, azits, posts, applications, nextPost, nextApp, restarts>>
    BY <1>2 DEF HandleFindMember, tableVars
  <2>3. DataOK' /\ RowsKept
    BY <1>d, <2>1, <2>2 DEF DataOK, RowsKept
  <2>4. Local(r)
    <3> DEFINE n == [q EXCEPT !.pc = "member"]
    <3>1. SUFFICES ASSUME RowsOf(q.user, q.azit) = {}, Become(r, n) PROVE Local(r)
      BY <1>2, ReturnLocal DEF HandleFindMember, IsMember
    <3>2. n \in Request /\ n.op = q.op /\ n.user = q.user /\ n.pc = "member" /\ n.azit = q.azit /\ n.app = q.app
      BY <1>q DEF Request, Pcs
    <3>3. \A h \in azitUser : Hosts(h, q.azit) => h.user # q.user
      BY <3>1 DEF RowsOf, Hosts
    <3>4. SoundRequest(n)
      BY <1>q, <1>s, <2>1, <3>2, <3>3 DEF AzitSeen, ApplicantNotHost, Handles
    <3> QED BY <3>1, <3>2, <3>4 DEF Local
  <2> QED BY <2>2, <2>3, <2>4 DEF Good
<1>3. CASE HandleAdmit(r)
  <2>1. q.op = "handle" /\ q.app \in AppId /\ q.user \in Users
        /\ \A h \in azitUser : Hosts(h, q.azit) => h.user # q.user
    BY <1>3, <1>q DEF HandleAdmit, ApplicantNotHost, Handles
  <2>2. CASE q.azit \notin azits
    BY <1>3, <2>2, ReturnLocal, ReadsGood DEF HandleAdmit, Reads, partyTables, tableVars
  <2>3. CASE q.azit \in azits
    <3>1. AddMember(q.user, q.azit)
      BY <1>3, <2>1, <2>3 DEF HandleAdmit, AddMember
    <3>2. DataOK' /\ RowsKept
      BY <1>3, <1>d, <2>1, <2>3 DEF HandleAdmit, DataOK, RowsKept
    <3> QED BY <1>3, <2>1, <2>3, <3>1, <3>2, ReturnLocal DEF Good, TableNext, HandleAdmit
  <2> QED BY <2>2, <2>3
<1> QED BY <1>1, <1>2, <1>3
-----------------------------------------------------------------------------
(* The theorems. *)

LEMMA StepGood == ASSUME Inv, NEW r \in Requests, Step(r) PROVE Good(r)
BY StartGood, PostGood, ApplicationGood, HandleGood DEF Step

LEMMA NextInv == Inv /\ [Next]_vars => Inv' /\ [TableNext]_tableVars
<1> SUFFICES ASSUME Inv, [Next]_vars PROVE Inv' /\ [TableNext]_tableVars
  OBVIOUS
<1>d. DataOK /\ TableInv /\ req \in [Requests -> Request] /\ \A s \in Requests : SoundRequest(req[s])
  BY DEF Inv
\* Every request either stays where it is or moves to a sound local state.
<1>1. ASSUME [TableNext]_tableVars, DataOK', RowsKept,
             req' \in [Requests -> Request],
             \A s \in Requests : SoundRequest(req'[s])
      PROVE  Inv' /\ [TableNext]_tableVars
  <2>1. TableInv'
    BY <1>1, <1>d, TableNextInv
  <2>2. ASSUME NEW s \in Requests PROVE SoundRequest(req[s])'
    <3>1. PICK p : SoundRequest(p) /\ req'[s] = p
      BY <1>1
    <3>2. SoundRequest(p)'
      BY <1>1, <1>d, <3>1, SoundStable
    <3> QED BY <3>1, <3>2 DEF SoundRequest, AzitSeen, ApplicantNotHost, OwnerHandles,
                             ApplicantCancels, Inputs, Handles
  <2> QED BY <1>1, <2>1, <2>2 DEF Inv
<1>2. ASSUME NEW r \in Requests, Good(r) PROVE Inv' /\ [TableNext]_tableVars
  <2>1. PICK q \in Request : SoundRequest(q) /\ Become(r, q)
    BY <1>2 DEF Good, Local
  <2>2. req' \in [Requests -> Request] /\ \A s \in Requests : req'[s] = q \/ req'[s] = req[s]
    BY <1>d, <2>1 DEF Become
  <2>3. \A s \in Requests : SoundRequest(req'[s])
    BY <1>d, <2>1, <2>2
  <2> QED BY <1>1, <1>2, <2>2, <2>3 DEF Good
<1>3. CASE MembersChange
  <2>1. UNCHANGED <<posts, applications, nextPost, nextApp, admitted, restarts, req>> /\ TableNext
        /\ \A p \in DOMAIN posts : posts[p].azit \in azits'
    BY <1>3 DEF MembersChange, partyTables
  <2>2. azits' \subseteq AzitId
    BY <1>d, <2>1, TableNextInv DEF TableInv, TableTypeOK
  <2>3. DataOK' /\ RowsKept
    BY <1>d, <2>1, PartyAssumption DEF DataOK, RowsKept
  <2> QED BY <1>1, <1>d, <2>1, <2>3
<1>4. CASE Restart
  <2>1. UNCHANGED <<tableVars, azits, posts, applications, nextPost, nextApp, admitted>>
        /\ restarts' = restarts + 1 /\ restarts < MaxRestart /\ req' = [s \in Requests |-> Idle]
    BY <1>4 DEF Restart, partyTables, tableVars
  <2>2. DataOK' /\ RowsKept
    BY <1>d, <2>1, PartyAssumption DEF DataOK, RowsKept
  <2> QED BY <1>1, <2>1, <2>2, IdleSound
<1>5. CASE UNCHANGED vars
  <2>1. UNCHANGED <<tableVars, azits, posts, applications, nextPost, nextApp, admitted, restarts, req>>
    BY <1>5 DEF vars, partyTables, tableVars
  <2>2. DataOK' /\ RowsKept
    BY <1>d, <2>1, PartyAssumption DEF DataOK, RowsKept
  <2> QED BY <1>1, <1>d, <2>1, <2>2
<1> QED BY <1>2, <1>3, <1>4, <1>5, StepGood DEF Next

THEOREM Invariance == Spec => []Inv
BY InitInv, NextInv, PTL DEF Spec

\* The type invariant, with the foreign keys: a post names an azit that exists even
\* though deleteParty decides on a snapshot and updateParty moves posts meanwhile.
THEOREM TypeCorrect == Spec => []TypeOK
<1>1. Inv => TypeOK
  BY DEF Inv, DataOK, TableInv, TypeOK
<1> QED BY <1>1, Invariance, PTL

\* Accepting applicants and deleting the last post of an azit are steps of MemberTable.
THEOREM Refinement == Spec => ImplementsTable
<1>1. Init => TableInit
  BY DEF Init
<1>2. Inv /\ [Next]_vars => [TableNext]_tableVars
  BY NextInv
<1> QED BY <1>1, <1>2, Invariance, PTL DEF Spec, ImplementsTable, TableSpec

\* What a step may do to one application.
Entitled(a) ==
  \/ \E b \in applications' : b.id = a.id /\ (b.accepted /\ ~a.accepted => Accepting(a))
  \/ a.post \notin DOMAIN posts'
  \/ Cancelling(a)

\* The statements that write applications decide on what was read before; that the
\* caller is still the owner, or the applicant, follows from the invariant.
LEMMA StepEntitled == ASSUME Inv, [Next]_vars, NEW a \in applications PROVE Entitled(a)
<1>k. a \in applications' => Entitled(a)
  BY DEF Entitled
<1>a. a \in Application
  BY DEF Inv, DataOK
<1>1. ASSUME NEW r \in Requests, HandleStatus(r) PROVE Entitled(a)
  <2> DEFINE b == IF a.id = req[r].app THEN [a EXCEPT !.accepted = req[r].accept] ELSE a
  <2>1. b \in applications' /\ b.id = a.id
    BY <1>1, <1>a DEF HandleStatus, Application
  <2>2. ASSUME b.accepted, ~a.accepted PROVE Accepting(a)
    <3>1. a.id = req[r].app /\ req[r].accept
      BY <2>2, <1>a DEF Application
    <3>2. OwnerHandles(req[r]) /\ req[r].op = "handle" /\ req[r].pc = "status"
      BY <1>1 DEF Inv, SoundRequest, HandleStatus, At
    <3> QED BY <3>1, <3>2 DEF OwnerHandles, Handles, Accepting, At
  <2> QED BY <2>1, <2>2 DEF Entitled
<1>2. ASSUME NEW r \in Requests, CancelDelete(r) PROVE Entitled(a)
  <2>1. CASE a \in AppRow(req[r].app)
    <3>1. ApplicantCancels(req[r]) /\ req[r].op = "cancel" /\ req[r].pc = "write"
      BY <1>2 DEF Inv, SoundRequest, CancelDelete, At
    <3> QED BY <2>1, <3>1 DEF AppRow, ApplicantCancels, Cancelling, At, Entitled
  <2>2. CASE a \notin AppRow(req[r].app)
    BY <1>2, <1>k, <2>2 DEF CancelDelete
  <2> QED BY <2>1, <2>2
<1>3. ASSUME NEW r \in Requests, DeleteCommit(r) PROVE Entitled(a)
  BY <1>3, <1>k DEF DeleteCommit, ErasePost, Entitled
<1>4. ASSUME NEW r \in Requests, ApplyInsert(r) PROVE Entitled(a)
  BY <1>4, <1>k DEF ApplyInsert
<1>5. CASE UNCHANGED applications
  BY <1>5, <1>k
<1>6. ASSUME NEW r \in Requests, Step(r) PROVE Entitled(a)
  BY <1>1, <1>2, <1>3, <1>4, <1>5, <1>6 DEF Step, StartApply, ApplyCheckDuplicate, StartHandle,
     HandleFindMember, HandleAdmit, StartCancel, StartCreate, CreatePost, StartUpdate,
     UpdateFindAzit, UpdatePost, StartDelete, DeleteSnapshot, Reads, partyTables
<1>7. CASE MembersChange \/ Restart \/ UNCHANGED vars
  BY <1>5, <1>7 DEF MembersChange, Restart, vars, partyTables
<1> QED BY <1>6, <1>7 DEF Next

\* Applications are accepted only by the owner of their post, and removed only by their
\* applicant or with their post, whatever other requests do in between.
THEOREM ApplicationsByTheEntitled == Spec => ApplicationsAuthorized
<1>1. Inv /\ [Next]_vars =>
        [\A a \in applications :
           \/ \E b \in applications' : b.id = a.id /\ (b.accepted /\ ~a.accepted => Accepting(a))
           \/ a.post \notin DOMAIN posts'
           \/ Cancelling(a)]_vars
  BY StepEntitled DEF Entitled
<1> QED BY <1>1, Invariance, PTL DEF Spec, ApplicationsAuthorized
-----------------------------------------------------------------------------
(* Requests that do not overlap. *)

OneAtATime == \A r, s \in Requests : r = s

\* What a request has read of posts and applications is still so.
Current(q) ==
  /\ q.op = "apply" /\ q.pc = "insert" => ~ Applied(q)
  /\ q.op \in {"handle", "delete"} => q.post \in DOMAIN posts /\ posts[q.post].azit = q.azit
  /\ q.op = "handle" /\ q.pc = "status" => \A a \in applications : a.id = q.app => ~ a.accepted
  /\ q.op = "delete" /\ q.pc = "commit" => q.others = Others(q)

Serial == OneApplication /\ \A r \in Requests : Current(req[r])

LEMMA CurrentSame ==
  ASSUME NEW q, Current(q), UNCHANGED <<posts, applications>>
  PROVE  Current(q)'
BY DEF Current, Applied, Others, PostsOf

LEMMA MovesSerial ==
  ASSUME OneAtATime, Inv, OneApplication', NEW r \in Requests, NEW q, Become(r, q), Current(q)'
  PROVE  Serial'
<1>1. ASSUME NEW s \in Requests PROVE Current(req[s])'
  <2>1. req'[s] = q
    BY DEF OneAtATime, Inv, Become
  <2> QED BY <2>1 DEF Current, Applied, Others, PostsOf
<1> QED BY <1>1 DEF Serial

LEMMA ReturnSerial ==
  ASSUME OneAtATime, Inv, OneApplication', NEW r \in Requests, Return(r)
  PROVE  Serial'
<1>1. Current(Idle)'
  BY DEF Current, Idle
<1> QED BY <1>1, MovesSerial DEF Return

\* Steps that read.
Looks(r) ==
  \/ StartApply(r) \/ ApplyCheckDuplicate(r) \/ StartHandle(r) \/ HandleFindMember(r)
  \/ StartCancel(r) \/ StartCreate(r) \/ StartUpdate(r) \/ UpdateFindAzit(r)
  \/ StartDelete(r) \/ DeleteSnapshot(r)

LEMMA LooksSerial ==
  ASSUME OneAtATime, Inv, Serial, NEW r \in Requests, Looks(r)
  PROVE  Serial'
<1>p. PICK p : p = req[r]
  OBVIOUS
<1>q. p \in Request /\ Current(p)
  BY <1>p DEF Inv, Serial
<1>0. UNCHANGED <<posts, applications>> /\ OneApplication'
  <2>1. UNCHANGED <<posts, applications>>
    BY DEF Looks, StartApply, ApplyCheckDuplicate, StartHandle, HandleFindMember, StartCancel,
           StartCreate, StartUpdate, UpdateFindAzit, StartDelete, DeleteSnapshot, Reads, partyTables
  <2> QED BY <2>1 DEF Serial, OneApplication
<1>1. SUFFICES ASSUME ~ Return(r)
               PROVE  \E q : Become(r, q) /\ Current(q)
  <2>1. ASSUME NEW q, Become(r, q), Current(q) PROVE Serial'
    BY <1>0, <2>1, CurrentSame, MovesSerial
  <2> QED BY <1>0, <2>1, ReturnSerial
<1>2. ASSUME NEW q, Become(r, q),
             \/ q.op \in {"cancel", "create", "update"}
             \/ q.op = "apply" /\ q.pc = "duplicate"
      PROVE  \E k : Become(r, k) /\ Current(k)
  BY <1>2 DEF Current
<1>3. CASE StartApply(r)
  <2>1. PICK u \in Users, i \in DOMAIN posts :
          Become(r, [Idle EXCEPT !.op = "apply", !.pc = "duplicate", !.user = u, !.post = i])
    BY <1>3 DEF StartApply, Begin
  <2> DEFINE q == [Idle EXCEPT !.op = "apply", !.pc = "duplicate", !.user = u, !.post = i]
  <2>2. Become(r, q) /\ q.op = "apply" /\ q.pc = "duplicate"
    BY <2>1 DEF Idle
  <2> HIDE DEF q
  <2> QED BY <1>2, <2>2
<1>4. CASE ApplyCheckDuplicate(r)
  <2> DEFINE q == [p EXCEPT !.pc = "insert"]
  <2>1. /\ Become(r, q) /\ q.op = "apply" /\ q.user = p.user /\ q.post = p.post /\ ~ Applied(p)
    BY <1>p, <1>q, <1>1, <1>4 DEF ApplyCheckDuplicate, Goto, At, Request
  <2> HIDE DEF q
  <2>2. Current(q)
    BY <2>1 DEF Current, Applied
  <2> QED BY <2>1, <2>2
<1>5. CASE StartHandle(r)
  <2>1. PICK u \in Users, a \in applications, accept \in BOOLEAN :
          /\ MayHandle(u, a)
          /\ Become(r, [Idle EXCEPT !.op = "handle", !.pc = "status", !.user = u, !.app = a.id,
                                    !.post = a.post, !.azit = posts[a.post].azit, !.accept = accept])
    BY <1>5 DEF StartHandle, Begin
  <2> DEFINE q == [Idle EXCEPT !.op = "handle", !.pc = "status", !.user = u, !.app = a.id,
                               !.post = a.post, !.azit = posts[a.post].azit, !.accept = accept]
  <2>2. Become(r, q) /\ q.op = "handle" /\ q.app = a.id /\ q.post = a.post /\ q.azit = posts[a.post].azit
    BY <2>1 DEF Idle
  <2> HIDE DEF q
  <2>3. a.post \in DOMAIN posts /\ \A b \in applications : b.id = a.id => ~ b.accepted
    BY <2>1 DEF Inv, DataOK, MayHandle
  <2>4. Current(q)
    BY <2>2, <2>3 DEF Current
  <2> QED BY <2>2, <2>4
<1>6. CASE HandleFindMember(r)
  <2> DEFINE q == [p EXCEPT !.pc = "member"]
  <2>1. /\ Become(r, q) /\ q.op = "handle" /\ q.pc = "member" /\ q.post = p.post /\ q.azit = p.azit
        /\ p.op = "handle"
    BY <1>p, <1>q, <1>1, <1>6 DEF HandleFindMember, Goto, At, Request
  <2> HIDE DEF q
  <2>2. Current(q)
    BY <1>q, <2>1 DEF Current
  <2> QED BY <2>1, <2>2
<1>7. CASE StartCancel(r)
  <2>1. PICK u \in Users, a \in applications :
          Become(r, [Idle EXCEPT !.op = "cancel", !.pc = "write", !.user = u, !.app = a.id])
    BY <1>7 DEF StartCancel, Begin
  <2> DEFINE q == [Idle EXCEPT !.op = "cancel", !.pc = "write", !.user = u, !.app = a.id]
  <2>2. Become(r, q) /\ q.op = "cancel"
    BY <2>1 DEF Idle
  <2> HIDE DEF q
  <2> QED BY <1>2, <2>2
<1>8. CASE StartCreate(r)
  <2>1. PICK u \in Users, a \in azits :
          Become(r, [Idle EXCEPT !.op = "create", !.pc = "write", !.user = u, !.azit = a])
    BY <1>8 DEF StartCreate, Begin
  <2> DEFINE q == [Idle EXCEPT !.op = "create", !.pc = "write", !.user = u, !.azit = a]
  <2>2. Become(r, q) /\ q.op = "create"
    BY <2>1 DEF Idle
  <2> HIDE DEF q
  <2> QED BY <1>2, <2>2
<1>9. CASE StartUpdate(r)
  <2>1. PICK i \in DOMAIN posts, a \in AzitId :
          Become(r, [Idle EXCEPT !.op = "update", !.pc = "azit", !.user = posts[i].owner,
                                 !.post = i, !.azit = a])
    BY <1>9 DEF StartUpdate, Begin
  <2> DEFINE q == [Idle EXCEPT !.op = "update", !.pc = "azit", !.user = posts[i].owner,
                               !.post = i, !.azit = a]
  <2>2. Become(r, q) /\ q.op = "update"
    BY <2>1 DEF Idle
  <2> HIDE DEF q
  <2> QED BY <1>2, <2>2
<1>10. CASE UpdateFindAzit(r)
  <2> DEFINE q == [p EXCEPT !.pc = "write"]
  <2>1. Become(r, q) /\ q.op = "update"
    BY <1>p, <1>q, <1>1, <1>10 DEF UpdateFindAzit, Goto, At, Request
  <2> HIDE DEF q
  <2> QED BY <1>2, <2>1
<1>11. CASE StartDelete(r)
  <2>1. PICK i \in DOMAIN posts :
          Become(r, [Idle EXCEPT !.op = "delete", !.pc = "snapshot", !.user = posts[i].owner,
                                 !.post = i, !.azit = posts[i].azit])
    BY <1>11 DEF StartDelete, Begin
  <2> DEFINE q == [Idle EXCEPT !.op = "delete", !.pc = "snapshot", !.user = posts[i].owner,
                               !.post = i, !.azit = posts[i].azit]
  <2>2. Become(r, q) /\ q.op = "delete" /\ q.pc = "snapshot" /\ q.post = i /\ q.azit = posts[i].azit
    BY <2>1 DEF Idle
  <2> HIDE DEF q
  <2>3. Current(q)
    BY <2>2 DEF Current
  <2> QED BY <2>2, <2>3
<1>12. CASE DeleteSnapshot(r)
  <2>1. PICK o : o = Others(p)
    OBVIOUS
  <2> DEFINE q == [p EXCEPT !.others = o, !.pc = "commit"]
  <2>2. /\ Become(r, q) /\ q.op = "delete" /\ q.post = p.post /\ q.azit = p.azit /\ q.others = o
        /\ p.op = "delete"
    BY <1>p, <1>q, <1>12, <2>1 DEF DeleteSnapshot, At, Request
  <2> HIDE DEF q
  <2>3. Current(q)
    BY <1>q, <2>1, <2>2 DEF Current, Others
  <2> QED BY <2>2, <2>3
<1> QED BY <1>3, <1>4, <1>5, <1>6, <1>7, <1>8, <1>9, <1>10, <1>11, <1>12 DEF Looks

\* Accepting, or not, changes neither user nor post of an application.
LEMMA StatusSerial ==
  ASSUME OneAtATime, Inv, Serial, NEW r \in Requests, HandleStatus(r)
  PROVE  Serial'
<1>p. PICK p : p = req[r]
  OBVIOUS
<1>q. p \in Request /\ Current(p) /\ p.op = "handle" /\ UNCHANGED posts
  BY <1>p DEF Inv, Serial, HandleStatus, At
<1>1. ASSUME NEW b \in applications'
      PROVE  \E a \in applications : /\ a.user = b.user /\ a.post = b.post
                                     /\ b = IF a.id = p.app THEN [a EXCEPT !.accepted = p.accept] ELSE a
  <2>1. PICK a \in applications : b = IF a.id = p.app THEN [a EXCEPT !.accepted = p.accept] ELSE a
    BY <1>p DEF HandleStatus
  <2>2. a \in Application
    BY DEF Inv, DataOK
  <2> QED BY <2>1, <2>2 DEF Application
<1>2. OneApplication'
  BY <1>1 DEF Serial, OneApplication
<1>3. CASE Return(r)
  BY <1>2, <1>3, ReturnSerial
<1>4. CASE ~ Return(r)
  <2>1. PICK a \in AppRow(p.app) : Become(r, [p EXCEPT !.user = a.user, !.pc = "existing"])
    BY <1>4, <1>p DEF HandleStatus
  <2> DEFINE q == [p EXCEPT !.user = a.user, !.pc = "existing"]
  <2>2. /\ Become(r, q) /\ q.op = "handle" /\ q.pc = "existing" /\ q.post = p.post /\ q.azit = p.azit
    BY <1>q, <2>1 DEF Request
  <2> HIDE DEF q
  <2>3. Current(q)'
    BY <1>q, <2>2 DEF Current
  <2> QED BY <1>2, <2>2, <2>3, MovesSerial
<1> QED BY <1>3, <1>4

LEMMA WritesSerial ==
  ASSUME OneAtATime, Inv, Serial, NEW r \in Requests,
         \/ ApplyInsert(r) \/ HandleAdmit(r) \/ CancelDelete(r)
         \/ CreatePost(r) \/ UpdatePost(r) \/ DeleteCommit(r)
  PROVE  Serial'
<1>1. Return(r)
  BY DEF ApplyInsert, HandleAdmit, CancelDelete, CreatePost, UpdatePost, DeleteCommit
<1>2. SUFFICES OneApplication'
  BY <1>1, ReturnSerial
<1>3. CASE applications' \subseteq applications
  BY <1>3 DEF Serial, OneApplication
<1>4. CASE ApplyInsert(r) /\ ~ (applications' \subseteq applications)
  <2> DEFINE a == [id |-> nextApp, user |-> req[r].user, post |-> req[r].post, accepted |-> FALSE]
  <2>1. /\ applications' = applications \union {a}
        /\ a.user = req[r].user /\ a.post = req[r].post
    BY <1>4 DEF ApplyInsert
  <2> HIDE DEF a
  <2>2. ~ Applied(req[r])
    BY <1>4 DEF Serial, Current, ApplyInsert, At
  <2> QED BY <2>1, <2>2 DEF Serial, OneApplication, Applied
<1>5. ~ ApplyInsert(r) => applications' \subseteq applications
  BY DEF HandleAdmit, CancelDelete, CreatePost, UpdatePost, DeleteCommit, ErasePost
<1> QED BY <1>3, <1>4, <1>5

LEMMA RestSerial ==
  ASSUME OneAtATime, Inv, Serial, MembersChange \/ Restart \/ UNCHANGED vars
  PROVE  Serial'
<1>1. UNCHANGED <<posts, applications>>
  BY DEF MembersChange, Restart, vars, partyTables
<1>2. OneApplication'
  BY <1>1 DEF Serial, OneApplication
<1>3. ASSUME NEW r \in Requests PROVE Current(req[r])'
  <2>1. CASE UNCHANGED req
    BY <1>1, <2>1 DEF Serial, Current, Applied, Others, PostsOf
  <2>2. CASE Restart
    <3>1. req'[r] = Idle
      BY <2>2 DEF Restart
    <3> QED BY <3>1 DEF Current, Idle
  <2> QED BY <2>1, <2>2 DEF MembersChange, vars
<1> QED BY <1>2, <1>3 DEF Serial

LEMMA NextSerial == OneAtATime /\ Inv /\ Serial /\ [Next]_vars => Serial'
<1> SUFFICES ASSUME OneAtATime, Inv, Serial, [Next]_vars PROVE Serial'
  OBVIOUS
<1> QED BY LooksSerial, StatusSerial, WritesSerial, RestSerial DEF Next, Step, Looks

LEMMA InitSerial == Init => Serial
BY DEF Init, Serial, OneApplication, Current, Idle

\* With one request at a time what it has read stays true until it is done.
THEOREM SerialInvariance == ASSUME OneAtATime PROVE Spec => [](Inv /\ Serial)
<1>1. Init => Inv /\ Serial
  BY InitInv, InitSerial
<1>2. Inv /\ Serial /\ [Next]_vars => (Inv /\ Serial)'
  BY NextInv, NextSerial
<1> QED BY <1>1, <1>2, PTL DEF Spec

\* party-interaction.service.ts, applyParty, "duplicate application check": with one request
\* at a time nobody applies for a post twice.
THEOREM ApplicationsOnceWhenSerial == ASSUME OneAtATime PROVE Spec => []OneApplication
BY SerialInvariance, PTL DEF Serial

\* Only an application that was not accepted is given a status, and new ones have new ids.
LEMMA AcceptedStays ==
  OneAtATime /\ Inv /\ Serial /\ [Next]_vars => KeepsAccepted
<1> SUFFICES ASSUME Inv, Serial, [Next]_vars,
                    NEW a \in applications, NEW b \in applications', a.id = b.id, a.accepted
             PROVE  b.accepted
  BY DEF KeepsAccepted
<1>1. b \in applications => b.accepted
  BY DEF Inv, DataOK
<1>2. ASSUME NEW r \in Requests, HandleStatus(r) PROVE b.accepted
  <2>1. PICK c \in applications :
          b = IF c.id = req[r].app THEN [c EXCEPT !.accepted = req[r].accept] ELSE c
    BY <1>2 DEF HandleStatus
  <2>2. c.id = b.id
    BY <2>1 DEF Inv, DataOK, Application
  <2>3. c = a
    BY <2>2 DEF Inv, DataOK
  <2>4. a.id # req[r].app
    BY <1>2 DEF HandleStatus, At, Serial, Current
  <2> QED BY <2>1, <2>3, <2>4
<1>3. ASSUME NEW r \in Requests, ApplyInsert(r) PROVE b.accepted
  <2>1. a.id # nextApp
    BY PartyAssumption DEF Inv, DataOK, Application, AppId
  <2> QED BY <1>1, <1>3, <2>1 DEF ApplyInsert
<1>4. CASE applications' \subseteq applications
  BY <1>1, <1>4
<1>5. ASSUME NEW r \in Requests, Step(r), ~ HandleStatus(r), ~ ApplyInsert(r)
      PROVE  applications' \subseteq applications
  BY <1>5 DEF Step, StartApply, ApplyCheckDuplicate, StartHandle, HandleFindMember, HandleAdmit,
     StartCancel, CancelDelete, StartCreate, CreatePost, StartUpdate, UpdateFindAzit, UpdatePost,
     StartDelete, DeleteSnapshot, DeleteCommit, ErasePost, Reads, partyTables
<1>6. CASE MembersChange \/ Restart \/ UNCHANGED vars
  BY <1>4, <1>6 DEF MembersChange, Restart, vars, partyTables
<1> QED BY <1>2, <1>3, <1>4, <1>5, <1>6 DEF Next

\* What the transaction counted is what there is when it commits.
LEMMA AzitGoes ==
  OneAtATime /\ Inv /\ Serial /\ [Next]_vars => AzitGoesWithPost
<1> SUFFICES ASSUME Inv, Serial, [Next]_vars, NEW p \in DOMAIN posts \ DOMAIN posts'
             PROVE  (posts[p].azit \notin azits') <=> (\A o \in DOMAIN posts' : posts'[o].azit # posts[p].azit)
  BY DEF AzitGoesWithPost
<1>1. PICK r \in Requests : DeleteCommit(r)
  <2>1. ASSUME NEW r \in Requests, Step(r), ~ DeleteCommit(r) PROVE FALSE
    BY <2>1 DEF Step, StartApply, ApplyCheckDuplicate, ApplyInsert, StartHandle, HandleStatus,
       HandleFindMember, HandleAdmit, StartCancel, CancelDelete, StartCreate, CreatePost,
       StartUpdate, UpdateFindAzit, UpdatePost, StartDelete, DeleteSnapshot, SetPost, Reads,
       partyTables
  <2> QED BY <2>1 DEF Next, MembersChange, Restart, vars, partyTables
<1>2. PICK q : q = req[r]
  OBVIOUS
<1>3. q.op = "delete" /\ q.pc = "commit" /\ Current(q)
  BY <1>1, <1>2 DEF DeleteCommit, At, Serial
<1>4. /\ p = q.post /\ ErasePost(q.post)
      /\ q.others = {} => DeleteAzit(q.azit)
      /\ q.others # {} => UNCHANGED tableVars
  BY <1>1, <1>2 DEF DeleteCommit, ErasePost
<1>5. posts[p].azit = q.azit /\ q.others = PostsOf(q.azit) \ {p} /\ posts[p].azit \in azits
  BY <1>3, <1>4 DEF Current, Others, Inv, DataOK
<1>6. DOMAIN posts' = DOMAIN posts \ {p} /\ \A o \in DOMAIN posts' : posts'[o] = posts[o]
  BY <1>4 DEF ErasePost
<1>7. CASE q.others = {}
  BY <1>4, <1>5, <1>6, <1>7 DEF DeleteAzit, PostsOf
<1>8. CASE q.others # {}
  BY <1>4, <1>5, <1>6, <1>8 DEF tableVars, PostsOf
<1> QED BY <1>7, <1>8

\* The azit read with a post does not go before the post does, so it takes the applicant.
LEMMA AcceptedStayAdmitted ==
  ASSUME OneAtATime, MaxRestart = 0, Inv, Serial, AcceptedAdmitted, [Next]_vars
  PROVE  AcceptedAdmitted'
<1>o. \A r, s \in Requests : r = s
  BY DEF OneAtATime
<1> SUFFICES ASSUME NEW b \in applications', b.accepted
             PROVE  b.id \in admitted' \/ \E r \in Requests : req'[r].op = "handle" /\ req'[r].app = b.id
  BY DEF AcceptedAdmitted
<1>1. ASSUME b \in applications, admitted \subseteq admitted',
             NEW r \in Requests, req[r].op # "handle" \/ req[r].app # b.id
      PROVE  b.id \in admitted'
  BY <1>o, <1>1 DEF AcceptedAdmitted
<1>2. ASSUME NEW r \in Requests, HandleStatus(r)
      PROVE  b.id \in admitted' \/ (req'[r].op = "handle" /\ req'[r].app = b.id)
  <2>1. PICK c \in applications :
          b = IF c.id = req[r].app THEN [c EXCEPT !.accepted = req[r].accept] ELSE c
    BY <1>2 DEF HandleStatus
  <2>2. c \in Application /\ c.id = b.id /\ req[r] \in Request
    BY <2>1 DEF Inv, DataOK, Application
  <2>3. CASE c.id # req[r].app
    BY <1>1, <1>2, <2>1, <2>3 DEF HandleStatus
  <2>4. CASE c.id = req[r].app
    <3>1. req[r].accept /\ AppRow(req[r].app) # {}
      BY <2>1, <2>2, <2>4 DEF AppRow, Application
    <3>2. PICK a \in AppRow(req[r].app) : Become(r, [req[r] EXCEPT !.user = a.user, !.pc = "existing"])
      BY <1>2, <3>1 DEF HandleStatus
    <3>3. req[r].op = "handle" /\ req \in [Requests -> Request]
      BY <1>2 DEF HandleStatus, At, Inv
    <3> QED BY <2>2, <2>4, <3>2, <3>3 DEF Become, Request
  <2> QED BY <2>3, <2>4
<1>3. ASSUME NEW r \in Requests, HandleFindMember(r)
      PROVE  b.id \in admitted' \/ (req'[r].op = "handle" /\ req'[r].app = b.id)
  <2>1. b \in applications /\ admitted \subseteq admitted'
    BY <1>3 DEF HandleFindMember
  <2>2. CASE req[r].app # b.id
    BY <1>1, <2>1, <2>2
  <2>3. CASE req[r].app = b.id
    <3>1. CASE IsMember(req[r])
      BY <1>3, <2>3, <3>1 DEF HandleFindMember, IsMember
    <3>2. CASE ~ IsMember(req[r])
      <4>1. Become(r, [req[r] EXCEPT !.pc = "member"]) /\ req[r].op = "handle"
            /\ req \in [Requests -> Request]
        BY <1>3, <3>2 DEF HandleFindMember, Goto, At, Inv
      <4> QED BY <2>3, <4>1 DEF Become, Request
    <3> QED BY <3>1, <3>2
  <2> QED BY <2>2, <2>3
<1>4. ASSUME NEW r \in Requests, HandleAdmit(r) PROVE b.id \in admitted'
  <2>1. req[r].azit \in azits
    BY <1>4 DEF HandleAdmit, At, Serial, Current, Inv, DataOK
  <2>2. b \in applications /\ admitted' = admitted \union {req[r].app}
    BY <1>4, <2>1 DEF HandleAdmit
  <2> QED BY <1>1, <2>2
<1>5. ASSUME NEW r \in Requests,
             \/ StartApply(r) \/ ApplyCheckDuplicate(r) \/ ApplyInsert(r) \/ StartHandle(r)
             \/ StartCancel(r) \/ CancelDelete(r) \/ StartCreate(r) \/ CreatePost(r)
             \/ StartUpdate(r) \/ UpdateFindAzit(r) \/ UpdatePost(r)
             \/ StartDelete(r) \/ DeleteSnapshot(r) \/ DeleteCommit(r)
      PROVE  b.id \in admitted'
  <2>1. UNCHANGED admitted
    BY <1>5 DEF StartApply, ApplyCheckDuplicate, ApplyInsert, StartHandle, StartCancel, CancelDelete,
       StartCreate, CreatePost, StartUpdate, UpdateFindAzit, UpdatePost, StartDelete, DeleteSnapshot,
       DeleteCommit, Reads, partyTables
  <2>2. req[r].op # "handle"
    <3>1. req[r].op = "handle" => req[r].pc \in {"status", "existing", "member"}
      BY DEF Inv, SoundRequest, ApplicantNotHost, Handles
    <3> QED BY <1>5, <3>1 DEF StartApply, ApplyCheckDuplicate, ApplyInsert, StartHandle, StartCancel,
       CancelDelete, StartCreate, CreatePost, StartUpdate, UpdateFindAzit, UpdatePost, StartDelete,
       DeleteSnapshot, DeleteCommit, Begin, At
  <2>3. b \in applications
    <3>1. CASE ApplyInsert(r)
      <4> DEFINE a == [id |-> nextApp, user |-> req[r].user, post |-> req[r].post, accepted |-> FALSE]
      <4>1. b \in applications \/ b = a
        BY <3>1 DEF ApplyInsert
      <4>2. ~ a.accepted
        OBVIOUS
      <4> HIDE DEF a
      <4> QED BY <4>1, <4>2
    <3>2. CASE ~ ApplyInsert(r)
      BY <1>5, <3>2 DEF StartApply, ApplyCheckDuplicate, StartHandle, StartCancel, CancelDelete,
         StartCreate, CreatePost, StartUpdate, UpdateFindAzit, UpdatePost, StartDelete, DeleteSnapshot,
         DeleteCommit, ErasePost, Reads, partyTables
    <3> QED BY <3>1, <3>2
  <2> QED BY <1>1, <2>1, <2>2, <2>3
<1>6. CASE MembersChange \/ UNCHANGED vars
  BY <1>6 DEF MembersChange, vars, partyTables, AcceptedAdmitted
<1>7. ~ Restart
  BY DEF Restart, Inv, DataOK
<1> QED BY <1>2, <1>3, <1>4, <1>5, <1>6, <1>7 DEF Next, Step

\* handleApplication, "already accepted": with one request at a time acceptance is not
\* taken back, by a refusal or by an application that has the id of another one.
THEOREM AcceptanceIsFinal == ASSUME OneAtATime PROVE Spec => [][KeepsAccepted]_vars
BY AcceptedStays, SerialInvariance, PTL DEF Spec

\* deleteParty, "delete the party and tidy up the azit": with one request at a time the azit
\* of a deleted post goes with it exactly if no other post is left.
THEOREM AzitGoesWithItsLastPost == ASSUME OneAtATime PROVE Spec => [][AzitGoesWithPost]_vars
BY AzitGoes, SerialInvariance, PTL DEF Spec

\* handleApplication: without restarts and with one request at a time whoever is accepted
\* has been found or made a member, unless the request is about to do so.
THEOREM AcceptedAreAdmitted ==
  ASSUME OneAtATime, MaxRestart = 0 PROVE Spec => []AcceptedAdmitted
<1>1. Init => AcceptedAdmitted
  BY DEF Init, AcceptedAdmitted
<1> QED BY <1>1, AcceptedStayAdmitted, SerialInvariance, PTL DEF Spec
=============================================================================

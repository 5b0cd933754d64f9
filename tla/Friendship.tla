----------------------------- MODULE Friendship -----------------------------
(***************************************************************************)
(* Friend requests and friendships: FriendService and FriendRepository.    *)
(*                                                                         *)
(* Every operation reads, then writes one row, in two statements with an   *)
(* await in between.  So a request is either idle or about to write; a     *)
(* request that returns after its reads has no effect and does not appear. *)
(* Users are never deleted, so validateUserExists only shuts out callers   *)
(* that are not in Users.                                                  *)
(***************************************************************************)
EXTENDS Naturals, FiniteSets

CONSTANTS
  Users,
  Requests, \* concurrent requests in flight
  MaxRow,   \* bound: friends ids handed out
  None      \* absent value

ASSUME FriendshipAssumption ==
  /\ IsFiniteSet(Requests) /\ Requests # {}
  /\ MaxRow \in Nat
  /\ None \notin Users /\ None \notin Nat

VARIABLES
  friends, \* rows of friends: a function on the ids that exist
  nextId,  \* AUTO_INCREMENT counter of friends
  req      \* local state of every request: what it is about to write

vars == <<friends, nextId, req>>

FriendId == 1..MaxRow
Friend   == [from: Users, to: Users, accepted: BOOLEAN]
Request  == [op: {"idle", "request", "accept", "delete"},
             user: Users \union {None},   \* the caller
             to: Users \union {None},     \* dto.toUserId
             id: FriendId \union {None}]  \* requestId or friendId
Idle     == [op |-> "idle", user |-> None, to |-> None, id |-> None]

TypeOK ==
  /\ DOMAIN friends \subseteq FriendId
  /\ \A i \in DOMAIN friends : friends[i] \in Friend
  /\ nextId \in 1..MaxRow + 1
  /\ req \in [Requests -> Request]

Init ==
  /\ friends = [i \in {} |-> None]
  /\ nextId = 1
  /\ req = [r \in Requests |-> Idle]
-----------------------------------------------------------------------------
Begin(r, q) == req[r] = Idle /\ req' = [req EXCEPT ![r] = q]
Return(r)   == req' = [req EXCEPT ![r] = Idle]
Reads       == UNCHANGED <<friends, nextId>>

SamePair(a, b, u, v) == (a = u /\ b = v) \/ (a = v /\ b = u)
Between(u, v) == {i \in DOMAIN friends : SamePair(friends[i].from, friends[i].to, u, v)}

\* Mutant of Unrelated: only requests of the caller are looked up.
UnrequestedByCaller(u, v) ==
  \A i \in DOMAIN friends : ~ (friends[i].from = u /\ friends[i].to = v)

\* findExistingRelation: in either direction and whatever its status.
Unrelated(u, v) == Between(u, v) = {}

\* friendRequest; nothing keeps a user from asking itself.
StartRequest(r) ==
  /\ \E u, v \in Users :
       /\ Unrelated(u, v)
       /\ Begin(r, [Idle EXCEPT !.op = "request", !.user = u, !.to = v])
  /\ Reads

InsertRequest(r) ==
  /\ req[r].op = "request"
  /\ nextId <= MaxRow
  /\ friends' = [i \in DOMAIN friends \union {nextId} |->
                   IF i = nextId THEN [from |-> req[r].user, to |-> req[r].to, accepted |-> FALSE]
                                 ELSE friends[i]]
  /\ nextId' = nextId + 1
  /\ Return(r)

\* Mutant of MayAccept: the caller is not compared with the receiver.
MayAcceptAny(u, f) == ~ f.accepted

\* validateIsReceivedRequest, validateIsPendingRequest.
MayAccept(u, f) == f.to = u /\ ~ f.accepted

StartAccept(r) ==
  /\ \E u \in Users, i \in DOMAIN friends :
       /\ MayAccept(u, friends[i])
       /\ Begin(r, [Idle EXCEPT !.op = "accept", !.user = u, !.id = i])
  /\ Reads

\* Mutant of Accept: an upsert, which makes the row anew if it has gone.
AcceptUpsert(r) ==
  /\ req[r].op = "accept"
  /\ friends' = [i \in DOMAIN friends \union {req[r].id} |->
                   IF i = req[r].id THEN [from |-> None, to |-> req[r].user, accepted |-> TRUE]
                                    ELSE friends[i]]
  /\ nextId' = nextId
  /\ Return(r)

\* prisma.friend.update fails if the row has gone.
Accept(r) ==
  /\ req[r].op = "accept"
  /\ IF req[r].id \in DOMAIN friends
       THEN friends' = [friends EXCEPT ![req[r].id].accepted = TRUE]
       ELSE friends' = friends
  /\ nextId' = nextId
  /\ Return(r)

\* deleteFriend looks the row up by its id only.
StartDelete(r) ==
  /\ \E u \in Users, i \in DOMAIN friends :
       Begin(r, [Idle EXCEPT !.op = "delete", !.user = u, !.id = i])
  /\ Reads

\* prisma.friend.delete fails if the row has gone.
Delete(r) ==
  /\ req[r].op = "delete"
  /\ friends' = [i \in DOMAIN friends \ {req[r].id} |-> friends[i]]
  /\ nextId' = nextId
  /\ Return(r)

\* The process dies: requests in flight write nothing.
Restart ==
  /\ \E r \in Requests : req[r] # Idle
  /\ req' = [r \in Requests |-> Idle]
  /\ Reads

Step(r) ==
  \/ StartRequest(r) \/ InsertRequest(r)
  \/ StartAccept(r) \/ Accept(r)
  \/ StartDelete(r) \/ Delete(r)

Next == Restart \/ \E r \in Requests : Step(r)

Spec == Init /\ [][Next]_vars
-----------------------------------------------------------------------------
(* The lists: one item [request, user] per row.                            *)

\* Mutant of Target: the receiver, whoever asks.
Receiver(u, f) == f.to

\* mapFriendToItem: the other user of the row.
Target(u, f) == IF f.from = u THEN f.to ELSE f.from

Items(u, rows) == {[request |-> i, user |-> Target(u, friends[i])] : i \in rows}
Names(items)   == {x.user : x \in items}

FriendRows(u) ==
  {i \in DOMAIN friends : friends[i].accepted /\ u \in {friends[i].from, friends[i].to}}

FriendList(u)   == Items(u, FriendRows(u))
SentList(u)     == Items(u, {i \in DOMAIN friends : friends[i].from = u})
ReceivedList(u) == Items(u, {i \in DOMAIN friends : friends[i].to = u /\ ~ friends[i].accepted})

\* searchFriendByNickname, for a text found in the nicknames of the users in M: the
\* nickname that contains it may be the caller's own.
Search(u, M) ==
  Items(u, {i \in FriendRows(u) : friends[i].from \in M \/ friends[i].to \in M})
-----------------------------------------------------------------------------
\* friend.service.ts:92 wants one row per pair.  Look-then-insert lets requests that
\* overlap, crossing ones too, make more: as many as there are requests in flight at
\* once, and never another one after that; with one request at a time the row is unique.
Requesting(u, v) ==
  {r \in Requests : req[r].op = "request" /\ SamePair(req[r].user, req[r].to, u, v)}

BoundedDuplicates ==
  \A u, v \in Users :
    Cardinality(Between(u, v)) + Cardinality(Requesting(u, v)) <= Cardinality(Requests)

\* A friendship is agreed: a row is accepted only by the user it was sent to, although
\* receiver and status are read an await before the write, and never made accepted.
FriendshipAgreed ==
  [][\A i \in DOMAIN friends' : friends'[i].accepted =>
       /\ i \in DOMAIN friends
       /\ \/ friends[i].accepted
          \/ \E r \in Requests : /\ req[r].op = "accept"
                                 /\ req[r].id = i
                                 /\ req[r].user = friends[i].to]_vars

\* The lists of two users agree: friends name each other, a request received is one
\* the other has sent, only friends are found by a search, and all with the nickname.
ListsAgree ==
  \A u, v \in Users :
    /\ v \in Names(FriendList(u)) <=> u \in Names(FriendList(v))
    /\ v \in Names(ReceivedList(u)) => u \in Names(SentList(v))
    /\ \A M \in SUBSET Users :
         /\ Search(u, M) \subseteq FriendList(u)
         /\ v \in M /\ v \in Names(FriendList(u)) => v \in Names(Search(u, M))
=============================================================================

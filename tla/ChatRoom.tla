------------------------------ MODULE ChatRoom ------------------------------
(***************************************************************************)
(* Chat rooms of an azit: ChatService over its repository, and the socket  *)
(* handler that subscribes connections to rooms and broadcasts messages.   *)
(*                                                                         *)
(* A request checks the room and the membership of its caller, then reads  *)
(* or writes, with an await in between.  A message is stored by one await  *)
(* and broadcast after it; a client subscribes and reads the history in    *)
(* two requests of its own.                                                *)
(***************************************************************************)
EXTENDS Naturals, FiniteSets

CONSTANTS
  Users,
  Azits,
  Sockets,   \* bound: ids of the sockets that follow rooms; socket.io never reuses one
  Requests,  \* concurrent requests in flight
  MaxMember, \* bound: member ids handed out
  MaxRoom,   \* bound: room ids handed out
  MaxChat,   \* bound: message ids handed out
  None       \* absent value

VARIABLES
  standing, \* ids of azits that have not been deleted
  members,  \* rows of azit_users: a function on the ids that exist
  rooms,    \* rows of chat_rooms: a function on the ids that exist
  joined,   \* rows of chat_room_member: pairs <<member, room>>
  chats,    \* rows of chats: a function on the ids that exist
  nextMember, nextRoom, nextChat,
  sockets,  \* the user of every socket, None before it connects, "closed" after
  subs,     \* socket.io rooms: pairs <<socket, room>>
  req,      \* local state of every request
  seen,     \* history: messages the client of a socket was shown since it subscribed
  caughtUp  \* history: pairs <<socket, room>> that have read the history since they subscribed

vars == <<standing, members, rooms, joined, chats, nextMember, nextRoom, nextChat,
          sockets, subs, req, seen, caughtUp>>

MemberId == 1..MaxMember
RoomId   == 1..MaxRoom
ChatId   == 1..MaxChat
Member   == [user: Users, azit: Azits]
Room     == [azit: Azits, private: BOOLEAN, creator: MemberId]  \* creator: its CREATOR row, also when that is gone
Chat     == [room: RoomId, member: MemberId]

Ops == {"idle", "join", "send", "read", "create", "update", "delete", "invite"}
Pcs == {"idle", "member", "private", "creator", "invited", "act", "emit"}
Request ==
  [op: Ops, pc: Pcs, user: Users \union {None}, socket: Sockets \union {None},
   room: RoomId \union {None},
   azit: Azits \union {None},         \* of the room read
   private: BOOLEAN,                  \* of the room read
   member: MemberId \union {None},    \* the membership of the caller
   invites: SUBSET MemberId,
   chat: ChatId \union {None}]        \* the message stored

Idle == [op |-> "idle", pc |-> "idle", user |-> None, socket |-> None, room |-> None,
         azit |-> None, private |-> FALSE, member |-> None, invites |-> {}, chat |-> None]

TypeOK ==
  /\ standing \subseteq Azits
  /\ DOMAIN members \subseteq MemberId /\ members \in [DOMAIN members -> Member]
  /\ DOMAIN rooms \subseteq RoomId /\ rooms \in [DOMAIN rooms -> Room]
  /\ joined \subseteq MemberId \X RoomId
  /\ DOMAIN chats \subseteq ChatId /\ chats \in [DOMAIN chats -> Chat]
  /\ nextMember \in 1..MaxMember + 1 /\ nextRoom \in 1..MaxRoom + 1 /\ nextChat \in 1..MaxChat + 1
  /\ sockets \in [Sockets -> Users \union {None, "closed"}]
  /\ subs \subseteq Sockets \X RoomId /\ caughtUp \subseteq subs
  /\ req \in [Requests -> Request]
  /\ seen \in [Sockets -> SUBSET ChatId]

Init ==
  /\ standing = Azits
  /\ members = [m \in {} |-> None] /\ rooms = [k \in {} |-> None]
  /\ joined = {} /\ chats = [c \in {} |-> None]
  /\ nextMember = 1 /\ nextRoom = 1 /\ nextChat = 1
  /\ sockets = [s \in Sockets |-> None] /\ subs = {}
  /\ req = [r \in Requests |-> Idle]
  /\ seen = [s \in Sockets |-> {}] /\ caughtUp = {}
-----------------------------------------------------------------------------
Become(r, q) == req' = [req EXCEPT ![r] = q]
Return(r)    == Become(r, Idle)
Begin(r, q)  == req[r] = Idle /\ Become(r, q)
At(r, op, pc) == req[r].op = op /\ req[r].pc = pc

database == <<standing, members, rooms, joined, chats, nextMember, nextRoom, nextChat>>
clients  == <<sockets, subs, seen, caughtUp>>
Reads    == UNCHANGED <<database, clients>>

Live(s) == sockets[s] \in Users
MemberOf(u, a) == {m \in DOMAIN members : members[m] = [user |-> u, azit |-> a]}

\* isRoomCreator and isRoomMember: through the membership in the room's own azit, so
\* that a member of another azit who was invited stays outside.  Their three reads are
\* one step: the azit of a room never changes and a member row takes its rows along.
IsRoomMember(k, u)  == \E m \in MemberOf(u, rooms[k].azit) : <<m, k>> \in joined
IsRoomCreator(k, u) == \E m \in MemberOf(u, rooms[k].azit) : <<m, k>> \in joined /\ rooms[k].creator = m
-----------------------------------------------------------------------------
(* Every request but create looks the room up first; what it asks of a     *)
(* room that is gone changes nothing and is left out.                      *)

RoomRead(op, u, k) ==
  [Idle EXCEPT !.op = op, !.pc = "member", !.user = u, !.room = k,
               !.azit = rooms[k].azit, !.private = rooms[k].private]

FindRoom(r, op) ==
  /\ \E u \in Users, k \in DOMAIN rooms : Begin(r, RoomRead(op, u, k))
  /\ Reads

\* Socket events: the user is the one the connection was authenticated as.
FindRoomOf(r, op) ==
  /\ \E s \in Sockets, k \in DOMAIN rooms :
       Live(s) /\ Begin(r, [RoomRead(op, sockets[s], k) EXCEPT !.socket = s])
  /\ Reads

handleJoinRoom(r)    == FindRoomOf(r, "join")
\* From a connection that need not be one of Sockets.
handleSendMessage(r) == FindRoom(r, "send")

\* A client asks for the history of a room, from the newest page back.
getMessages(r)    == FindRoomOf(r, "read")
updateChatRoom(r) == FindRoom(r, "update")
deleteChatRoom(r) == FindRoom(r, "delete")
\* The members to invite exist or have existed.
inviteToChatRoom(r) ==
  /\ \E u \in Users, k \in DOMAIN rooms, ms \in SUBSET (1..nextMember - 1) \ {{}} :
       Begin(r, [RoomRead("invite", u, k) EXCEPT !.invites = ms])
  /\ Reads

\* What comes after the membership: a private room asks for its members when it is
\* read, its creator when it is changed; joining and sending ask for nothing more.
AfterMember(q) ==
  CASE q.op = "read" /\ q.private        -> "private"
    [] q.op \in {"update", "delete"}     -> "creator"
    [] q.op = "invite" /\ q.private      -> "creator"
    [] q.op = "invite" /\ ~ q.private    -> "idle"
    [] OTHER                             -> "act"

\* What a request no longer needs is forgotten.
Forget(q) == [q EXCEPT !.azit = None, !.private = FALSE,
                       !.user = IF q.pc = "act" THEN None ELSE @,
                       !.member = IF q.op \in {"join", "read"} THEN None ELSE @]

FindMember(r) ==
  LET q == req[r] IN
  /\ q.pc = "member"
  /\ IF MemberOf(q.user, q.azit) = {} \/ AfterMember(q) = "idle" THEN Return(r)
     ELSE \E m \in MemberOf(q.user, q.azit) :
            Become(r, Forget([q EXCEPT !.pc = AfterMember(q), !.member = m]))
  /\ Reads

Check(r, pc, allowed, next) ==
  /\ req[r].pc = pc
  /\ IF allowed THEN Become(r, Forget([req[r] EXCEPT !.pc = next])) ELSE Return(r)
  /\ Reads

CheckPrivate(r) ==
  Check(r, "private", req[r].room \in DOMAIN rooms /\ IsRoomMember(req[r].room, req[r].user), "act")

\* Mutant of MayChange: any member of the room.
MayChangeMember(k, u) == k \in DOMAIN rooms /\ IsRoomMember(k, u)

MayChange(k, u) == k \in DOMAIN rooms /\ IsRoomCreator(k, u)

CheckCreator(r) ==
  Check(r, "creator", MayChange(req[r].room, req[r].user),
        IF req[r].op = "invite" THEN "invited" ELSE "act")

\* validateMembersNotInRoom
CheckInvited(r) ==
  Check(r, "invited", \A m \in req[r].invites : <<m, req[r].room>> \notin joined, "act")
-----------------------------------------------------------------------------
(* createChatRoom, updateChatRoom, deleteChatRoom, inviteToChatRoom *)

createChatRoom(r) ==
  /\ \E m \in DOMAIN members, private \in BOOLEAN :
       Begin(r, [Idle EXCEPT !.op = "create", !.pc = "act", !.azit = members[m].azit,
                             !.private = private, !.member = m])
  /\ Reads

\* The room and the row of its creator in one nested insert; it fails when the member has gone.
InsertRoom(r) ==
  LET q == req[r] IN
  /\ At(r, "create", "act") /\ nextRoom <= MaxRoom
  /\ IF q.member \in DOMAIN members
       THEN /\ rooms' = [k \in DOMAIN rooms \union {nextRoom} |->
                 IF k = nextRoom THEN [azit |-> q.azit, private |-> q.private, creator |-> q.member]
                 ELSE rooms[k]]
            /\ joined' = joined \union {<<q.member, nextRoom>>}
            /\ nextRoom' = nextRoom + 1
       ELSE UNCHANGED <<rooms, joined, nextRoom>>
  /\ Return(r)
  /\ UNCHANGED <<standing, members, chats, nextMember, nextChat, clients>>

UpdateRoom(r) ==
  /\ At(r, "update", "act")
  /\ \E private \in BOOLEAN :
       rooms' = IF req[r].room \in DOMAIN rooms THEN [rooms EXCEPT ![req[r].room].private = private]
                ELSE rooms
  /\ Return(r)
  /\ UNCHANGED <<standing, members, joined, chats, nextMember, nextRoom, nextChat, clients>>

\* Members ms and rooms ks go, and with either their rows and messages; the sockets stay
\* in the socket.io room.
Erase(ms, ks) ==
  /\ members' = [m \in DOMAIN members \ ms |-> members[m]]
  /\ rooms' = [k \in DOMAIN rooms \ ks |-> rooms[k]]
  /\ joined' = {x \in joined : x[1] \notin ms /\ x[2] \notin ks}
  /\ chats' = [c \in {d \in DOMAIN chats : chats[d].member \notin ms /\ chats[d].room \notin ks} |-> chats[c]]
  /\ UNCHANGED <<nextMember, nextRoom, nextChat, clients>>

DeleteRoom(r) ==
  /\ At(r, "delete", "act")
  /\ Erase({}, {req[r].room})
  /\ Return(r)
  /\ UNCHANGED standing

\* createMany: all rows or none; whose azit a member is of is not asked.
InsertInvites(r) ==
  LET q == req[r]
      new == {<<m, q.room>> : m \in q.invites} IN
  /\ At(r, "invite", "act")
  /\ joined' = IF /\ q.room \in DOMAIN rooms /\ q.invites \subseteq DOMAIN members
                  /\ new \intersect joined = {}
               THEN joined \union new ELSE joined
  /\ Return(r)
  /\ UNCHANGED <<standing, members, rooms, chats, nextMember, nextRoom, nextChat, clients>>
-----------------------------------------------------------------------------
(* joinRoom, leaveRoom, sendMessage, getMessages *)

\* socket.join after the checks; a socket that has closed meanwhile reads nothing.
\* Joining again changes nothing.
Subscribe(r) ==
  LET x == <<req[r].socket, req[r].room>> IN
  /\ At(r, "join", "act")
  /\ IF Live(x[1]) THEN subs' = subs \union {x} ELSE UNCHANGED subs
  /\ Return(r)
  /\ UNCHANGED <<database, sockets, seen, caughtUp>>

ChatsOf(k) == {c \in DOMAIN chats : chats[c].room = k}

\* The client forgets the room.
Unsubscribe(x) ==
  /\ subs' = subs \ {x} /\ caughtUp' = caughtUp \ {x}
  /\ seen' = [seen EXCEPT ![x[1]] = @ \ ChatsOf(x[2])]

handleLeaveRoom(s, k) ==
  /\ <<s, k>> \in subs /\ Unsubscribe(<<s, k>>)
  /\ UNCHANGED <<database, sockets, req>>

\* createChatWithMedias: fails when the room or the member has gone.
InsertChat(r) ==
  LET q == req[r] IN
  /\ At(r, "send", "act") /\ nextChat <= MaxChat
  /\ IF q.room \in DOMAIN rooms /\ q.member \in DOMAIN members
       THEN /\ chats' = [c \in DOMAIN chats \union {nextChat} |->
                 IF c = nextChat THEN [room |-> q.room, member |-> q.member] ELSE chats[c]]
            /\ nextChat' = nextChat + 1
            /\ Become(r, [q EXCEPT !.pc = "emit", !.chat = nextChat])
       ELSE Return(r) /\ UNCHANGED <<chats, nextChat>>
  /\ UNCHANGED <<standing, members, rooms, joined, nextMember, nextRoom, clients>>

\* Mutant of Audience: sockets of room members only, although others may join.
AudienceMembers(q) ==
  {s \in Sockets : <<s, q.room>> \in subs
                    /\ q.room \in DOMAIN rooms /\ IsRoomMember(q.room, sockets[s])}

\* io.to(room): every socket of the room, the sender's too.
Audience(q) == {s \in Sockets : <<s, q.room>> \in subs}

Broadcast(r) ==
  /\ At(r, "send", "emit")
  /\ seen' = [s \in Sockets |-> IF s \in Audience(req[r]) THEN seen[s] \union {req[r].chat} ELSE seen[s]]
  /\ Return(r)
  /\ UNCHANGED <<database, sockets, subs, caughtUp>>

\* listChats; a client that is subscribed is shown the messages and goes on with newMessage.
ListChats(r) ==
  LET s == req[r].socket
      k == req[r].room IN
  /\ At(r, "read", "act")
  /\ IF <<s, k>> \in subs
       THEN seen' = [seen EXCEPT ![s] = @ \union ChatsOf(k)] /\ caughtUp' = caughtUp \union {<<s, k>>}
       ELSE UNCHANGED <<seen, caughtUp>>
  /\ Return(r)
  /\ UNCHANGED <<database, sockets, subs>>
-----------------------------------------------------------------------------
(* Connections and the other services *)

Connect(s) ==
  /\ sockets[s] = None
  /\ \E u \in Users : sockets' = [sockets EXCEPT ![s] = u]
  /\ UNCHANGED <<database, subs, seen, caughtUp, req>>

Close(ss) ==
  /\ sockets' = [s \in Sockets |-> IF s \in ss THEN "closed" ELSE sockets[s]]
  /\ subs' = {x \in subs : x[1] \notin ss} /\ caughtUp' = {x \in caughtUp : x[1] \notin ss}
  /\ seen' = [s \in Sockets |-> IF s \in ss THEN {} ELSE seen[s]]

Disconnect(s) == Live(s) /\ Close({s}) /\ UNCHANGED <<database, req>>

\* The process dies: connections close and requests in flight write and send nothing.
Restart ==
  /\ \E r \in Requests : req[r] # Idle
  /\ Close({s \in Sockets : Live(s)})
  /\ req' = [r \in Requests |-> Idle]
  /\ UNCHANGED database

\* A user joins an azit, or leaves it with everything of the member row; sockets stay.
JoinAzit ==
  /\ nextMember <= MaxMember /\ nextMember' = nextMember + 1
  /\ \E u \in Users, a \in standing :
       /\ MemberOf(u, a) = {}
       /\ members' = [m \in DOMAIN members \union {nextMember} |->
                        IF m = nextMember THEN [user |-> u, azit |-> a] ELSE members[m]]
  /\ UNCHANGED <<standing, rooms, joined, chats, nextRoom, nextChat, clients, req>>

LeaveAzit == (\E m \in DOMAIN members : Erase({m}, {})) /\ UNCHANGED <<standing, req>>

\* Its host deletes an azit, or somebody the last party post for it: everything in it goes.
DeleteAzit ==
  /\ \E a \in standing :
       /\ standing' = standing \ {a}
       /\ Erase({m \in DOMAIN members : members[m].azit = a}, {k \in DOMAIN rooms : rooms[k].azit = a})
  /\ UNCHANGED req

Step(r) ==
  \/ handleJoinRoom(r) \/ handleSendMessage(r) \/ getMessages(r)
  \/ createChatRoom(r) \/ updateChatRoom(r) \/ deleteChatRoom(r) \/ inviteToChatRoom(r)
  \/ FindMember(r) \/ CheckPrivate(r) \/ CheckCreator(r) \/ CheckInvited(r)
  \/ InsertRoom(r) \/ UpdateRoom(r) \/ DeleteRoom(r) \/ InsertInvites(r)
  \/ Subscribe(r) \/ InsertChat(r) \/ Broadcast(r) \/ ListChats(r)

Next ==
  \/ \E r \in Requests : Step(r)
  \/ \E s \in Sockets : Connect(s) \/ Disconnect(s) \/ \E k \in RoomId : handleLeaveRoom(s, k)
  \/ JoinAzit \/ LeaveAzit \/ DeleteAzit \/ Restart

Spec == Init /\ [][Next]_vars
-----------------------------------------------------------------------------
(* Properties *)

\* A client that subscribed to a room and then read its history misses no
\* message, whatever is sent meanwhile: what is stored is in the history it
\* read, was broadcast to it, or is about to be.
FollowersMissNothing ==
  \A x \in caughtUp : \A c \in ChatsOf(x[2]) :
    c \in seen[x[1]] \/ \E r \in Requests : At(r, "send", "emit") /\ req[r].chat = c

\* A room is changed, deleted or opened to others only by the member who
\* created it, although the role is read an await before the write.  A room
\* does not change because somebody leaves the azit; it goes with its azit, at
\* the hands of whoever deletes that.
ByCreator ==
  \A k \in DOMAIN rooms :
    k \notin DOMAIN rooms' \/ rooms'[k] # rooms[k] \/ (\E m \in MemberId : <<m, k>> \in joined' \ joined)
    => \/ \E r \in Requests : /\ req[r].room = k /\ req[r].member = rooms[k].creator
                              /\ req[r].op \in {"update", "delete", "invite"}
       \/ k \notin DOMAIN rooms' /\ rooms[k].azit \in standing \ standing'
ChangedByCreator == [][ByCreator]_vars
=============================================================================

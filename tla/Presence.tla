------------------------------ MODULE Presence ------------------------------
(***************************************************************************)
(* Online presence: PresenceHandler and PresenceService, on socket.io      *)
(* connections and two kinds of Redis keys.                                *)
(*                                                                         *)
(*   presence:user:<id>  the socket ids of a user        (variable keys)   *)
(*   presence:online     the users shown as online       (variable online) *)
(*                                                                         *)
(* Every socket event starts a handler, a chain of Redis commands each     *)
(* awaited before the next is sent; the handlers of different events are   *)
(* not serialised.  The process has one Redis connection, which executes   *)
(* commands and delivers replies in the order they were sent.  So a        *)
(* command takes effect here when it is sent, and the handlers wait for    *)
(* their replies in one queue.                                             *)
(***************************************************************************)
EXTENDS Naturals, FiniteSets, Sequences

CONSTANTS
  Users,
  Sockets,     \* bound: socket ids; socket.io never reuses one
  MaxHandlers, \* bound: handlers of one user in flight at once
  MaxRestart,  \* bound: restarts of the process
  None         \* absent value

ASSUME PresenceAssumption ==
  /\ IsFiniteSet(Sockets)
  /\ MaxHandlers \in Nat /\ MaxRestart \in Nat
  /\ None \notin Users

VARIABLES
  owner,     \* user of every socket id handed out
  live,      \* connected sockets
  keys,      \* Redis: socket ids of every user
  online,    \* Redis: users that are online
  awaiting,  \* handlers waiting for a reply of Redis, in the order of their commands
  notifying, \* handlers waiting for the friend list from MySQL
  shown,     \* last event friends of a user received: friendOnline or friendOffline
  restarts,  \* restarts so far
  cut        \* ghost: users a restart found connected, or with a handler running

redis == <<keys, online>>
vars  == <<owner, live, redis, awaiting, notifying, shown, restarts, cut>>

Event   == {"friendOnline", "friendOffline"}
\* sent: the command that is awaited; n: the answer of SCARD.
Handler == [sock: Sockets, n: Nat,
            sent: {"sAdd", "sCard", "sAddOnline", "sRem", "sCardLast", "del", "sRemOnline"}]

TypeOK ==
  /\ owner \in [Sockets -> Users \union {None}]
  /\ live \subseteq {s \in Sockets : owner[s] # None}
  /\ keys \in [Users -> SUBSET Sockets]
  /\ online \subseteq Users
  /\ awaiting \in Seq(Handler)
  /\ \A i \in 1..Len(awaiting) : owner[awaiting[i].sock] # None
  /\ notifying \subseteq [sock: Sockets, event: Event]
  /\ shown \in [Users -> Event]
  /\ restarts \in 0..MaxRestart
  /\ cut \subseteq Users

Init ==
  /\ owner = [s \in Sockets |-> None]
  /\ live = {}
  /\ keys = [u \in Users |-> {}]
  /\ online = {}
  /\ awaiting = <<>>
  /\ notifying = {}
  /\ shown = [u \in Users |-> "friendOffline"]
  /\ restarts = 0
  /\ cut = {}
-----------------------------------------------------------------------------
SocketsOf(u) == {s \in live : owner[s] = u}
InFlight(u)  ==
  Cardinality({i \in 1..Len(awaiting) : owner[awaiting[i].sock] = u})
    + Cardinality({t \in notifying : owner[t.sock] = u})
Quiet(u) ==
  /\ \A i \in 1..Len(awaiting) : owner[awaiting[i].sock] # u
  /\ \A t \in notifying : owner[t.sock] # u

\* 'connection', after the token was verified: handleConnect and register up to
\* the first await.
Connect(s, u) ==
  /\ owner[s] = None
  /\ InFlight(u) < MaxHandlers
  /\ owner' = [owner EXCEPT ![s] = u]
  /\ live' = live \union {s}
  /\ keys' = [keys EXCEPT ![u] = @ \union {s}]
  /\ awaiting' = Append(awaiting, [sock |-> s, n |-> 0, sent |-> "sAdd"])
  /\ UNCHANGED <<online, notifying, shown, restarts, cut>>

\* Mutant of Disconnect: the socket id is not removed.
DisconnectOnly(s) ==
  /\ s \in live
  /\ InFlight(owner[s]) < MaxHandlers
  /\ live' = live \ {s}
  /\ awaiting' = Append(awaiting, [sock |-> s, n |-> 0, sent |-> "sRem"])
  /\ UNCHANGED <<owner, redis, notifying, shown, restarts, cut>>

\* 'disconnect': handleDisconnect and unregister up to the first await.
Disconnect(s) ==
  LET u == owner[s] IN
  /\ s \in live
  /\ InFlight(u) < MaxHandlers
  /\ live' = live \ {s}
  /\ keys' = [keys EXCEPT ![u] = @ \ {s}]
  /\ awaiting' = Append(awaiting, [sock |-> s, n |-> 0, sent |-> "sRem"])
  /\ UNCHANGED <<owner, online, notifying, shown, restarts, cut>>

\* The reply of Redis to the oldest command resumes its handler.
Resumes(h, sent) == awaiting # <<>> /\ h = Head(awaiting) /\ h.sent = sent
Send(h, command) ==
  awaiting' = Append(Tail(awaiting), [h EXCEPT !.sent = command])
SendCard(h, command) ==
  awaiting' = Append(Tail(awaiting),
                     [h EXCEPT !.sent = command, !.n = Cardinality(keys[owner[h.sock]])])
Leave == awaiting' = Tail(awaiting)
Rest  == UNCHANGED <<owner, live, shown, restarts, cut>>

Count(h) ==
  /\ \/ Resumes(h, "sAdd") /\ SendCard(h, "sCard")
     \/ Resumes(h, "sRem") /\ SendCard(h, "sCardLast")
  /\ UNCHANGED <<redis, notifying>> /\ Rest

\* Mutant of MarkOnline: the test is for no socket where one was just added.
MarkOnlineIfNone(h) ==
  /\ Resumes(h, "sCard")
  /\ IF h.n = 0 THEN online' = online \union {owner[h.sock]} /\ Send(h, "sAddOnline")
                ELSE online' = online /\ Leave
  /\ UNCHANGED <<keys, notifying>> /\ Rest

\* register: isFirst.
MarkOnline(h) ==
  /\ Resumes(h, "sCard")
  /\ IF h.n = 1 THEN online' = online \union {owner[h.sock]} /\ Send(h, "sAddOnline")
                ELSE online' = online /\ Leave
  /\ UNCHANGED <<keys, notifying>> /\ Rest

\* Mutant of DropKey: one socket counts as the last.
DropKeyAtOne(h) ==
  /\ Resumes(h, "sCardLast")
  /\ IF h.n = 1 THEN keys' = [keys EXCEPT ![owner[h.sock]] = {}] /\ Send(h, "del")
                ELSE keys' = keys /\ Leave
  /\ UNCHANGED <<online, notifying>> /\ Rest

\* unregister: isLast.
DropKey(h) ==
  /\ Resumes(h, "sCardLast")
  /\ IF h.n = 0 THEN keys' = [keys EXCEPT ![owner[h.sock]] = {}] /\ Send(h, "del")
                ELSE keys' = keys /\ Leave
  /\ UNCHANGED <<online, notifying>> /\ Rest

MarkOffline(h) ==
  /\ Resumes(h, "del")
  /\ online' = online \ {owner[h.sock]}
  /\ Send(h, "sRemOnline")
  /\ UNCHANGED <<keys, notifying>> /\ Rest

\* Mutant of AskFriends: both handlers announce the same event.
AskFriendsOnline(h) ==
  /\ Resumes(h, "sAddOnline") \/ Resumes(h, "sRemOnline")
  /\ notifying' = notifying \union {[sock |-> h.sock, event |-> "friendOnline"]}
  /\ Leave
  /\ UNCHANGED redis /\ Rest

\* notifyFriends asks MySQL for the friends, outside the order of Redis ...
AskFriends(h) ==
  /\ \/ Resumes(h, "sAddOnline")
        /\ notifying' = notifying \union {[sock |-> h.sock, event |-> "friendOnline"]}
     \/ Resumes(h, "sRemOnline")
        /\ notifying' = notifying \union {[sock |-> h.sock, event |-> "friendOffline"]}
  /\ Leave
  /\ UNCHANGED redis /\ Rest

\* ... and emits the event to the room of each of them.
Notify(t) ==
  /\ t \in notifying
  /\ shown' = [shown EXCEPT ![owner[t.sock]] = t.event]
  /\ notifying' = notifying \ {t}
  /\ UNCHANGED <<owner, live, redis, awaiting, restarts, cut>>

\* The process dies (an unhandled rejection of a handler ends it, too) and is
\* started again: its sockets and handlers are gone, Redis is as it was.
Restart ==
  /\ restarts < MaxRestart
  /\ restarts' = restarts + 1
  /\ cut' = cut \union {u \in Users : SocketsOf(u) # {} \/ ~Quiet(u)}
  /\ live' = {}
  /\ awaiting' = <<>>
  /\ notifying' = {}
  /\ UNCHANGED <<owner, redis, shown>>

Resume ==
  \E h \in {awaiting[i] : i \in 1..Len(awaiting)} :
    Count(h) \/ MarkOnline(h) \/ DropKey(h) \/ MarkOffline(h) \/ AskFriends(h)

System == Resume \/ \E t \in notifying : Notify(t)

Next ==
  \/ System
  \/ \E s \in Sockets : (\E u \in Users : Connect(s, u)) \/ Disconnect(s)
  \/ Restart

Spec == Init /\ [][Next]_vars
\* Redis and MySQL answer; nobody has to connect, disconnect or crash.
FairSpec == Spec /\ WF_vars(Resume) /\ WF_vars(\E t \in notifying : Notify(t))
-----------------------------------------------------------------------------
(* Properties. *)

\* The socket ids Redis keeps for a user are connections of that user: sAdd is sent
\* when the socket connects, sRem when it disconnects.  Only a restart leaves stale
\* ids behind, and only for the users it cut off.
KeySocketsLive == \A u \in Users \ cut : keys[u] \subseteq SocketsOf(u)

\* However the handlers interleave, a user whose last socket is gone, and whose
\* handlers are done, is not left behind as online, and its key is gone: the next
\* connection starts from a clean slate.
NoGhostOnline ==
  \A u \in Users \ cut :
    Quiet(u) /\ SocketsOf(u) = {} => u \notin online /\ keys[u] = {}

\* asyncapi.yaml:63 "query which friends are online": once the handlers of a user are
\* done, the answer PresenceService.isOnline gives is whether the user has a socket.
\* Holds when the events of a user do not overlap, and for users no restart cut off.
OnlineIffConnected ==
  \A u \in Users \ cut : Quiet(u) => (u \in online <=> SocketsOf(u) # {})

\* Friends were last told what isOnline answers.
FriendsTold ==
  \A u \in Users \ cut : Quiet(u) => (shown[u] = "friendOnline" <=> u \in online)

\* A user that stays connected, and was not cut off, is shown to its friends as online, for good.
StaysOnline ==
  \A u \in Users : <>[](SocketsOf(u) # {} /\ u \notin cut) => <>[](shown[u] = "friendOnline")
=============================================================================

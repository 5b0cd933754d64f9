--------------------------- MODULE PresenceProofs ---------------------------
(***************************************************************************)
(* No user is left behind as online, however the handlers of its events    *)
(* interleave, for any number of users, sockets, handlers and restarts.    *)
(*                                                                         *)
(* The argument is about the order of one queue.  Whoever may still mark a *)
(* user without connections as online is served for the last time before   *)
(* some handler that takes the mark away: replies come in the order of the *)
(* commands, so a handler with fewer commands to go is done first, and of  *)
(* two with as many the one in front.                                      *)
(*                                                                         *)
(* While the events of a user do not overlap, more is true: a user with no *)
(* handler waiting has the sockets Redis keeps, is shown online exactly if *)
(* it has one, and its friends were told so last (Serial).                 *)
(***************************************************************************)
EXTENDS Presence, FiniteSetTheorems, TLAPS

\* Handlers of u that may mark it as online, and those that will take the mark away,
\* unless it connects again.
Marks(h, u)  == owner[h.sock] = u /\ h.sent \in {"sAdd", "sCard"}
Erases(h, u) == owner[h.sock] = u /\ (h.sent \in {"sRem", "del"} \/ (h.sent = "sCardLast" /\ h.n = 0))

\* Replies to come until a handler has marked or erased.
Left(h) ==
  CASE h.sent = "sRem"                  -> 3
    [] h.sent \in {"sAdd", "sCardLast"} -> 2
    [] h.sent \in {"sCard", "del"}      -> 1
    [] OTHER                            -> 0

\* The handler at i is done before the one at j.
Before(i, j) ==
  \/ Left(awaiting[i]) < Left(awaiting[j])
  \/ Left(awaiting[i]) = Left(awaiting[j]) /\ i < j

ErasedBy(j, u) ==
  /\ Erases(awaiting[j], u)
  /\ \A i \in 1..Len(awaiting) : Marks(awaiting[i], u) => Before(i, j)
Erased(u) == \E j \in 1..Len(awaiting) : ErasedBy(j, u)
Clean(u)  == u \notin online /\ \A i \in 1..Len(awaiting) : ~ Marks(awaiting[i], u)

ErasersFollow == \A u \in Users \ cut : SocketsOf(u) = {} => Clean(u) \/ Erased(u)

Inv == TypeOK /\ KeySocketsLive /\ ErasersFollow
-----------------------------------------------------------------------------
(* The queue. *)

LEMMA Rotated ==
  ASSUME awaiting \in Seq(Handler), awaiting # <<>>, NEW g \in Handler,
         awaiting' = Append(Tail(awaiting), g)
  PROVE  /\ awaiting' \in Seq(Handler) /\ Len(awaiting') = Len(awaiting)
         /\ awaiting'[Len(awaiting)] = g
         /\ \A i \in 1..Len(awaiting) - 1 : awaiting'[i] = awaiting[i + 1]
OBVIOUS

LEMMA Shortened ==
  ASSUME awaiting \in Seq(Handler), awaiting # <<>>, awaiting' = Tail(awaiting)
  PROVE  /\ awaiting' \in Seq(Handler) /\ Len(awaiting') = Len(awaiting) - 1
         /\ \A i \in 1..Len(awaiting) - 1 : awaiting'[i] = awaiting[i + 1]
OBVIOUS

LEMMA Lengthened ==
  ASSUME awaiting \in Seq(Handler), NEW g \in Handler, awaiting' = Append(awaiting, g)
  PROVE  /\ awaiting' \in Seq(Handler) /\ Len(awaiting') = Len(awaiting) + 1
         /\ awaiting'[Len(awaiting) + 1] = g
         /\ \A i \in 1..Len(awaiting) : awaiting'[i] = awaiting[i]
OBVIOUS

LEMMA HeadIsFirst ==
  ASSUME awaiting \in Seq(Handler), awaiting # <<>>
  PROVE  /\ Head(awaiting) = awaiting[1] /\ 1 \in 1..Len(awaiting)
         /\ \A i \in 1..Len(awaiting) : awaiting[i] \in Handler
OBVIOUS

\* An eraser that is not the one served keeps its place behind the markers; the handler
\* served may be a marker that goes back to the end of the queue with one reply less to come.
LEMMA EraserStays ==
  ASSUME awaiting \in Seq(Handler), awaiting # <<>>, UNCHANGED owner,
         NEW u \in Users, NEW j \in 1..Len(awaiting), j # 1, ErasedBy(j, u),
         \/ awaiting' = Tail(awaiting)
         \/ \E g \in Handler :
              /\ awaiting' = Append(Tail(awaiting), g)
              /\ Marks(g, u) => Marks(Head(awaiting), u) /\ Head(awaiting).sent = "sAdd"
                                /\ g.sent = "sCard"
  PROVE  Erased(u)'
<1>n. PICK n \in Nat : n = Len(awaiting)
  OBVIOUS
<1>k. PICK k \in 1..n - 1 : j = k + 1
  BY <1>n
<1>0. n = Len(awaiting) /\ n \in Nat /\ k \in 1..n - 1 /\ j = k + 1
  BY <1>n, <1>k
<1>1. /\ n - 1 \leq Len(awaiting') /\ Len(awaiting') \leq n /\ Len(awaiting') \in Nat
      /\ \A i \in 1..n - 1 : awaiting'[i] = awaiting[i + 1]
  BY <1>0, Rotated, Shortened
<1>2. Erases(awaiting[k + 1], u) /\ Erases(awaiting[k], u)'
  BY <1>0, <1>1 DEF ErasedBy, Erases
<1>3. ASSUME NEW i \in 1..Len(awaiting'), Marks(awaiting[i], u)' PROVE Before(i, k)'
  <2>1. CASE i \in 1..n - 1
    <3>1. awaiting'[i] = awaiting[i + 1] /\ awaiting'[k] = awaiting[k + 1] /\ i + 1 \in 1..n
      BY <1>0, <1>1, <2>1
    <3>2. Before(i + 1, k + 1)
      BY <1>0, <1>3, <3>1 DEF ErasedBy, Marks
    <3> QED BY <1>0, <2>1, <3>1, <3>2 DEF Before
  <2>2. CASE i = n /\ Len(awaiting') = n
    <3>1. PICK g \in Handler :
            /\ awaiting' = Append(Tail(awaiting), g)
            /\ Marks(g, u) => Marks(Head(awaiting), u) /\ Head(awaiting).sent = "sAdd"
                              /\ g.sent = "sCard"
      BY <1>0, <2>2, Shortened
    <3>2. awaiting'[n] = g
      BY <1>0, <3>1, Rotated
    <3>3. Marks(awaiting[1], u) /\ awaiting[1].sent = "sAdd" /\ g.sent = "sCard"
      BY <1>3, <2>2, <3>1, <3>2, HeadIsFirst DEF Marks
    <3>4. Before(1, k + 1)
      BY <1>0, <3>3, HeadIsFirst DEF ErasedBy
    <3>5. Left(awaiting[1]) = 2 /\ Left(g) = 1
      BY <3>3 DEF Left
    <3>6. Left(awaiting[k + 1]) \in Nat
      BY DEF Left
    <3>7. Left(awaiting[k + 1]) \geq 2
      BY <3>4, <3>5, <3>6 DEF Before
    <3> QED BY <1>0, <1>1, <2>2, <3>2, <3>5, <3>6, <3>7 DEF Before
  <2> QED BY <1>0, <1>1, <2>1, <2>2
<1>4. k \in 1..Len(awaiting')
  BY <1>0, <1>1
<1> QED BY <1>2, <1>3, <1>4 DEF Erased, ErasedBy

\* The eraser that is served goes on to its next command, behind every marker that is left.
LEMMA EraserGoesOn ==
  ASSUME awaiting \in Seq(Handler), awaiting # <<>>, UNCHANGED owner,
         NEW u \in Users, ErasedBy(1, u), NEW g \in Handler,
         awaiting' = Append(Tail(awaiting), g), Erases(g, u),
         Left(g) + 1 = Left(Head(awaiting))
  PROVE  Erased(u)'
<1>1. PICK n : /\ n = Len(awaiting) /\ n \in Nat /\ n \geq 1 /\ Len(awaiting') = n /\ awaiting'[n] = g
               /\ \A i \in 1..n - 1 : awaiting'[i] = awaiting[i + 1]
  BY Rotated, HeadIsFirst
<1>2. /\ Erases(awaiting'[n], u)
      /\ ~ Marks(g, u) /\ Left(g) \in 0..3
  BY <1>1 DEF Erases, Marks, Left
<1>3. ASSUME NEW i \in 1..n, Marks(awaiting[i], u)' PROVE Before(i, Len(awaiting))'
  <2>1. i \in 1..n - 1
    BY <1>1, <1>2, <1>3 DEF Marks
  <2>2. Marks(awaiting[i + 1], u) /\ awaiting'[i] = awaiting[i + 1] /\ i + 1 \in 1..n
    BY <1>1, <1>3, <2>1 DEF Marks
  <2>3. Before(i + 1, 1)
    BY <1>1, <2>2 DEF ErasedBy
  <2>4. Left(awaiting[i + 1]) \in 0..3 /\ Left(awaiting[1]) = Left(g) + 1
    BY HeadIsFirst DEF Left
  <2>5. Left(awaiting[i + 1]) \leq Left(g)
    BY <1>2, <2>1, <2>3, <2>4 DEF Before
  <2> QED BY <1>1, <1>2, <2>1, <2>2, <2>4, <2>5 DEF Before
<1>4. ErasedBy(Len(awaiting), u)'
  BY <1>1, <1>2, <1>3 DEF ErasedBy, Erases
<1> QED BY <1>1, <1>4 DEF Erased

\* Without an eraser there is no marker, and none joins the queue when replies are served.
LEMMA CleanStays ==
  ASSUME awaiting \in Seq(Handler), awaiting # <<>>, UNCHANGED owner,
         NEW u \in Users, \A i \in 1..Len(awaiting) : ~ Marks(awaiting[i], u), u \notin online',
         \/ awaiting' = Tail(awaiting)
         \/ \E g \in Handler : awaiting' = Append(Tail(awaiting), g) /\ ~ Marks(g, u)
  PROVE  Clean(u)'
<1>0. PICK n : n = Len(awaiting)
  OBVIOUS
<1>1. ASSUME NEW i \in 1..Len(awaiting') PROVE ~ Marks(awaiting'[i], u)
  <2>1. CASE awaiting' = Tail(awaiting)
    BY <1>1, <2>1, Shortened
  <2>2. CASE \E g \in Handler : awaiting' = Append(Tail(awaiting), g) /\ ~ Marks(g, u)
    <3>1. PICK g \in Handler : awaiting' = Append(Tail(awaiting), g) /\ ~ Marks(g, u)
      BY <2>2
    <3>2. /\ n \in Nat /\ Len(awaiting') = n /\ awaiting'[n] = g
          /\ \A l \in 1..n - 1 : awaiting'[l] = awaiting[l + 1]
      BY <1>0, <3>1, Rotated
    <3> QED BY <1>0, <1>1, <3>1, <3>2
  <2> QED BY <2>1, <2>2
<1> QED BY <1>1 DEF Clean, Marks
-----------------------------------------------------------------------------
(* Types. *)

QueueOK == /\ awaiting \in Seq(Handler)
           /\ \A i \in 1..Len(awaiting) : owner[awaiting[i].sock] # None

LEMMA SendOK ==
  ASSUME QueueOK, awaiting # <<>>, UNCHANGED owner, NEW g \in Handler, owner[g.sock] # None,
         awaiting' = Append(Tail(awaiting), g)
  PROVE  QueueOK'
<1>1. PICK n \in Nat : n = Len(awaiting)
  BY DEF QueueOK
<1>2. /\ awaiting' \in Seq(Handler) /\ Len(awaiting') = n /\ awaiting'[n] = g
      /\ \A i \in 1..n - 1 : awaiting'[i] = awaiting[i + 1]
  BY <1>1, Rotated DEF QueueOK
<1>3. ASSUME NEW i \in 1..n PROVE owner[awaiting'[i].sock] # None
  BY <1>1, <1>2 DEF QueueOK
<1> QED BY <1>2, <1>3 DEF QueueOK

LEMMA LeaveOK ==
  ASSUME QueueOK, awaiting # <<>>, UNCHANGED owner, awaiting' = Tail(awaiting)
  PROVE  QueueOK'
<1>1. PICK n \in Nat : n = Len(awaiting) /\ n \geq 1
  BY DEF QueueOK
<1>2. /\ awaiting' \in Seq(Handler) /\ Len(awaiting') = n - 1
      /\ \A i \in 1..n - 1 : awaiting'[i] = awaiting[i + 1]
  BY <1>1, Shortened DEF QueueOK
<1>3. ASSUME NEW i \in 1..n - 1 PROVE owner[awaiting'[i].sock] # None
  BY <1>1, <1>2 DEF QueueOK
<1> QED BY <1>2, <1>3 DEF QueueOK

\* An event starts a handler; a socket that had no owner may get one.
LEMMA EventOK ==
  ASSUME QueueOK, NEW g \in Handler, awaiting' = Append(awaiting, g), owner'[g.sock] # None,
         \A s \in Sockets : owner[s] # None => owner'[s] = owner[s]
  PROVE  QueueOK'
<1>1. PICK n \in Nat : n = Len(awaiting)
  BY DEF QueueOK
<1>2. /\ awaiting' \in Seq(Handler) /\ Len(awaiting') = n + 1 /\ awaiting'[n + 1] = g
      /\ \A i \in 1..n : awaiting'[i] = awaiting[i] /\ awaiting[i] \in Handler
  BY <1>1, Lengthened DEF QueueOK
<1>3. ASSUME NEW i \in 1..n + 1 PROVE owner'[awaiting'[i].sock] # None
  BY <1>1, <1>2 DEF QueueOK, Handler
<1> QED BY <1>2, <1>3 DEF QueueOK

\* The handler whose reply comes is the first of the queue.
LEMMA Served ==
  ASSUME TypeOK, awaiting # <<>>
  PROVE  /\ QueueOK /\ Head(awaiting) = awaiting[1] /\ Head(awaiting) \in Handler
         /\ Head(awaiting).sock \in Sockets /\ owner[Head(awaiting).sock] \in Users
BY HeadIsFirst DEF TypeOK, QueueOK, Handler

\* What is not in the queue.
RestOK ==
  /\ owner \in [Sockets -> Users \union {None}]
  /\ live \subseteq {s \in Sockets : owner[s] # None}
  /\ keys \in [Users -> SUBSET Sockets]
  /\ online \subseteq Users
  /\ notifying \subseteq [sock: Sockets, event: Event]
  /\ shown \in [Users -> Event]
  /\ restarts \in 0..MaxRestart
  /\ cut \subseteq Users

LEMMA Types == TypeOK <=> QueueOK /\ RestOK
BY DEF TypeOK, QueueOK, RestOK

LEMMA CardOK == ASSUME TypeOK, NEW u \in Users PROVE Cardinality(keys[u]) \in Nat
BY PresenceAssumption, FS_Subset, FS_CardinalityType DEF TypeOK

LEMMA ResumeTypes == ASSUME TypeOK, Resume PROVE TypeOK'
<1>1. PICK h \in {awaiting[i] : i \in 1..Len(awaiting)} :
        Count(h) \/ MarkOnline(h) \/ DropKey(h) \/ MarkOffline(h) \/ AskFriends(h)
  BY DEF Resume
<1>2. awaiting # <<>> /\ h = Head(awaiting) /\ UNCHANGED <<owner, live, shown, restarts, cut>>
  BY <1>1 DEF Count, MarkOnline, DropKey, MarkOffline, AskFriends, Resumes, Rest
<1>3. /\ QueueOK /\ RestOK /\ h \in Handler /\ h.sock \in Sockets /\ owner[h.sock] \in Users
      /\ owner[h.sock] # None /\ Cardinality(keys[owner[h.sock]]) \in Nat
  BY <1>2, Served, Types, CardOK, PresenceAssumption
<1>4. RestOK'
  BY <1>1, <1>2, <1>3
     DEF RestOK, redis, Event, Count, MarkOnline, DropKey, MarkOffline, AskFriends
<1>5. \/ awaiting' = Tail(awaiting)
      \/ \E g \in Handler : g.sock = h.sock /\ awaiting' = Append(Tail(awaiting), g)
  BY <1>1, <1>3 DEF Count, MarkOnline, DropKey, MarkOffline, AskFriends, Send, SendCard,
                    Leave, Handler
<1>6. QueueOK'
  BY <1>2, <1>3, <1>5, SendOK, LeaveOK
<1> QED BY <1>4, <1>6 DEF TypeOK, QueueOK, RestOK

LEMMA EventTypes ==
  ASSUME TypeOK, NEW s \in Sockets, (\E u \in Users : Connect(s, u)) \/ Disconnect(s)
  PROVE  TypeOK'
<1>1. QueueOK /\ RestOK
  BY Types
<1>2. ASSUME NEW u \in Users, Connect(s, u) PROVE TypeOK'
  <2>1. [sock |-> s, n |-> 0, sent |-> "sAdd"] \in Handler
    BY DEF Handler
  <2>2. owner' = [owner EXCEPT ![s] = u] /\ owner[s] = None /\ u # None
    BY <1>2, PresenceAssumption DEF Connect
  <2>3. RestOK'
    BY <1>1, <1>2, <2>2 DEF RestOK, Connect
  <2>4. owner'[s] # None /\ \A x \in Sockets : owner[x] # None => owner'[x] = owner[x]
    BY <1>1, <2>2 DEF RestOK
  <2>5. QueueOK'
    BY <1>1, <1>2, <2>1, <2>4, EventOK DEF Connect
  <2> QED BY <2>3, <2>5 DEF TypeOK, QueueOK, RestOK
<1>3. CASE Disconnect(s)
  <2>1. [sock |-> s, n |-> 0, sent |-> "sRem"] \in Handler
    BY DEF Handler
  <2>2. owner[s] \in Users /\ owner[s] # None /\ UNCHANGED owner
    BY <1>1, <1>3 DEF RestOK, Disconnect
  <2>3. RestOK'
    BY <1>1, <1>3, <2>2 DEF RestOK, Disconnect
  <2>4. QueueOK'
    BY <1>1, <1>3, <2>1, <2>2, EventOK DEF Disconnect
  <2> QED BY <2>3, <2>4 DEF TypeOK, QueueOK, RestOK
<1> QED BY <1>2, <1>3

LEMMA TypesStay == TypeOK /\ [Next]_vars => TypeOK'
<1> SUFFICES ASSUME TypeOK, [Next]_vars PROVE TypeOK'
  OBVIOUS
<1>1. CASE Resume
  BY <1>1, ResumeTypes
<1>2. ASSUME NEW t \in notifying, Notify(t) PROVE TypeOK'
  BY <1>2 DEF TypeOK, Notify, redis
<1>3. ASSUME NEW s \in Sockets, (\E u \in Users : Connect(s, u)) \/ Disconnect(s) PROVE TypeOK'
  BY <1>3, EventTypes
<1>4. CASE Restart
  BY <1>4, PresenceAssumption DEF TypeOK, Restart, redis
<1>5. CASE UNCHANGED vars
  BY <1>5 DEF TypeOK, vars, redis
<1> QED BY <1>1, <1>2, <1>3, <1>4, <1>5 DEF Next, System

-----------------------------------------------------------------------------
(* Keys. *)

LEMMA KeysStay == TypeOK /\ KeySocketsLive /\ [Next]_vars => KeySocketsLive'
<1> SUFFICES ASSUME TypeOK, KeySocketsLive, [Next]_vars, NEW u \in Users, u \notin cut'
             PROVE  keys'[u] \subseteq {s \in live' : owner'[s] = u}
  BY DEF KeySocketsLive, SocketsOf
<1>1. CASE Resume
  <2>1. PICK h \in {awaiting[i] : i \in 1..Len(awaiting)} :
          Count(h) \/ MarkOnline(h) \/ DropKey(h) \/ MarkOffline(h) \/ AskFriends(h)
    BY <1>1 DEF Resume
  <2>2. UNCHANGED <<owner, live, cut>> /\ (keys'[u] = keys[u] \/ keys'[u] = {})
    BY <2>1 DEF Count, MarkOnline, DropKey, MarkOffline, AskFriends, Rest, redis, TypeOK
  <2> QED BY <2>2 DEF KeySocketsLive, SocketsOf
<1>2. ASSUME NEW t \in notifying, Notify(t) PROVE keys'[u] \subseteq {s \in live' : owner'[s] = u}
  BY <1>2 DEF Notify, redis, KeySocketsLive, SocketsOf
<1>3. ASSUME NEW s \in Sockets, NEW v \in Users, Connect(s, v)
      PROVE  keys'[u] \subseteq {x \in live' : owner'[x] = u}
  BY <1>3 DEF Connect, KeySocketsLive, SocketsOf, TypeOK
<1>4. ASSUME NEW s \in Sockets, Disconnect(s)
      PROVE  keys'[u] \subseteq {x \in live' : owner'[x] = u}
  BY <1>4 DEF Disconnect, KeySocketsLive, SocketsOf, TypeOK
<1>5. CASE Restart
  BY <1>5 DEF Restart, redis, KeySocketsLive, SocketsOf
<1>6. CASE UNCHANGED vars
  BY <1>6 DEF vars, redis, KeySocketsLive, SocketsOf
<1> QED BY <1>1, <1>2, <1>3, <1>4, <1>5, <1>6 DEF Next, System
-----------------------------------------------------------------------------
(* Erasers. *)

\* While u has no connection its key is empty, so that the count of a disconnect is zero.
LEMMA NoSocketsNoKeys ==
  ASSUME KeySocketsLive, NEW u \in Users, u \notin cut, SocketsOf(u) = {}
  PROVE  keys[u] = {} /\ Cardinality(keys[u]) = 0
BY FS_EmptySet DEF KeySocketsLive

\* The handler that is served belongs to somebody else, or has nothing more to mark or erase.
LEMMA OthersServed ==
  ASSUME TypeOK, awaiting # <<>>, UNCHANGED owner, NEW u \in Users, Clean(u) \/ Erased(u),
         u \in online' => u \in online, ~ Erases(Head(awaiting), u),
         \/ awaiting' = Tail(awaiting)
         \/ \E g \in Handler : awaiting' = Append(Tail(awaiting), g) /\ ~ Marks(g, u)
  PROVE  Clean(u)' \/ Erased(u)'
<1>1. awaiting \in Seq(Handler) /\ Head(awaiting) = awaiting[1]
  BY Served DEF TypeOK
<1>2. CASE Clean(u)
  BY <1>1, <1>2, CleanStays DEF Clean
<1>3. CASE Erased(u)
  <2>1. PICK j \in 1..Len(awaiting) : ErasedBy(j, u)
    BY <1>3 DEF Erased
  <2>2. j # 1
    BY <1>1, <2>1 DEF ErasedBy
  <2> QED BY <1>1, <2>1, <2>2, EraserStays
<1> QED BY <1>2, <1>3

\* A marker that is served is followed by an eraser, and stays ahead of it.
LEMMA MarkerServed ==
  ASSUME TypeOK, awaiting # <<>>, UNCHANGED owner, NEW u \in Users, Clean(u) \/ Erased(u),
         Marks(Head(awaiting), u),
         \/ awaiting' = Tail(awaiting)
         \/ \E g \in Handler :
              /\ awaiting' = Append(Tail(awaiting), g)
              /\ Marks(g, u) => Head(awaiting).sent = "sAdd" /\ g.sent = "sCard"
  PROVE  Erased(u)'
<1>1. awaiting \in Seq(Handler) /\ Head(awaiting) = awaiting[1] /\ 1 \in 1..Len(awaiting)
  BY Served, HeadIsFirst DEF TypeOK
<1>2. PICK j \in 1..Len(awaiting) : ErasedBy(j, u)
  BY <1>1 DEF Clean, Erased
<1>3. j # 1
  BY <1>1, <1>2 DEF ErasedBy, Marks, Erases
<1> QED BY <1>1, <1>2, <1>3, EraserStays

\* An eraser of u that is served goes on; another one, if there is one, stays where it is.
LEMMA EraserServed ==
  ASSUME TypeOK, awaiting # <<>>, UNCHANGED owner, NEW u \in Users, Clean(u) \/ Erased(u),
         u \in online' => u \in online,
         NEW g \in Handler, awaiting' = Append(Tail(awaiting), g), Erases(g, u),
         Left(g) + 1 = Left(Head(awaiting))
  PROVE  Clean(u)' \/ Erased(u)'
<1>1. awaiting \in Seq(Handler) /\ Head(awaiting) = awaiting[1] /\ ~ Marks(g, u)
  BY Served DEF TypeOK, Erases, Marks
<1>2. CASE Clean(u)
  BY <1>1, <1>2, CleanStays DEF Clean
<1>3. CASE Erased(u)
  <2>1. PICK j \in 1..Len(awaiting) : ErasedBy(j, u)
    BY <1>3 DEF Erased
  <2>2. CASE j = 1
    BY <1>1, <2>1, <2>2, EraserGoesOn
  <2>3. CASE j # 1
    BY <1>1, <2>1, <2>3, EraserStays
  <2> QED BY <2>2, <2>3
<1> QED BY <1>2, <1>3


\* A handler that starts does not come between markers and erasers of other users.
LEMMA OthersStart ==
  ASSUME TypeOK, NEW u \in Users, Clean(u) \/ Erased(u), online' = online,
         NEW g \in Handler, awaiting' = Append(awaiting, g), owner'[g.sock] # u,
         \A s \in Sockets : owner[s] # None => owner'[s] = owner[s]
  PROVE  Clean(u)' \/ Erased(u)'
<1>1. PICK n \in Nat : n = Len(awaiting)
  BY DEF TypeOK
<1>2. /\ Len(awaiting') = n + 1 /\ awaiting'[n + 1] = g
      /\ \A i \in 1..n : awaiting'[i] = awaiting[i]
  BY <1>1, Lengthened DEF TypeOK
<1>3. \A i \in 1..n : owner'[awaiting[i].sock] = owner[awaiting[i].sock]
  <2>1. ASSUME NEW i \in 1..n PROVE owner[awaiting[i].sock] # None /\ awaiting[i] \in Handler
    BY <1>1, <2>1 DEF TypeOK
  <2> QED BY <2>1 DEF Handler
<1>4. \A i \in 1..n + 1 : Marks(awaiting[i], u)' => i \in 1..n /\ Marks(awaiting[i], u)
  BY <1>2, <1>3 DEF Marks
<1>5. CASE Clean(u)
  BY <1>1, <1>2, <1>4, <1>5 DEF Clean
<1>6. CASE Erased(u)
  <2>1. PICK j \in 1..n : ErasedBy(j, u)
    BY <1>1, <1>6 DEF Erased
  <2>2. Erases(awaiting[j], u)'
    BY <1>2, <1>3, <2>1 DEF ErasedBy, Erases
  <2>3. ASSUME NEW i \in 1..n + 1, Marks(awaiting[i], u)' PROVE Before(i, j)'
    BY <1>1, <1>2, <1>4, <2>1, <2>3 DEF ErasedBy, Before
  <2> QED BY <1>2, <2>1, <2>2, <2>3 DEF Erased, ErasedBy
<1> QED BY <1>5, <1>6

\* The last connection of u goes: its handler is the eraser, behind every marker.
LEMMA LastCloses ==
  ASSUME TypeOK, UNCHANGED owner, NEW u \in Users, NEW g \in Handler,
         awaiting' = Append(awaiting, g), owner[g.sock] = u, g.sent = "sRem"
  PROVE  Erased(u)'
<1>1. PICK n \in Nat : n = Len(awaiting)
  BY DEF TypeOK
<1>2. Len(awaiting') = n + 1 /\ awaiting'[n + 1] = g
  BY <1>1, Lengthened DEF TypeOK
<1>3. ASSUME NEW i \in 1..n + 1, Marks(awaiting[i], u)' PROVE Before(i, n + 1)'
  <2>1. PICK x : x = awaiting'[i]
    OBVIOUS
  <2>2. x.sent \in {"sAdd", "sCard"}
    BY <1>3, <2>1 DEF Marks
  <2>3. x.sent = "sAdd" => Left(x) = 2
    BY DEF Left
  <2>4. x.sent = "sCard" => Left(x) = 1
    BY DEF Left
  <2>5. Left(x) = 1 \/ Left(x) = 2
    BY <2>2, <2>3, <2>4
  <2>6. Left(g) = 3
    BY DEF Left
  <2> QED BY <1>2, <2>1, <2>5, <2>6 DEF Before
<1>4. Erases(awaiting'[n + 1], u)
  BY <1>2 DEF Erases
<1> QED BY <1>2, <1>3, <1>4 DEF Erased, ErasedBy, Erases

\* The eraser is done: no marker is left, or another eraser is.
LEMMA LastErased ==
  ASSUME TypeOK, NEW u \in Users, Clean(u) \/ Erased(u), MarkOffline(Head(awaiting)),
         owner[Head(awaiting).sock] = u
  PROVE  Clean(u)' \/ Erased(u)'
<1> DEFINE h == Head(awaiting)
           g == [h EXCEPT !.sent = "sRemOnline"]
<1>1. /\ awaiting # <<>> /\ h.sent = "del" /\ UNCHANGED owner /\ u \notin online'
      /\ awaiting' = Append(Tail(awaiting), g)
  BY DEF MarkOffline, Resumes, Send, Rest
<1>2. awaiting \in Seq(Handler) /\ h = awaiting[1] /\ 1 \in 1..Len(awaiting) /\ h \in Handler
  BY <1>1, HeadIsFirst DEF TypeOK
<1>3. g \in Handler /\ ~ Marks(g, u)
  BY <1>2 DEF Handler, Marks
<1> HIDE DEF g
<1>4. CASE \A i \in 1..Len(awaiting) : ~ Marks(awaiting[i], u)
  BY <1>1, <1>2, <1>3, <1>4, CleanStays
<1>5. CASE \E j \in 1..Len(awaiting) : ErasedBy(j, u)
  <2>1. PICK j \in 1..Len(awaiting) : ErasedBy(j, u)
    BY <1>5
  <2>2. CASE j # 1
    BY <1>1, <1>2, <1>3, <2>1, <2>2, EraserStays
  <2>3. CASE j = 1
    <3>1. Left(awaiting[1]) = 1
      BY <1>1, <1>2 DEF Left
    <3>2. ASSUME NEW i \in 1..Len(awaiting), Marks(awaiting[i], u) PROVE FALSE
      <4>1. Before(i, 1)
        BY <2>1, <2>3, <3>2 DEF ErasedBy
      <4>2. Left(awaiting[i]) \in 1..2
        BY <3>2 DEF Marks, Left
      <4> QED BY <3>1, <4>1, <4>2 DEF Before
    <3> QED BY <1>4, <3>2
  <2> QED BY <2>2, <2>3
<1> QED BY <1>4, <1>5 DEF Clean, Erased

LEMMA ErasersStay == Inv /\ [Next]_vars => ErasersFollow'
<1> SUFFICES ASSUME Inv, [Next]_vars, NEW u \in Users, u \notin cut', SocketsOf(u)' = {}
             PROVE  Clean(u)' \/ Erased(u)'
  BY DEF ErasersFollow
<1>1. TypeOK /\ KeySocketsLive
  BY DEF Inv
<1>a. SocketsOf(u) = {} /\ u \notin cut => Clean(u) \/ Erased(u)
  BY DEF Inv, ErasersFollow
<1>2. CASE Resume
  <2>1. PICK h \in {awaiting[i] : i \in 1..Len(awaiting)} :
          Count(h) \/ MarkOnline(h) \/ DropKey(h) \/ MarkOffline(h) \/ AskFriends(h)
    BY <1>2 DEF Resume
  <2>2. awaiting # <<>> /\ h = Head(awaiting) /\ UNCHANGED <<owner, live, cut>>
    BY <2>1 DEF Count, MarkOnline, DropKey, MarkOffline, AskFriends, Resumes, Rest
  <2>3. SocketsOf(u) = {} /\ u \notin cut
    BY <2>2 DEF SocketsOf
  <2>4. Clean(u) \/ Erased(u)
    BY <1>a, <2>3
  <2>5. /\ h \in Handler /\ owner[h.sock] \in Users
        /\ Cardinality(keys[owner[h.sock]]) \in Nat /\ Cardinality(keys[u]) = 0
    BY <1>1, <2>2, <2>3, Served, CardOK, NoSocketsNoKeys
  <2>6. CASE Resumes(h, "sAdd") /\ Count(h)
    <3>1. PICK g \in Handler : /\ awaiting' = Append(Tail(awaiting), g) /\ g.sent = "sCard"
                               /\ g.sock = h.sock
      <4> DEFINE x == [h EXCEPT !.sent = "sCard", !.n = Cardinality(keys[owner[h.sock]])]
      <4>1. x \in Handler /\ x.sent = "sCard" /\ x.sock = h.sock
        BY <2>5 DEF Handler
      <4>2. awaiting' = Append(Tail(awaiting), x)
        BY <2>6 DEF Count, SendCard, Resumes
      <4> QED BY <4>1, <4>2
    <3>2. h.sent = "sAdd" /\ online' = online
      BY <2>6 DEF Count, Resumes, redis
    <3>3. CASE owner[h.sock] = u
      BY <1>1, <2>2, <2>4, <3>1, <3>2, <3>3, MarkerServed DEF Marks
    <3>4. CASE owner[h.sock] # u
      BY <1>1, <2>2, <2>4, <3>1, <3>2, <3>4, OthersServed DEF Marks, Erases
    <3> QED BY <3>3, <3>4
  <2>7. CASE Resumes(h, "sRem") /\ Count(h)
    <3>1. PICK g \in Handler : /\ awaiting' = Append(Tail(awaiting), g) /\ g.sent = "sCardLast"
                               /\ g.sock = h.sock /\ g.n = Cardinality(keys[owner[h.sock]])
      <4> DEFINE x == [h EXCEPT !.sent = "sCardLast", !.n = Cardinality(keys[owner[h.sock]])]
      <4>1. /\ x \in Handler /\ x.sent = "sCardLast" /\ x.sock = h.sock
            /\ x.n = Cardinality(keys[owner[h.sock]])
        BY <2>5 DEF Handler
      <4>2. awaiting' = Append(Tail(awaiting), x)
        BY <2>7 DEF Count, SendCard, Resumes
      <4> QED BY <4>1, <4>2
    <3>2. h.sent = "sRem" /\ online' = online
      BY <2>7 DEF Count, Resumes, redis
    <3>3. CASE owner[h.sock] = u
      <4>1. Erases(g, u) /\ Left(g) = 2 /\ Left(h) = 3
        BY <2>5, <3>1, <3>2, <3>3 DEF Erases, Left
      <4> QED BY <1>1, <2>2, <2>4, <3>1, <3>2, <4>1, EraserServed
    <3>4. CASE owner[h.sock] # u
      BY <1>1, <2>2, <2>4, <3>1, <3>2, <3>4, OthersServed DEF Marks, Erases
    <3> QED BY <3>3, <3>4
  <2>8. CASE MarkOnline(h)
    <3>1. h.sent = "sCard" /\ (online' = online \/ online' = online \union {owner[h.sock]})
      BY <2>8 DEF MarkOnline, Resumes
    <3>2. \/ awaiting' = Tail(awaiting)
          \/ \E g \in Handler : /\ awaiting' = Append(Tail(awaiting), g)
                                /\ g.sent = "sAddOnline"
      BY <2>5, <2>8 DEF MarkOnline, Send, Leave, Handler
    <3>3. CASE owner[h.sock] = u
      BY <1>1, <2>2, <2>4, <3>1, <3>2, <3>3, MarkerServed DEF Marks
    <3>4. CASE owner[h.sock] # u
      BY <1>1, <2>2, <2>4, <3>1, <3>2, <3>4, OthersServed DEF Marks, Erases
    <3> QED BY <3>3, <3>4
  <2>9. CASE DropKey(h)
    <3>1. h.sent = "sCardLast" /\ online' = online
      BY <2>9 DEF DropKey, Resumes
    <3>2. CASE h.n = 0
      <4>1. PICK g \in Handler : /\ awaiting' = Append(Tail(awaiting), g) /\ g.sent = "del"
                                 /\ g.sock = h.sock
        BY <2>5, <2>9, <3>2 DEF DropKey, Send, Handler
      <4>2. CASE owner[h.sock] = u
        <5>1. Erases(g, u) /\ Left(g) = 1 /\ Left(h) = 2
          BY <3>1, <4>1, <4>2 DEF Erases, Left
        <5> QED BY <1>1, <2>2, <2>4, <3>1, <4>1, <5>1, EraserServed
      <4>3. CASE owner[h.sock] # u
        BY <1>1, <2>2, <2>4, <3>1, <4>1, <4>3, OthersServed DEF Marks, Erases
      <4> QED BY <4>2, <4>3
    <3>3. CASE h.n # 0
      <4>1. awaiting' = Tail(awaiting) /\ ~ Erases(h, u)
        BY <2>9, <3>1, <3>3 DEF DropKey, Leave, Erases
      <4> QED BY <1>1, <2>2, <2>4, <3>1, <4>1, OthersServed
    <3> QED BY <3>2, <3>3
  <2>10. CASE MarkOffline(h)
    <3>1. CASE owner[h.sock] = u
      BY <1>1, <2>2, <2>4, <2>10, <3>1, LastErased
    <3>2. CASE owner[h.sock] # u
      <4>1. online' = online \ {owner[h.sock]}
        BY <2>10 DEF MarkOffline
      <4>2. PICK g \in Handler : awaiting' = Append(Tail(awaiting), g) /\ g.sent = "sRemOnline"
        BY <2>5, <2>10 DEF MarkOffline, Send, Handler
      <4> QED BY <1>1, <2>2, <2>4, <3>2, <4>1, <4>2, OthersServed DEF Marks, Erases
    <3> QED BY <3>1, <3>2
  <2>11. CASE AskFriends(h)
    <3>1. awaiting' = Tail(awaiting) /\ online' = online /\ h.sent \in {"sAddOnline", "sRemOnline"}
      BY <2>11 DEF AskFriends, Leave, Resumes, redis
    <3> QED BY <1>1, <2>2, <2>4, <3>1, OthersServed DEF Erases
  <2> QED BY <2>1, <2>6, <2>7, <2>8, <2>9, <2>10, <2>11 DEF Count
<1>3. ASSUME NEW t \in notifying, Notify(t) PROVE Clean(u)' \/ Erased(u)'
  <2>1. UNCHANGED <<owner, live, online, awaiting, cut>>
    BY <1>3 DEF Notify, redis
  <2> QED BY <1>a, <2>1 DEF SocketsOf, Clean, Erased, ErasedBy, Marks, Erases, Before
<1>4. ASSUME NEW s \in Sockets, NEW v \in Users, Connect(s, v) PROVE Clean(u)' \/ Erased(u)'
  <2>1. /\ owner[s] = None /\ owner' = [owner EXCEPT ![s] = v] /\ live' = live \union {s}
        /\ online' = online /\ cut' = cut
        /\ awaiting' = Append(awaiting, [sock |-> s, n |-> 0, sent |-> "sAdd"])
    BY <1>4 DEF Connect
  <2>2. owner'[s] = v /\ \A x \in Sockets : owner[x] # None => owner'[x] = owner[x]
    BY <1>1, <2>1 DEF TypeOK
  <2>3. v # u
    BY <2>1, <2>2 DEF SocketsOf
  <2>4. SocketsOf(u) = {} /\ u \notin cut
    BY <1>1, <2>1, <2>2 DEF SocketsOf, TypeOK
  <2>5. [sock |-> s, n |-> 0, sent |-> "sAdd"] \in Handler
    BY DEF Handler
  <2> QED BY <1>1, <1>a, <2>1, <2>2, <2>3, <2>4, <2>5, OthersStart
<1>5. ASSUME NEW s \in Sockets, Disconnect(s) PROVE Clean(u)' \/ Erased(u)'
  <2>1. /\ UNCHANGED <<owner, online, cut>> /\ live' = live \ {s}
        /\ awaiting' = Append(awaiting, [sock |-> s, n |-> 0, sent |-> "sRem"])
    BY <1>5 DEF Disconnect
  <2>2. [sock |-> s, n |-> 0, sent |-> "sRem"] \in Handler
    BY DEF Handler
  <2>3. CASE owner[s] = u
    BY <1>1, <2>1, <2>2, <2>3, LastCloses
  <2>4. CASE owner[s] # u
    <3>1. SocketsOf(u) = {} /\ u \notin cut
      BY <2>1, <2>4 DEF SocketsOf
    <3> QED BY <1>1, <1>a, <2>1, <2>2, <2>4, <3>1, OthersStart
  <2> QED BY <2>3, <2>4
<1>6. CASE Restart
  <2>1. u \notin cut /\ SocketsOf(u) = {} /\ Quiet(u) /\ online' = online /\ awaiting' = <<>>
    BY <1>6 DEF Restart, redis
  <2>2. ~ Erased(u)
    BY <2>1 DEF Quiet, Erased, ErasedBy, Erases
  <2> QED BY <1>a, <2>1, <2>2 DEF Clean
<1>7. CASE UNCHANGED vars
  BY <1>7, <1>a DEF vars, redis, SocketsOf, Clean, Erased, ErasedBy, Marks, Erases, Before
<1> QED BY <1>2, <1>3, <1>4, <1>5, <1>6, <1>7 DEF Next, System
-----------------------------------------------------------------------------
LEMMA InitInv == Init => Inv
<1> SUFFICES ASSUME Init PROVE Inv
  OBVIOUS
<1>1. TypeOK
  BY PresenceAssumption DEF Init, TypeOK, Event, Handler
<1>2. KeySocketsLive
  BY DEF Init, KeySocketsLive
<1>3. ErasersFollow
  BY DEF Init, ErasersFollow, Clean
<1> QED BY <1>1, <1>2, <1>3 DEF Inv

THEOREM Invariance == Spec => []Inv
<1>1. Inv /\ [Next]_vars => Inv'
  BY TypesStay, KeysStay, ErasersStay DEF Inv
<1> QED BY InitInv, <1>1, PTL DEF Spec

\* Sockets that Redis keeps are owned, handlers are of owned sockets, for any number of
\* users, sockets, handlers and restarts.
THEOREM TypeCorrect == Spec => []TypeOK
BY Invariance, PTL DEF Inv

\* presence.service.ts, register and unregister: the socket ids kept for a user are
\* connections of that user, but for those a restart cut off.
THEOREM KeysAreLive == Spec => []KeySocketsLive
BY Invariance, PTL DEF Inv

\* A user without connections whose handlers are done has nobody left that erases it.
LEMMA NoGhosts == Inv => NoGhostOnline
<1> SUFFICES ASSUME Inv, NEW u \in Users \ cut, Quiet(u), SocketsOf(u) = {}
             PROVE  u \notin online /\ keys[u] = {}
  BY DEF NoGhostOnline
<1>1. ~ Erased(u)
  BY DEF Quiet, Erased, ErasedBy, Erases
<1> QED BY <1>1, NoSocketsNoKeys DEF Inv, ErasersFollow, Clean

\* presence.service.ts, unregister: a user whose last connection is gone and whose handlers
\* are done is not shown online, in whatever order its handlers ran.
THEOREM NobodyIsLeftOnline == Spec => []NoGhostOnline
BY Invariance, NoGhosts, PTL
-----------------------------------------------------------------------------
(* Events of a user that do not overlap. *)

Mine(h, u) == owner[h.sock] = u

\* isOnline answers `on`, and so friends were told.
Shows(u, on) == (u \in online <=> on) /\ (shown[u] = "friendOnline" <=> on)

\* What the only handler of u has found and done.
Registers(h, u) ==
  /\ h.sock \in SocketsOf(u) /\ Shows(u, SocketsOf(u) # {h.sock})
  /\ h.sent = "sCard" => h.n = Cardinality(SocketsOf(u))
Unregisters(h, u) ==
  /\ Shows(u, TRUE)
  /\ h.sent = "sCardLast" => h.n = Cardinality(SocketsOf(u))
OnItsWay(h, u) ==
  /\ h.sent \in {"sAdd", "sCard"}     => Registers(h, u)
  /\ h.sent \in {"sRem", "sCardLast"} => Unregisters(h, u)
  /\ h.sent = "sAddOnline"            => u \in online /\ SocketsOf(u) # {}
  /\ h.sent \in {"del", "sRemOnline"} => SocketsOf(u) = {}
  /\ h.sent = "sRemOnline"            => u \notin online
Announces(t, u) ==
  /\ u \in online <=> t.event = "friendOnline"
  /\ SocketsOf(u) # {} <=> t.event = "friendOnline"

OneInQueue(u) ==
  \A i, j \in 1..Len(awaiting) : Mine(awaiting[i], u) /\ Mine(awaiting[j], u) => i = j
OneHandler(u) ==
  /\ OneInQueue(u)
  /\ \A s, t \in notifying : Mine(s, u) /\ Mine(t, u) => s = t
  /\ \A i \in 1..Len(awaiting), t \in notifying : ~ (Mine(awaiting[i], u) /\ Mine(t, u))

Stage(u) ==
  /\ keys[u] = SocketsOf(u)
  /\ Quiet(u) => Shows(u, SocketsOf(u) # {})
  /\ \A i \in 1..Len(awaiting) : Mine(awaiting[i], u) => OnItsWay(awaiting[i], u)
  /\ \A t \in notifying : Mine(t, u) => Announces(t, u)

Serial ==
  /\ IsFiniteSet(notifying) /\ \A t \in notifying : owner[t.sock] # None
  /\ \A u \in Users : OneHandler(u)
  /\ \A u \in Users \ cut : Stage(u)

\* A user whose handlers are done can be counted, and the other way round.
LEMMA FewAreQuiet ==
  ASSUME TypeOK, IsFiniteSet(notifying), MaxHandlers = 1, NEW u \in Users,
         InFlight(u) < MaxHandlers
  PROVE  Quiet(u)
<1> DEFINE Q == {i \in 1..Len(awaiting) : owner[awaiting[i].sock] = u}
           N == {t \in notifying : owner[t.sock] = u}
<1>1. IsFiniteSet(Q)
  <2>1. Len(awaiting) \in Nat /\ Q \subseteq 1..Len(awaiting)
    BY DEF TypeOK
  <2>2. IsFiniteSet(1..Len(awaiting))
    BY <2>1, FS_Interval
  <2> QED BY <2>1, <2>2, FS_Subset
<1>2. IsFiniteSet(N)
  BY FS_Subset
<1>3. Cardinality(Q) + Cardinality(N) < 1
  BY DEF InFlight
<1>4. Cardinality(Q) = 0 /\ Cardinality(N) = 0
  BY <1>1, <1>2, <1>3, FS_CardinalityType
<1>5. Q = {} /\ N = {}
  BY <1>1, <1>2, <1>4, FS_EmptySet
<1> QED BY <1>5 DEF Quiet

\* A handler that is served is the only one of its user, and goes on or leaves; the
\* others only move up.
LEMMA QueueMoves ==
  ASSUME TypeOK, awaiting # <<>>, UNCHANGED owner, NEW u \in Users, OneInQueue(u),
         \/ awaiting' = Tail(awaiting)
         \/ \E g \in Handler : g.sock = Head(awaiting).sock /\ awaiting' = Append(Tail(awaiting), g)
  PROVE  /\ OneInQueue(u)'
         /\ \A i \in 1..Len(awaiting') : Mine(awaiting'[i], u) =>
              IF Mine(Head(awaiting), u)
              THEN awaiting' = Append(Tail(awaiting), awaiting'[i])
              ELSE \E k \in 1..Len(awaiting) : awaiting'[i] = awaiting[k]
         /\ ~ Mine(Head(awaiting), u) =>
              \A k \in 1..Len(awaiting) : Mine(awaiting[k], u) =>
                \E i \in 1..Len(awaiting') : awaiting'[i] = awaiting[k]
<1>n. PICK n \in Nat : n = Len(awaiting)
  BY DEF TypeOK
<1>h. PICK h \in Handler : h = Head(awaiting) /\ h = awaiting[1] /\ n \geq 1
  BY <1>n, Served
<1>1. CASE awaiting' = Tail(awaiting)
  <2>1. Len(awaiting') = n - 1 /\ \A i \in 1..n - 1 : awaiting'[i] = awaiting[i + 1]
    BY <1>n, <1>1, Shortened DEF TypeOK
  <2>2. OneInQueue(u)'
    BY <1>n, <2>1 DEF OneInQueue, Mine
  <2>3. Mine(h, u) => \A i \in 1..n - 1 : ~ Mine(awaiting[i + 1], u)
    BY <1>n, <1>h DEF OneInQueue
  <2>4. \A k \in 1..n : k # 1 => k - 1 \in 1..n - 1 /\ awaiting'[k - 1] = awaiting[k]
    BY <2>1
  <2>5. \A i \in 1..n - 1 : i + 1 \in 1..n
    OBVIOUS
  <2> QED BY <1>n, <1>h, <2>1, <2>2, <2>3, <2>4, <2>5
<1>2. ASSUME NEW g \in Handler, g.sock = Head(awaiting).sock,
             awaiting' = Append(Tail(awaiting), g)
      PROVE  /\ OneInQueue(u)'
             /\ \A i \in 1..Len(awaiting') : Mine(awaiting'[i], u) =>
                  IF Mine(Head(awaiting), u)
                  THEN awaiting' = Append(Tail(awaiting), awaiting'[i])
                  ELSE \E k \in 1..Len(awaiting) : awaiting'[i] = awaiting[k]
             /\ ~ Mine(Head(awaiting), u) =>
                  \A k \in 1..Len(awaiting) : Mine(awaiting[k], u) =>
                    \E i \in 1..Len(awaiting') : awaiting'[i] = awaiting[k]
  <2>1. /\ Len(awaiting') = n /\ awaiting'[n] = g
        /\ \A i \in 1..n - 1 : awaiting'[i] = awaiting[i + 1]
    BY <1>n, <1>2, Rotated DEF TypeOK
  <2>2. Mine(g, u) <=> Mine(h, u)
    BY <1>2, <1>h DEF Mine
  <2>3. Mine(h, u) => \A i \in 1..n - 1 : ~ Mine(awaiting[i + 1], u)
    BY <1>n, <1>h DEF OneInQueue
  <2>4. \A k \in 1..n : k # 1 => k - 1 \in 1..n - 1 /\ awaiting'[k - 1] = awaiting[k]
    BY <2>1
  <2>5. \A i \in 1..n : i # n => i \in 1..n - 1 /\ i + 1 \in 1..n
    OBVIOUS
  <2>6. OneInQueue(u)'
    <3>1. ASSUME NEW i \in 1..n, NEW j \in 1..n, owner[awaiting'[i].sock] = u,
                 owner[awaiting'[j].sock] = u
          PROVE  i = j
      <4>1. CASE Mine(h, u)
        BY <2>1, <2>3, <2>5, <3>1, <4>1 DEF Mine
      <4>2. CASE ~ Mine(h, u)
        <5>1. i # n /\ j # n
          BY <2>1, <2>2, <3>1, <4>2 DEF Mine
        <5>2. i + 1 \in 1..n /\ j + 1 \in 1..n /\ Mine(awaiting[i + 1], u) /\ Mine(awaiting[j + 1], u)
          BY <2>1, <2>5, <3>1, <5>1 DEF Mine
        <5> QED BY <1>n, <5>2 DEF OneInQueue
      <4> QED BY <4>1, <4>2
    <3> QED BY <2>1, <3>1 DEF OneInQueue, Mine
  <2>7. Mine(h, u) => \A i \in 1..n : Mine(awaiting'[i], u) => awaiting'[i] = g
    BY <2>1, <2>3, <2>5
  <2>8. ~ Mine(h, u) => \A i \in 1..n : Mine(awaiting'[i], u) => awaiting'[i] = awaiting[i + 1]
    BY <2>1, <2>2, <2>5
  <2>9. ~ Mine(h, u) => \A i \in 1..n : Mine(awaiting'[i], u) => i + 1 \in 1..n
    BY <2>1, <2>2, <2>5
  <2>10. ASSUME NEW i \in 1..n, Mine(awaiting'[i], u)
         PROVE  IF Mine(h, u) THEN awaiting' = Append(Tail(awaiting), awaiting'[i])
                              ELSE \E k \in 1..n : awaiting'[i] = awaiting[k]
    BY <1>2, <2>7, <2>8, <2>9, <2>10
  <2>11. ~ Mine(h, u) => \A k \in 1..n : Mine(awaiting[k], u) => k # 1
    BY <1>h
  <2>12. ~ Mine(h, u) => \A k \in 1..n : Mine(awaiting[k], u) =>
                           \E i \in 1..n : awaiting'[i] = awaiting[k]
    BY <2>4, <2>11
  <2> QED BY <1>n, <1>h, <2>1, <2>6, <2>10, <2>12
<1> QED BY <1>1, <1>2

\* A handler of another user that is served leaves what u sees alone.
LEMMA OthersMove ==
  ASSUME TypeOK, awaiting # <<>>, UNCHANGED <<owner, live, shown>>, NEW u \in Users,
         OneHandler(u), Stage(u), ~ Mine(Head(awaiting), u),
         keys'[u] = keys[u], u \in online' <=> u \in online,
         \/ awaiting' = Tail(awaiting)
         \/ \E g \in Handler : g.sock = Head(awaiting).sock /\ awaiting' = Append(Tail(awaiting), g),
         \A t \in notifying' : t \in notifying \/ ~ Mine(t, u),
         notifying \subseteq notifying'
  PROVE  Stage(u)'
<1>1. /\ \A i \in 1..Len(awaiting') : Mine(awaiting'[i], u) =>
            \E k \in 1..Len(awaiting) : awaiting'[i] = awaiting[k]
      /\ \A k \in 1..Len(awaiting) : Mine(awaiting[k], u) =>
            \E i \in 1..Len(awaiting') : awaiting'[i] = awaiting[k]
  BY QueueMoves DEF OneHandler
<1>2. SocketsOf(u)' = SocketsOf(u)
  BY DEF SocketsOf
<1>3. Quiet(u)' => Quiet(u)
  BY <1>1 DEF Quiet, Mine
<1>4. \A h : OnItsWay(h, u)' <=> OnItsWay(h, u)
  BY <1>2 DEF OnItsWay, Registers, Unregisters, Shows
<1>5. ASSUME NEW i \in 1..Len(awaiting'), NEW h, h = awaiting'[i], Mine(h, u)
      PROVE  OnItsWay(h, u)'
  <2>1. PICK k \in 1..Len(awaiting) : h = awaiting[k]
    BY <1>1, <1>5
  <2>2. OnItsWay(h, u)
    BY <1>5, <2>1 DEF Stage
  <2> QED BY <1>4, <2>2
<1>6. \A t \in notifying' : Mine(t, u) => Announces(t, u)'
  BY <1>2 DEF Stage, Announces
<1>7. Quiet(u)' => Shows(u, SocketsOf(u) # {})'
  BY <1>2, <1>3 DEF Stage, Shows
<1>8. keys'[u] = SocketsOf(u)'
  BY <1>2 DEF Stage
<1>9. \A i \in 1..Len(awaiting') :
        Mine(awaiting'[i], u) => \E h : h = awaiting'[i] /\ OnItsWay(h, u)'
  BY <1>5
<1> QED BY <1>6, <1>7, <1>8, <1>9 DEF Stage, Mine

\* The handler of u that is served goes on as g.
LEMMA MineGoesOn ==
  ASSUME TypeOK, awaiting # <<>>, UNCHANGED <<owner, live, notifying>>, NEW u \in Users,
         OneHandler(u), Mine(Head(awaiting), u), NEW g \in Handler,
         g.sock = Head(awaiting).sock, awaiting' = Append(Tail(awaiting), g),
         keys'[u] = SocketsOf(u), OnItsWay(g, u)'
  PROVE  Stage(u)'
<1>1. PICK n \in Nat : n = Len(awaiting) /\ n \geq 1
  BY DEF TypeOK
<1>2. Len(awaiting') = n /\ awaiting'[n] = g
  BY <1>1, Rotated DEF TypeOK
<1>3. Mine(g, u)
  BY DEF Mine
<1>4. ~ Quiet(u)'
  BY <1>1, <1>2, <1>3 DEF Quiet, Mine
<1>5. ASSUME NEW i \in 1..Len(awaiting'), Mine(awaiting'[i], u) PROVE awaiting'[i] = g
  <2>1. awaiting' = Append(Tail(awaiting), awaiting'[i])
    BY <1>5, QueueMoves DEF OneHandler
  <2>2. awaiting'[n] = awaiting'[i]
    BY <1>1, <1>2, <2>1 DEF TypeOK
  <2> QED BY <1>2, <2>2
<1>6. \A t \in notifying' : ~ Mine(t, u)
  BY <1>1, Served DEF OneHandler
<1> QED BY <1>4, <1>5, <1>6 DEF Stage, SocketsOf, Mine

\* The handler of u that is served leaves the queue, perhaps to ask for the friends of u.
LEMMA MineLeaves ==
  ASSUME TypeOK, awaiting # <<>>, UNCHANGED <<owner, live>>, NEW u \in Users,
         OneHandler(u), Mine(Head(awaiting), u), awaiting' = Tail(awaiting),
         keys'[u] = SocketsOf(u),
         \/ notifying' = notifying /\ Shows(u, SocketsOf(u) # {})'
         \/ \E t : notifying' = notifying \union {t} /\ Mine(t, u) /\ Announces(t, u)'
  PROVE  Stage(u)'
<1>1. PICK n \in Nat : n = Len(awaiting) /\ n \geq 1
  BY DEF TypeOK
<1>2. Len(awaiting') = n - 1 /\ \A i \in 1..n - 1 : awaiting'[i] = awaiting[i + 1]
  BY <1>1, Shortened DEF TypeOK
<1>3. ASSUME NEW i \in 1..Len(awaiting'), Mine(awaiting'[i], u) PROVE FALSE
  <2>1. Mine(awaiting[i + 1], u) /\ i + 1 \in 1..n /\ i + 1 # 1 /\ 1 \in 1..n
    BY <1>1, <1>2, <1>3
  <2> QED BY <1>1, <2>1, Served DEF OneHandler, OneInQueue
<1>4. \A t \in notifying : ~ Mine(t, u)
  BY <1>1, Served DEF OneHandler
<1>5. SocketsOf(u)' = SocketsOf(u)
  BY DEF SocketsOf
<1>6. CASE notifying' = notifying /\ Shows(u, SocketsOf(u) # {})'
  BY <1>3, <1>4, <1>5, <1>6 DEF Stage, Mine
<1>7. ASSUME NEW t, notifying' = notifying \union {t}, Mine(t, u), Announces(t, u)' PROVE Stage(u)'
  <2>1. ~ Quiet(u)'
    BY <1>7 DEF Quiet, Mine
  <2> QED BY <1>3, <1>4, <1>5, <1>7, <2>1 DEF Stage, Mine
<1> QED BY <1>6, <1>7

LEMMA ResumeOne ==
  ASSUME TypeOK, Serial, Resume
  PROVE  /\ IsFiniteSet(notifying') /\ \A t \in notifying' : owner'[t.sock] # None
         /\ \A u \in Users : OneHandler(u)'
<1>1. PICK h \in {awaiting[i] : i \in 1..Len(awaiting)} :
        Count(h) \/ MarkOnline(h) \/ DropKey(h) \/ MarkOffline(h) \/ AskFriends(h)
  BY DEF Resume
<1>2. awaiting # <<>> /\ h = Head(awaiting) /\ UNCHANGED owner
  BY <1>1 DEF Count, MarkOnline, DropKey, MarkOffline, AskFriends, Resumes, Rest
<1>3. h = awaiting[1] /\ h \in Handler /\ 1 \in 1..Len(awaiting)
  BY <1>2, Served, HeadIsFirst DEF TypeOK
<1>4. \/ awaiting' = Tail(awaiting)
      \/ \E g \in Handler : g.sock = h.sock /\ awaiting' = Append(Tail(awaiting), g)
  <2>1. Cardinality(keys[owner[h.sock]]) \in Nat
    BY <1>2, Served, CardOK
  <2> QED BY <1>1, <1>3, <2>1
             DEF Count, MarkOnline, DropKey, MarkOffline, AskFriends, Send, SendCard,
                 Leave, Handler
<1>5. \/ notifying' = notifying
      \/ \E t : notifying' = notifying \union {t} /\ t.sock = h.sock /\ awaiting' = Tail(awaiting)
  BY <1>1 DEF Count, MarkOnline, DropKey, MarkOffline, AskFriends, Leave
<1>6. IsFiniteSet(notifying') /\ \A t \in notifying' : owner'[t.sock] # None
  BY <1>2, <1>3, <1>5, FS_AddElement DEF Serial, TypeOK, QueueOK
<1>7. ASSUME NEW u \in Users PROVE OneHandler(u)'
  <2>1. /\ OneInQueue(u) /\ \A s, t \in notifying : Mine(s, u) /\ Mine(t, u) => s = t
        /\ \A i \in 1..Len(awaiting), t \in notifying : ~ (Mine(awaiting[i], u) /\ Mine(t, u))
    BY DEF Serial, OneHandler
  <2>2. /\ OneInQueue(u)'
        /\ \A i \in 1..Len(awaiting') : Mine(awaiting'[i], u) =>
             IF Mine(h, u)
             THEN awaiting' = Append(Tail(awaiting), awaiting'[i])
             ELSE \E k \in 1..Len(awaiting) : awaiting'[i] = awaiting[k]
    BY <1>2, <1>4, <2>1, QueueMoves
  <2>3. CASE Mine(h, u)
    <3>1. \A t \in notifying : ~ Mine(t, u)
      BY <1>3, <2>1, <2>3
    <3>2. CASE notifying' = notifying
      BY <1>2, <2>2, <3>1, <3>2 DEF OneHandler, Mine
    <3>3. ASSUME NEW t, notifying' = notifying \union {t}, awaiting' = Tail(awaiting)
          PROVE  OneHandler(u)'
      <4>1. ASSUME NEW i \in 1..Len(awaiting'), Mine(awaiting'[i], u) PROVE FALSE
        <5>1. Tail(awaiting) = Append(Tail(awaiting), awaiting'[i])
          BY <2>2, <2>3, <3>3, <4>1
        <5>2. Tail(awaiting) \in Seq(Handler)
          BY <1>2 DEF TypeOK
        <5>3. PICK n \in Nat : n = Len(Tail(awaiting))
          BY <5>2
        <5>4. PICK q : q = Tail(awaiting)
          OBVIOUS
        <5>5. Len(Append(q, awaiting'[i])) = Len(q) + 1
          BY <5>2, <5>4
        <5> QED BY <5>1, <5>3, <5>4, <5>5
      <4> QED BY <1>2, <2>2, <3>1, <3>3, <4>1 DEF OneHandler, Mine
    <3> QED BY <1>5, <3>2, <3>3
  <2>4. CASE ~ Mine(h, u)
    <3>1. \A t \in notifying' : Mine(t, u) => t \in notifying
      BY <1>5, <2>4 DEF Mine
    <3>2. ASSUME NEW i \in 1..Len(awaiting'), NEW t \in notifying', Mine(awaiting'[i], u), Mine(t, u)
          PROVE  FALSE
      BY <2>1, <2>2, <2>4, <3>1, <3>2
    <3> QED BY <1>2, <2>1, <2>2, <3>1, <3>2 DEF OneHandler, Mine
  <2> QED BY <2>3, <2>4
<1> QED BY <1>6, <1>7

\* Redis counts the sockets of u.
LEMMA Counts ==
  ASSUME TypeOK, NEW u \in Users
  PROVE  /\ IsFiniteSet(SocketsOf(u)) /\ Cardinality(SocketsOf(u)) \in Nat
         /\ Cardinality(SocketsOf(u)) = 0 <=> SocketsOf(u) = {}
         /\ \A s \in SocketsOf(u) : Cardinality(SocketsOf(u)) = 1 <=> SocketsOf(u) = {s}
<1>1. SocketsOf(u) \subseteq Sockets
  BY DEF TypeOK, SocketsOf
<1>2. IsFiniteSet(SocketsOf(u))
  BY <1>1, PresenceAssumption, FS_Subset
<1>3. Cardinality(SocketsOf(u)) = 1 <=> \E s : SocketsOf(u) = {s}
  BY <1>2, FS_Singleton
<1> QED BY <1>2, <1>3, FS_CardinalityType, FS_EmptySet

LEMMA ResumeStage ==
  ASSUME TypeOK, Serial, Resume, NEW u \in Users, u \notin cut
  PROVE  Stage(u)'
<1>1. PICK h \in {awaiting[i] : i \in 1..Len(awaiting)} :
        Count(h) \/ MarkOnline(h) \/ DropKey(h) \/ MarkOffline(h) \/ AskFriends(h)
  BY DEF Resume
<1>2. /\ awaiting # <<>> /\ h = Head(awaiting) /\ UNCHANGED <<owner, live, shown>>
      /\ SocketsOf(u)' = SocketsOf(u)
  BY <1>1 DEF Count, MarkOnline, DropKey, MarkOffline, AskFriends, Resumes, Rest, SocketsOf
<1>3. /\ h = awaiting[1] /\ h \in Handler /\ 1 \in 1..Len(awaiting)
      /\ owner[h.sock] \in Users /\ Cardinality(keys[owner[h.sock]]) \in Nat
  BY <1>2, Served, HeadIsFirst, CardOK DEF TypeOK
<1>4. OneHandler(u) /\ Stage(u) /\ keys[u] = SocketsOf(u)
  BY DEF Serial, Stage
<1>5. CASE ~ Mine(h, u)
  <2>1. \/ awaiting' = Tail(awaiting)
        \/ \E g \in Handler : g.sock = h.sock /\ awaiting' = Append(Tail(awaiting), g)
    BY <1>1, <1>3 DEF Count, MarkOnline, DropKey, MarkOffline, AskFriends, Send, SendCard,
                      Leave, Handler
  <2>2. notifying \subseteq notifying' /\ \A t \in notifying' : t \in notifying \/ t.sock = h.sock
    BY <1>1 DEF Count, MarkOnline, DropKey, MarkOffline, AskFriends
  <2>3. keys'[u] = keys[u] /\ (u \in online' <=> u \in online)
    BY <1>1, <1>3, <1>5 DEF Count, MarkOnline, DropKey, MarkOffline, AskFriends, redis, Mine,
                            TypeOK
  <2> QED BY <1>2, <1>4, <1>5, <2>1, <2>2, <2>3, OthersMove DEF Mine
<1>6. CASE Mine(h, u)
  <2>1. OnItsWay(h, u) /\ owner[h.sock] = u
    BY <1>3, <1>4, <1>6 DEF Stage, Mine
  <2>2. CASE Count(h)
    <3>1. PICK g \in Handler :
            /\ awaiting' = Append(Tail(awaiting), g) /\ g.sock = h.sock
            /\ g.n = Cardinality(SocketsOf(u))
            /\ \/ h.sent = "sAdd" /\ g.sent = "sCard"
               \/ h.sent = "sRem" /\ g.sent = "sCardLast"
      <4>1. PICK c \in Nat : c = Cardinality(SocketsOf(u)) /\ c = Cardinality(keys[owner[h.sock]])
        BY <1>3, <1>4, <2>1
      <4>2. CASE /\ h.sent = "sAdd"
                 /\ awaiting' = Append(Tail(awaiting), [h EXCEPT !.sent = "sCard", !.n = c])
        <5> DEFINE g == [h EXCEPT !.sent = "sCard", !.n = c]
        <5>1. g \in Handler /\ g.sock = h.sock /\ g.n = c /\ g.sent = "sCard"
          BY <1>3, <4>1 DEF Handler
        <5>2. awaiting' = Append(Tail(awaiting), g)
          BY <4>2
        <5> HIDE DEF g
        <5> QED BY <4>1, <4>2, <5>1, <5>2
      <4>3. CASE /\ h.sent = "sRem"
                 /\ awaiting' = Append(Tail(awaiting), [h EXCEPT !.sent = "sCardLast", !.n = c])
        <5> DEFINE g == [h EXCEPT !.sent = "sCardLast", !.n = c]
        <5>1. g \in Handler /\ g.sock = h.sock /\ g.n = c /\ g.sent = "sCardLast"
          BY <1>3, <4>1 DEF Handler
        <5>2. awaiting' = Append(Tail(awaiting), g)
          BY <4>3
        <5> HIDE DEF g
        <5> QED BY <4>1, <4>3, <5>1, <5>2
      <4> QED BY <2>2, <4>1, <4>2, <4>3 DEF Count, SendCard, Resumes
    <3>2. UNCHANGED <<keys, online, notifying>>
      BY <2>2 DEF Count, redis
    <3>3. OnItsWay(g, u)'
      BY <1>2, <2>1, <3>1, <3>2 DEF OnItsWay, Registers, Unregisters, Shows
    <3> QED BY <1>2, <1>4, <1>6, <3>1, <3>2, <3>3, MineGoesOn
  <2>3. CASE MarkOnline(h)
    <3>1. /\ h.sent = "sCard" /\ h.n = Cardinality(SocketsOf(u)) /\ h.sock \in SocketsOf(u)
          /\ Shows(u, SocketsOf(u) # {h.sock}) /\ UNCHANGED <<keys, notifying>>
      BY <2>1, <2>3 DEF OnItsWay, Registers, MarkOnline, Resumes
    <3>2. CASE h.n = 1
      <4>1. PICK g \in Handler : /\ awaiting' = Append(Tail(awaiting), g) /\ g.sock = h.sock
                                 /\ g.sent = "sAddOnline"
        BY <1>3, <2>3, <3>2 DEF MarkOnline, Send, Handler
      <4>2. u \in online'
        BY <2>1, <2>3, <3>2 DEF MarkOnline
      <4>3. OnItsWay(g, u)'
        BY <1>2, <3>1, <4>1, <4>2 DEF OnItsWay
      <4> QED BY <1>2, <1>4, <1>6, <3>1, <4>1, <4>3, MineGoesOn
    <3>3. CASE h.n # 1
      <4>1. awaiting' = Tail(awaiting) /\ UNCHANGED online
        BY <2>3, <3>3 DEF MarkOnline, Leave
      <4>2. SocketsOf(u) # {h.sock}
        BY <3>1, <3>3, Counts
      <4>3. Shows(u, SocketsOf(u) # {})'
        BY <1>2, <3>1, <4>1, <4>2 DEF Shows
      <4> QED BY <1>2, <1>4, <1>6, <3>1, <4>1, <4>3, MineLeaves
    <3> QED BY <3>2, <3>3
  <2>4. CASE DropKey(h)
    <3>1. /\ h.sent = "sCardLast" /\ h.n = Cardinality(SocketsOf(u))
          /\ Shows(u, TRUE) /\ UNCHANGED <<online, notifying>>
      BY <2>1, <2>4 DEF OnItsWay, Unregisters, DropKey, Resumes
    <3>2. CASE h.n = 0
      <4>1. PICK g \in Handler : /\ awaiting' = Append(Tail(awaiting), g) /\ g.sock = h.sock
                                 /\ g.sent = "del"
        BY <1>3, <2>4, <3>2 DEF DropKey, Send, Handler
      <4>2. SocketsOf(u) = {}
        BY <3>1, <3>2, Counts
      <4>3. keys'[u] = {}
        BY <1>4, <2>1, <2>4, <3>2, <4>2 DEF DropKey, TypeOK
      <4>4. OnItsWay(g, u)'
        BY <1>2, <4>1, <4>2 DEF OnItsWay
      <4> QED BY <1>2, <1>4, <1>6, <3>1, <4>1, <4>2, <4>3, <4>4, MineGoesOn
    <3>3. CASE h.n # 0
      <4>1. awaiting' = Tail(awaiting) /\ UNCHANGED keys
        BY <2>4, <3>3 DEF DropKey, Leave
      <4>2. SocketsOf(u) # {}
        BY <3>1, <3>3, Counts
      <4>3. Shows(u, SocketsOf(u) # {})'
        BY <1>2, <3>1, <4>2 DEF Shows
      <4> QED BY <1>2, <1>4, <1>6, <3>1, <4>1, <4>3, MineLeaves
    <3> QED BY <3>2, <3>3
  <2>5. CASE MarkOffline(h)
    <3>1. /\ h.sent = "del" /\ UNCHANGED <<keys, notifying>> /\ u \notin online'
      BY <2>1, <2>5 DEF MarkOffline, Resumes
    <3>2. PICK g \in Handler : /\ awaiting' = Append(Tail(awaiting), g) /\ g.sock = h.sock
                               /\ g.sent = "sRemOnline"
      BY <1>3, <2>5 DEF MarkOffline, Send, Handler
    <3>3. OnItsWay(g, u)'
      BY <1>2, <2>1, <3>1, <3>2 DEF OnItsWay
    <3> QED BY <1>2, <1>4, <1>6, <3>1, <3>2, <3>3, MineGoesOn
  <2>6. CASE AskFriends(h)
    <3>1. awaiting' = Tail(awaiting) /\ UNCHANGED <<keys, online>>
      BY <2>6 DEF AskFriends, Leave, redis
    <3>2. PICK t : notifying' = notifying \union {t} /\ t.sock = h.sock
                   /\ \/ h.sent = "sAddOnline" /\ t.event = "friendOnline"
                      \/ h.sent = "sRemOnline" /\ t.event = "friendOffline"
      <4>1. CASE /\ h.sent = "sAddOnline"
                 /\ notifying' = notifying \union {[sock |-> h.sock, event |-> "friendOnline"]}
        <5> DEFINE t == [sock |-> h.sock, event |-> "friendOnline"]
        <5>1. t.sock = h.sock /\ t.event = "friendOnline"
          OBVIOUS
        <5>2. notifying' = notifying \union {t}
          BY <4>1
        <5> HIDE DEF t
        <5> QED BY <4>1, <5>1, <5>2
      <4>2. CASE /\ h.sent = "sRemOnline"
                 /\ notifying' = notifying \union {[sock |-> h.sock, event |-> "friendOffline"]}
        <5> DEFINE t == [sock |-> h.sock, event |-> "friendOffline"]
        <5>1. t.sock = h.sock /\ t.event = "friendOffline"
          OBVIOUS
        <5>2. notifying' = notifying \union {t}
          BY <4>2
        <5> HIDE DEF t
        <5> QED BY <4>2, <5>1, <5>2
      <4> QED BY <2>6, <4>1, <4>2 DEF AskFriends, Resumes
    <3>3. Mine(t, u) /\ Announces(t, u)'
      BY <1>2, <1>6, <2>1, <3>1, <3>2 DEF OnItsWay, Announces, Mine
    <3> QED BY <1>2, <1>4, <1>6, <3>1, <3>2, <3>3, MineLeaves
  <2> QED BY <1>1, <2>2, <2>3, <2>4, <2>5, <2>6
<1> QED BY <1>5, <1>6

LEMMA NotifySerial ==
  ASSUME TypeOK, Serial, NEW t \in notifying, Notify(t)
  PROVE  Serial'
<1>1. /\ UNCHANGED <<owner, live, keys, online, awaiting, cut>> /\ notifying' = notifying \ {t}
      /\ shown' = [shown EXCEPT ![owner[t.sock]] = t.event]
  BY DEF Notify, redis
<1>2. IsFiniteSet(notifying')
  BY <1>1, FS_RemoveElement DEF Serial
<1>3. \A u \in Users : OneHandler(u)'
  BY <1>1 DEF Serial, OneHandler, OneInQueue, Mine
<1>4. ASSUME NEW u \in Users, u \notin cut PROVE Stage(u)'
  <2>1. Stage(u) /\ OneHandler(u) /\ SocketsOf(u)' = SocketsOf(u)
    BY <1>1, <1>4 DEF Serial, SocketsOf
  <2>2. CASE Mine(t, u)
    <3>1. /\ \A i \in 1..Len(awaiting) : ~ Mine(awaiting[i], u)
          /\ \A s \in notifying' : ~ Mine(s, u)
      BY <1>1, <2>1, <2>2 DEF OneHandler
    <3>2. shown'[u] = t.event
      BY <1>1, <1>4, <2>2 DEF TypeOK, Mine
    <3>3. Shows(u, SocketsOf(u) # {})'
      BY <1>1, <2>1, <2>2, <3>2 DEF Stage, Announces, Shows
    <3> QED BY <1>1, <2>1, <3>1, <3>3 DEF Stage, Mine
  <2>3. CASE ~ Mine(t, u)
    <3>1. shown'[u] = shown[u]
      BY <1>1, <1>4, <2>3 DEF TypeOK, Mine
    <3>2. \A on \in BOOLEAN : Shows(u, on)' <=> Shows(u, on)
      BY <1>1, <3>1 DEF Shows
    <3>3. Quiet(u)' => Quiet(u)
      BY <1>1, <2>3 DEF Quiet, Mine
    <3>4. \A h : OnItsWay(h, u)' <=> OnItsWay(h, u)
      BY <1>1, <2>1, <3>2 DEF OnItsWay, Registers, Unregisters
    <3>5. \A s : Announces(s, u)' <=> Announces(s, u)
      BY <1>1, <2>1 DEF Announces
    <3>6. Quiet(u)' => Shows(u, SocketsOf(u) # {})'
      BY <2>1, <3>1, <3>3, <1>1 DEF Stage, Shows
    <3> QED BY <1>1, <2>1, <3>4, <3>5, <3>6 DEF Stage, Mine
  <2> QED BY <2>2, <2>3
<1> QED BY <1>1, <1>2, <1>3, <1>4 DEF Serial

\* An event of v finds no handler of v; what other users see stays.
LEMMA EventSerial ==
  ASSUME TypeOK, Serial, MaxHandlers = 1, NEW s \in Sockets, NEW v \in Users,
         InFlight(v) < MaxHandlers,
         NEW g \in Handler, g.sock = s, awaiting' = Append(awaiting, g),
         owner[s] \in {v, None}, owner' = [owner EXCEPT ![s] = v],
         UNCHANGED <<online, notifying, shown, cut>>,
         \A u \in Users : u # v => keys'[u] = keys[u] /\ SocketsOf(u)' = SocketsOf(u),
         v \notin cut => keys'[v] = SocketsOf(v)' /\ OnItsWay(g, v)'
  PROVE  Serial'
<1>1. PICK n \in Nat : n = Len(awaiting)
  BY DEF TypeOK
<1>2. /\ Len(awaiting') = n + 1 /\ awaiting'[n + 1] = g
      /\ \A i \in 1..n : awaiting'[i] = awaiting[i] /\ awaiting[i] \in Handler
  BY <1>1, Lengthened, HeadIsFirst DEF TypeOK
<1>3. Quiet(v)
  BY FewAreQuiet DEF Serial
<1>4. /\ owner'[s] = v /\ v # None
      /\ \A x \in Sockets : owner[x] # None => owner'[x] = owner[x]
  BY PresenceAssumption DEF TypeOK
<1>5. \A i \in 1..n : owner'[awaiting[i].sock] = owner[awaiting[i].sock]
  BY <1>1, <1>2, <1>4 DEF TypeOK, Handler
<1>6. \A t \in notifying : owner'[t.sock] = owner[t.sock] /\ owner'[t.sock] # None
  BY <1>4 DEF TypeOK, Serial
<1>7. \A i \in 1..n + 1 : i # n + 1 => i \in 1..n
  OBVIOUS
<1>8. /\ \A i \in 1..n : owner'[awaiting'[i].sock] # v
      /\ \A t \in notifying : owner'[t.sock] # v
  BY <1>1, <1>2, <1>3, <1>5, <1>6 DEF Quiet
<1>9. owner'[awaiting'[n + 1].sock] = v
  BY <1>2, <1>4
<1>10. ASSUME NEW u \in Users PROVE OneHandler(u)'
  <2>1. ASSUME NEW i \in 1..n + 1, NEW j \in 1..n + 1,
               owner'[awaiting'[i].sock] = u, owner'[awaiting'[j].sock] = u
        PROVE  i = j
    <3>1. CASE i = n + 1 \/ j = n + 1
      BY <1>7, <1>8, <1>9, <2>1, <3>1
    <3>2. CASE i # n + 1 /\ j # n + 1
      <4>1. i \in 1..n /\ j \in 1..n
        BY <1>7, <3>2
      <4>2. owner[awaiting[i].sock] = u /\ owner[awaiting[j].sock] = u
        BY <1>2, <1>5, <2>1, <4>1
      <4> QED BY <1>1, <4>1, <4>2 DEF Serial, OneHandler, OneInQueue, Mine
    <3> QED BY <3>1, <3>2
  <2>2. ASSUME NEW i \in 1..n + 1, NEW t \in notifying,
               owner'[awaiting'[i].sock] = u, owner'[t.sock] = u
        PROVE  FALSE
    <3>1. i \in 1..n /\ u # v
      BY <1>7, <1>8, <1>9, <2>2
    <3>2. owner[awaiting[i].sock] = u /\ owner[t.sock] = u
      BY <1>2, <1>5, <1>6, <2>2, <3>1
    <3> QED BY <1>1, <3>1, <3>2 DEF Serial, OneHandler, Mine
  <2>3. \A x, t \in notifying : owner'[x.sock] = u /\ owner'[t.sock] = u => x = t
    BY <1>6 DEF Serial, OneHandler, Mine
  <2> QED BY <1>2, <2>1, <2>2, <2>3 DEF OneHandler, OneInQueue, Mine
<1>11. ASSUME NEW u \in Users, u \notin cut PROVE Stage(u)'
  <2>1. CASE u = v
    <3>1. ~ Quiet(u)'
      BY <1>2, <1>9, <2>1 DEF Quiet
    <3>2. ASSUME NEW i \in 1..n + 1, NEW h, h = awaiting'[i], owner'[h.sock] = u
          PROVE  OnItsWay(h, u)'
      <4>1. i = n + 1
        BY <1>7, <1>8, <2>1, <3>2
      <4> QED BY <1>2, <1>11, <2>1, <3>2, <4>1
    <3>3. \A i \in 1..n + 1 :
            owner'[awaiting'[i].sock] = u => \E h : h = awaiting'[i] /\ OnItsWay(h, u)'
      BY <3>2
    <3> QED BY <1>2, <1>8, <1>11, <2>1, <3>1, <3>3 DEF Stage, Mine
  <2>2. CASE u # v
    <3>1. Stage(u) /\ SocketsOf(u)' = SocketsOf(u) /\ keys'[u] = SocketsOf(u)'
      BY <1>11, <2>2 DEF Serial, Stage
    <3>2. \A h : OnItsWay(h, u) => OnItsWay(h, u)'
      BY <3>1 DEF OnItsWay, Registers, Unregisters, Shows
    <3>3. ASSUME NEW i \in 1..n + 1, NEW h, h = awaiting'[i], owner'[h.sock] = u
          PROVE  OnItsWay(h, u)'
      <4>1. i \in 1..n
        BY <1>7, <1>9, <2>2, <3>3
      <4>2. h = awaiting[i] /\ owner[awaiting[i].sock] = u
        BY <1>2, <1>5, <3>3, <4>1
      <4>3. OnItsWay(h, u)
        BY <1>1, <3>1, <4>1, <4>2 DEF Stage, Mine
      <4> QED BY <3>2, <4>3
    <3>4. \A i \in 1..n + 1 :
            owner'[awaiting'[i].sock] = u => \E h : h = awaiting'[i] /\ OnItsWay(h, u)'
      BY <3>3
    <3>5. Quiet(u)' => Quiet(u)
      <4>1. \A i \in 1..n : i \in 1..n + 1
        OBVIOUS
      <4> QED BY <1>1, <1>2, <1>5, <1>6, <4>1 DEF Quiet
    <3>6. Quiet(u)' => Shows(u, SocketsOf(u) # {})'
      BY <3>1, <3>5 DEF Stage, Shows
    <3>7. \A t \in notifying : owner'[t.sock] = u => Announces(t, u)'
      BY <1>6, <3>1 DEF Stage, Announces, Mine
    <3> QED BY <1>2, <3>1, <3>4, <3>6, <3>7 DEF Stage, Mine
  <2> QED BY <2>1, <2>2
<1> QED BY <1>6, <1>10, <1>11 DEF Serial

LEMMA ConnectSerial ==
  ASSUME TypeOK, Serial, MaxHandlers = 1, NEW s \in Sockets, NEW v \in Users, Connect(s, v)
  PROVE  Serial'
<1> DEFINE g == [sock |-> s, n |-> 0, sent |-> "sAdd"]
<1>1. g \in Handler /\ g.sock = s /\ g.sent = "sAdd" /\ awaiting' = Append(awaiting, g)
  BY DEF Handler, Connect
<1> HIDE DEF g
<1>2. /\ owner[s] = None /\ InFlight(v) < MaxHandlers /\ owner' = [owner EXCEPT ![s] = v]
      /\ live' = live \union {s} /\ keys' = [keys EXCEPT ![v] = @ \union {s}]
      /\ UNCHANGED <<online, notifying, shown, restarts, cut>>
  BY DEF Connect
<1>3. s \notin live /\ v # None
  BY <1>2, PresenceAssumption DEF TypeOK
<1>4. /\ SocketsOf(v)' = SocketsOf(v) \union {s} /\ s \notin SocketsOf(v)
      /\ \A u \in Users : u # v => keys'[u] = keys[u] /\ SocketsOf(u)' = SocketsOf(u)
  BY <1>2, <1>3 DEF TypeOK, SocketsOf
<1>5. ASSUME v \notin cut PROVE keys'[v] = SocketsOf(v)' /\ OnItsWay(g, v)'
  <2>1. Quiet(v)
    BY <1>2, FewAreQuiet DEF Serial
  <2>2. Shows(v, SocketsOf(v) # {}) /\ keys[v] = SocketsOf(v)
    BY <1>5, <2>1 DEF Serial, Stage
  <2>3. keys'[v] = SocketsOf(v)'
    BY <1>2, <1>4, <2>2 DEF TypeOK
  <2>4. SocketsOf(v)' # {s} <=> SocketsOf(v) # {}
    BY <1>4
  <2>5. s \in SocketsOf(v)' /\ Shows(v, SocketsOf(v) # {s})'
    BY <1>2, <1>4, <2>2, <2>4 DEF Shows
  <2> QED BY <1>1, <2>3, <2>5 DEF OnItsWay, Registers
<1> QED BY <1>1, <1>2, <1>4, <1>5, EventSerial

LEMMA DisconnectSerial ==
  ASSUME TypeOK, Serial, MaxHandlers = 1, NEW s \in Sockets, Disconnect(s)
  PROVE  Serial'
<1> DEFINE g == [sock |-> s, n |-> 0, sent |-> "sRem"]
<1>1. g \in Handler /\ g.sock = s /\ g.sent = "sRem" /\ awaiting' = Append(awaiting, g)
  BY DEF Handler, Disconnect
<1> HIDE DEF g
<1>2. PICK v \in Users : v = owner[s]
  BY DEF Disconnect, TypeOK
<1>3. /\ s \in live /\ InFlight(v) < MaxHandlers /\ UNCHANGED owner
      /\ live' = live \ {s} /\ keys' = [keys EXCEPT ![v] = @ \ {s}]
      /\ UNCHANGED <<online, notifying, shown, restarts, cut>>
  BY <1>2 DEF Disconnect
<1>4. owner' = [owner EXCEPT ![s] = v]
  BY <1>2, <1>3 DEF TypeOK
<1>5. /\ SocketsOf(v)' = SocketsOf(v) \ {s} /\ s \in SocketsOf(v)
      /\ \A u \in Users : u # v => keys'[u] = keys[u] /\ SocketsOf(u)' = SocketsOf(u)
  BY <1>2, <1>3 DEF TypeOK, SocketsOf
<1>6. ASSUME v \notin cut PROVE keys'[v] = SocketsOf(v)' /\ OnItsWay(g, v)'
  <2>1. Quiet(v)
    BY <1>3, FewAreQuiet DEF Serial
  <2>2. Shows(v, TRUE) /\ keys[v] = SocketsOf(v)
    BY <1>5, <1>6, <2>1 DEF Serial, Stage, Shows
  <2>3. keys'[v] = SocketsOf(v)'
    BY <1>3, <1>5, <2>2 DEF TypeOK
  <2>4. Shows(v, TRUE)'
    BY <1>3, <2>2 DEF Shows
  <2> QED BY <1>1, <2>3, <2>4 DEF OnItsWay, Unregisters
<1>7. /\ owner[s] \in {v, None} /\ InFlight(v) < MaxHandlers
      /\ UNCHANGED <<online, notifying, shown, cut>>
  BY <1>2, <1>3
<1> QED BY <1>1, <1>4, <1>5, <1>6, <1>7, EventSerial

LEMMA RestartSerial ==
  ASSUME TypeOK, Serial, Restart
  PROVE  Serial'
<1>1. /\ live' = {} /\ awaiting' = <<>> /\ notifying' = {} /\ UNCHANGED <<owner, keys, online, shown>>
      /\ cut' = cut \union {u \in Users : SocketsOf(u) # {} \/ ~Quiet(u)}
  BY DEF Restart, redis
<1>2. Len(awaiting') = 0 /\ 1..0 = {}
  BY <1>1
<1>3. IsFiniteSet(notifying')
  BY <1>1, FS_EmptySet
<1>4. \A u \in Users : OneHandler(u)'
  BY <1>1, <1>2 DEF OneHandler, OneInQueue
<1>5. ASSUME NEW u \in Users, u \notin cut' PROVE Stage(u)'
  <2>1. SocketsOf(u) = {} /\ Quiet(u) /\ Stage(u) /\ SocketsOf(u)' = {}
    BY <1>1, <1>5 DEF Serial, SocketsOf
  <2> QED BY <1>1, <1>2, <2>1 DEF Stage, Shows
<1> QED BY <1>1, <1>3, <1>4, <1>5 DEF Serial

LEMMA SerialStays ==
  ASSUME MaxHandlers = 1
  PROVE  TypeOK /\ Serial /\ [Next]_vars => Serial'
<1> SUFFICES ASSUME TypeOK, Serial, [Next]_vars PROVE Serial'
  OBVIOUS
<1>1. CASE Resume
  <2>1. UNCHANGED cut
    BY <1>1 DEF Resume, Count, MarkOnline, DropKey, MarkOffline, AskFriends, Rest
  <2> QED BY <1>1, <2>1, ResumeOne, ResumeStage DEF Serial
<1>2. CASE \E t \in notifying : Notify(t)
  BY <1>2, NotifySerial
<1>3. CASE \E s \in Sockets : (\E u \in Users : Connect(s, u)) \/ Disconnect(s)
  BY <1>3, ConnectSerial, DisconnectSerial
<1>4. CASE Restart
  BY <1>4, RestartSerial
<1>5. CASE UNCHANGED vars
  <2>1. \A u \in Users : OneHandler(u)' <=> OneHandler(u)
    BY <1>5 DEF vars, OneHandler, OneInQueue, Mine
  <2>2. \A h, u : OnItsWay(h, u)' <=> OnItsWay(h, u)
    BY <1>5 DEF vars, redis, OnItsWay, Registers, Unregisters, Shows, SocketsOf
  <2>3. \A u \in Users : /\ Quiet(u)' <=> Quiet(u)
                         /\ Shows(u, SocketsOf(u) # {})' <=> Shows(u, SocketsOf(u) # {})
                         /\ \A t : Announces(t, u)' <=> Announces(t, u)
    BY <1>5 DEF vars, redis, Quiet, Shows, Announces, SocketsOf
  <2>4. \A u \in Users : Stage(u)' <=> Stage(u)
    BY <1>5, <2>2, <2>3 DEF vars, redis, Stage, Mine, SocketsOf
  <2> QED BY <1>5, <2>1, <2>4 DEF vars, Serial
<1> QED BY <1>1, <1>2, <1>3, <1>4, <1>5 DEF Next, System

LEMMA InitSerial == Init => Serial
<1> SUFFICES ASSUME Init PROVE Serial
  OBVIOUS
<1>1. Len(awaiting) = 0 /\ 1..0 = {} /\ IsFiniteSet(notifying) /\ notifying = {}
  BY FS_EmptySet DEF Init
<1> QED BY <1>1 DEF Init, Serial, OneHandler, OneInQueue, Stage, Shows, SocketsOf

LEMMA SerialInvariance == ASSUME MaxHandlers = 1 PROVE Spec => [](TypeOK /\ Serial)
<1>1. Init => TypeOK /\ Serial
  BY InitInv, InitSerial DEF Inv
<1>2. TypeOK /\ Serial /\ [Next]_vars => (TypeOK /\ Serial)'
  BY TypesStay, SerialStays
<1> QED BY <1>1, <1>2, PTL DEF Spec

\* asyncapi.yaml:63 "query which friends are online": when the events of a user do not overlap,
\* PresenceService.isOnline answers, once its handler is done, whether it has a socket.
THEOREM OnlineWhenSerial == ASSUME MaxHandlers = 1 PROVE Spec => []OnlineIffConnected
<1>1. Serial => OnlineIffConnected
  BY DEF Serial, OnlineIffConnected, Stage, Shows
<1> QED BY <1>1, SerialInvariance, PTL

\* presence.handler.ts, notifyFriends: when the events of a user do not overlap, its friends
\* were last told, once its handler is done, what isOnline answers.
THEOREM ToldWhenSerial == ASSUME MaxHandlers = 1 PROVE Spec => []FriendsTold
<1>1. Serial => FriendsTold
  BY DEF Serial, FriendsTold, Stage, Shows
<1> QED BY <1>1, SerialInvariance, PTL
=============================================================================

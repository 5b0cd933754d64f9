-------------------------- MODULE FriendshipProofs --------------------------
(***************************************************************************)
(* However many requests overlap, the rows of a pair of users and the      *)
(* requests about to add one never outnumber the requests in flight, and   *)
(* only the receiver accepts; for any users, requests and bounds.          *)
(***************************************************************************)
EXTENDS Friendship, FiniteSetTheorems, TLAPS

\* Ids are fresh, so an id read earlier still names the row it named, or none.
IdsFresh == \A i \in DOMAIN friends : i < nextId

\* What a request may still rely on when it writes.
SoundRequest(q) ==
  /\ q.op = "request" => q.user \in Users /\ q.to \in Users
  /\ q.op \in {"accept", "delete"} => q.id \in FriendId /\ q.id < nextId
  /\ q.op = "accept" /\ q.id \in DOMAIN friends => friends[q.id].to = q.user

\* The part of the invariant that is about one row or one request.
Sound == TypeOK /\ IdsFresh /\ \A r \in Requests : SoundRequest(req[r])

Inv == Sound /\ BoundedDuplicates
-----------------------------------------------------------------------------
LEMMA InitInv == Init => Inv
<1> SUFFICES ASSUME Init PROVE Inv
  OBVIOUS
<1>1. Sound
  BY FriendshipAssumption
     DEF Init, Sound, TypeOK, IdsFresh, SoundRequest, Request, Friend, FriendId, Idle
<1>2. ASSUME NEW u, NEW v PROVE Between(u, v) = {} /\ Requesting(u, v) = {}
  BY DEF Init, Between, Requesting, Idle
<1>3. Cardinality(Requests) \in Nat
  BY FS_CardinalityType, FriendshipAssumption
<1>4. BoundedDuplicates
  BY <1>2, <1>3, FS_EmptySet DEF BoundedDuplicates
<1> QED BY <1>1, <1>4 DEF Inv

\* The request that steps is replaced by q; the others stay.
LEMMA RequestUpdate ==
  ASSUME NEW r \in Requests, NEW q \in Request, Sound, req' = [req EXCEPT ![r] = q]
  PROVE  /\ req' \in [Requests -> Request]
         /\ req'[r] = q
         /\ \A s \in Requests : s # r => req'[s] = req[s]
BY DEF Sound, TypeOK

LEMMA IdleRequest == Idle \in Request /\ Idle.op = "idle"
BY DEF Idle, Request

\* A step that only reads, and returns or leaves a sound request behind.
LEMMA ReadSound ==
  ASSUME NEW r \in Requests, NEW q \in Request, Sound, SoundRequest(q), Reads, Begin(r, q)
  PROVE  Sound'
<1>1. req' = [req EXCEPT ![r] = q] /\ friends' = friends /\ nextId' = nextId
  BY DEF Begin, Reads
<1>2. /\ req' \in [Requests -> Request]
      /\ req'[r] = q
      /\ \A s \in Requests : s # r => req'[s] = req[s]
  BY <1>1, RequestUpdate
<1>3. TypeOK' /\ IdsFresh'
  BY <1>1, <1>2 DEF Sound, TypeOK, IdsFresh
<1>4. ASSUME NEW s \in Requests PROVE SoundRequest(req[s])'
  BY <1>1, <1>2 DEF Sound, SoundRequest
<1> QED BY <1>3, <1>4 DEF Sound

\* A step that writes and returns keeps Sound if rows keep their receiver and new ids
\* are fresh.
LEMMA WriteSound ==
  ASSUME NEW r \in Requests, Sound, Return(r),
         DOMAIN friends' \subseteq FriendId,
         \A i \in DOMAIN friends' : friends'[i] \in Friend /\ i < nextId',
         nextId' \in 1..MaxRow + 1, nextId' >= nextId,
         \A i \in DOMAIN friends' : i < nextId => i \in DOMAIN friends /\ friends'[i].to = friends[i].to
  PROVE  Sound'
<1>1. /\ req' \in [Requests -> Request]
      /\ req'[r] = Idle
      /\ \A s \in Requests : s # r => req'[s] = req[s]
  BY RequestUpdate, IdleRequest DEF Return
<1>2. TypeOK' /\ IdsFresh'
  BY <1>1 DEF Sound, TypeOK, IdsFresh
<1>3. ASSUME NEW s \in Requests PROVE SoundRequest(req[s])'
  <2>1. CASE s = r
    BY <1>1, <2>1, IdleRequest DEF SoundRequest
  <2>2. CASE s # r
    <3>1. req'[s] = req[s] /\ SoundRequest(req[s])
      BY <1>1, <2>2 DEF Sound
    <3>2. nextId \in Nat /\ nextId' \in Nat /\ FriendId \subseteq Nat
      BY FriendshipAssumption DEF Sound, TypeOK, FriendId
    <3> DEFINE q == req[s]
    <3>3. SoundRequest(q) /\ q = req'[s]
      BY <3>1
    <3> HIDE DEF q
    <3>4. q.op \in {"accept", "delete"} => q.id \in FriendId /\ q.id < nextId'
      BY <3>2, <3>3, FriendshipAssumption DEF SoundRequest, FriendId
    <3>5. q.op = "accept" /\ q.id \in DOMAIN friends' => friends'[q.id].to = q.user
      BY <3>3 DEF SoundRequest
    <3> QED BY <3>3, <3>4, <3>5 DEF SoundRequest
  <2> QED BY <2>1, <2>2
<1> QED BY <1>2, <1>3 DEF Sound
-----------------------------------------------------------------------------
LEMMA PairFinite ==
  ASSUME Sound, NEW u, NEW v
  PROVE  /\ IsFiniteSet(Between(u, v)) /\ Cardinality(Between(u, v)) \in Nat
         /\ IsFiniteSet(Requesting(u, v)) /\ Cardinality(Requesting(u, v)) \in Nat
<1>1. IsFiniteSet(FriendId) /\ Between(u, v) \subseteq FriendId
  BY FS_Interval, FriendshipAssumption DEF Sound, TypeOK, FriendId, Between
<1>2. IsFiniteSet(Requests) /\ Requesting(u, v) \subseteq Requests
  BY FriendshipAssumption DEF Requesting
<1>3. IsFiniteSet(Between(u, v)) /\ IsFiniteSet(Requesting(u, v))
  BY <1>1, <1>2, FS_Subset
<1> QED BY <1>3, FS_CardinalityType

\* Rows and requests of a pair that only disappear keep the bound.
LEMMA FewerBounded ==
  ASSUME Inv, NEW u \in Users, NEW v \in Users,
         Between(u, v)' \subseteq Between(u, v),
         Requesting(u, v)' \subseteq Requesting(u, v)
  PROVE  Cardinality(Between(u, v)') + Cardinality(Requesting(u, v)') <= Cardinality(Requests)
<1>1. /\ IsFiniteSet(Between(u, v)) /\ Cardinality(Between(u, v)) \in Nat
      /\ IsFiniteSet(Requesting(u, v)) /\ Cardinality(Requesting(u, v)) \in Nat
  BY PairFinite DEF Inv
<1>2. /\ Cardinality(Between(u, v)') <= Cardinality(Between(u, v))
      /\ Cardinality(Requesting(u, v)') <= Cardinality(Requesting(u, v))
      /\ IsFiniteSet(Between(u, v)') /\ IsFiniteSet(Requesting(u, v)')
  BY <1>1, FS_Subset
<1>3. /\ Cardinality(Between(u, v)') \in Nat /\ Cardinality(Requesting(u, v)') \in Nat
      /\ Cardinality(Requests) \in Nat
  BY <1>2, FS_CardinalityType, FriendshipAssumption
<1>4. Cardinality(Between(u, v)) + Cardinality(Requesting(u, v)) <= Cardinality(Requests)
  BY DEF Inv, BoundedDuplicates
<1> QED BY <1>1, <1>2, <1>3, <1>4

\* A pair without rows may have every request in flight ask for one.
LEMMA UnrelatedBounded ==
  ASSUME NEW u, NEW v, Between(u, v)' = {}
  PROVE  Cardinality(Between(u, v)') + Cardinality(Requesting(u, v)') <= Cardinality(Requests)
<1>1. Requesting(u, v)' \subseteq Requests
  BY DEF Requesting
<1>2. /\ Cardinality(Requesting(u, v)') <= Cardinality(Requests)
      /\ IsFiniteSet(Requesting(u, v)')
  BY <1>1, FS_Subset, FriendshipAssumption
<1>3. Cardinality(Requesting(u, v)') \in Nat /\ Cardinality(Requests) \in Nat
  BY <1>2, FS_CardinalityType, FriendshipAssumption
<1> QED BY <1>2, <1>3, FS_EmptySet

\* A request that writes the row it wanted stops wanting it.
LEMMA MovedBounded ==
  ASSUME Inv, NEW u \in Users, NEW v \in Users, NEW n, NEW r \in Requesting(u, v),
         Between(u, v)' = Between(u, v) \union {n},
         Requesting(u, v)' = Requesting(u, v) \ {r}
  PROVE  Cardinality(Between(u, v)') + Cardinality(Requesting(u, v)') <= Cardinality(Requests)
<1>1. /\ IsFiniteSet(Between(u, v)) /\ Cardinality(Between(u, v)) \in Nat
      /\ IsFiniteSet(Requesting(u, v)) /\ Cardinality(Requesting(u, v)) \in Nat
  BY PairFinite DEF Inv
<1>2. Cardinality(Between(u, v)') \in {Cardinality(Between(u, v)), Cardinality(Between(u, v)) + 1}
  BY <1>1, FS_AddElement
<1>3. Cardinality(Requesting(u, v)') = Cardinality(Requesting(u, v)) - 1
  BY <1>1, FS_RemoveElement
<1>4. /\ Cardinality(Between(u, v)) + Cardinality(Requesting(u, v)) <= Cardinality(Requests)
      /\ Cardinality(Requests) \in Nat
  BY FS_CardinalityType, FriendshipAssumption DEF Inv, BoundedDuplicates
<1> QED BY <1>1, <1>2, <1>3, <1>4
-----------------------------------------------------------------------------
LEMMA StartRequestInv == ASSUME Inv, NEW r \in Requests, StartRequest(r) PROVE Inv'
<1>1. PICK u \in Users, v \in Users :
        /\ Unrelated(u, v)
        /\ Begin(r, [Idle EXCEPT !.op = "request", !.user = u, !.to = v])
  BY DEF StartRequest
<1> DEFINE q == [Idle EXCEPT !.op = "request", !.user = u, !.to = v]
<1>2. q \in Request /\ SoundRequest(q) /\ q.op = "request" /\ q.user = u /\ q.to = v
  BY DEF Idle, Request, SoundRequest
<1> HIDE DEF q
<1>3. Sound /\ Reads /\ Begin(r, q)
  BY <1>1 DEF StartRequest, Inv, q
<1>4. Sound'
  BY <1>2, <1>3, ReadSound
<1>5. req'[r] = q /\ \A s \in Requests : s # r => req'[s] = req[s]
  BY <1>2, <1>3, RequestUpdate DEF Begin
<1>6. ASSUME NEW x \in Users, NEW y \in Users
      PROVE Cardinality(Between(x, y)') + Cardinality(Requesting(x, y)') <= Cardinality(Requests)
  <2>1. Between(x, y)' = Between(x, y)
    BY <1>3 DEF Reads, Between
  <2>2. CASE SamePair(u, v, x, y)
    <3>1. Between(x, y) = Between(u, v)
      BY <2>2 DEF Between, SamePair
    <3> QED BY <1>1, <2>1, <3>1, UnrelatedBounded DEF Unrelated
  <2>3. CASE ~ SamePair(u, v, x, y)
    <3>1. Requesting(x, y)' \subseteq Requesting(x, y)
      BY <1>2, <1>5, <2>3 DEF Requesting
    <3> QED BY <2>1, <3>1, FewerBounded
  <2> QED BY <2>2, <2>3
<1> QED BY <1>4, <1>6 DEF Inv, BoundedDuplicates

LEMMA InsertRequestInv == ASSUME Inv, NEW r \in Requests, InsertRequest(r) PROVE Inv'
<1> DEFINE row == [from |-> req[r].user, to |-> req[r].to, accepted |-> FALSE]
<1>1. row \in Friend /\ row.from = req[r].user /\ row.to = req[r].to
  BY DEF InsertRequest, Inv, Sound, SoundRequest, Friend
<1>2. /\ friends' = [i \in DOMAIN friends \union {nextId} |-> IF i = nextId THEN row ELSE friends[i]]
      /\ nextId' = nextId + 1 /\ nextId <= MaxRow /\ Return(r) /\ req[r].op = "request"
  BY DEF InsertRequest
<1> HIDE DEF row
<1>3. /\ nextId \in FriendId /\ nextId' \in 1..MaxRow + 1
      /\ nextId \in Nat /\ nextId' > nextId
      /\ DOMAIN friends \subseteq FriendId /\ FriendId \subseteq Nat
      /\ \A i \in DOMAIN friends : friends[i] \in Friend /\ i < nextId
  BY <1>2, FriendshipAssumption DEF Inv, Sound, TypeOK, IdsFresh, FriendId
<1>4. Sound'
  <2>1. DOMAIN friends' = DOMAIN friends \union {nextId}
    BY <1>2
  <2>2. \A i \in DOMAIN friends' : friends'[i] \in Friend /\ i < nextId'
    <3> SUFFICES ASSUME NEW i \in DOMAIN friends' PROVE friends'[i] \in Friend /\ i < nextId'
      OBVIOUS
    <3>1. CASE i = nextId
      BY <1>1, <1>2, <1>3, <3>1
    <3>2. CASE i # nextId
      <4>1. i \in DOMAIN friends /\ friends'[i] = friends[i]
        BY <1>2, <3>2
      <4>2. i \in Nat /\ i < nextId /\ friends[i] \in Friend
        BY <1>3, <4>1
      <4> QED BY <1>2, <1>3, <4>1, <4>2
    <3> QED BY <3>1, <3>2
  <2>3. \A i \in DOMAIN friends' :
          i < nextId => i \in DOMAIN friends /\ friends'[i].to = friends[i].to
    BY <1>2, <1>3
  <2>4. nextId' >= nextId
    BY <1>3
  <2> QED BY <1>2, <1>3, <2>1, <2>2, <2>3, <2>4, WriteSound DEF Inv
<1>5. req'[r] = Idle /\ \A s \in Requests : s # r => req'[s] = req[s]
  BY <1>2, RequestUpdate, IdleRequest DEF Inv, Return
<1>6. ASSUME NEW x \in Users, NEW y \in Users
      PROVE Cardinality(Between(x, y)') + Cardinality(Requesting(x, y)') <= Cardinality(Requests)
  <2>1. Requesting(x, y)' = Requesting(x, y) \ {r}
    BY <1>5, IdleRequest DEF Requesting
  <2>2. CASE r \in Requesting(x, y)
    <3>1. SamePair(row.from, row.to, x, y)
      BY <1>1, <2>2 DEF Requesting
    <3>2. Between(x, y)' = Between(x, y) \union {nextId}
      BY <1>2, <1>3, <3>1 DEF Between
    <3> QED BY <2>1, <2>2, <3>2, MovedBounded
  <2>3. CASE r \notin Requesting(x, y)
    <3>1. ~ SamePair(row.from, row.to, x, y)
      BY <1>1, <1>2, <2>3 DEF Requesting
    <3>2. Between(x, y)' \subseteq Between(x, y)
      BY <1>2, <1>3, <3>1 DEF Between
    <3> QED BY <2>1, <3>2, FewerBounded
  <2> QED BY <2>2, <2>3
<1> QED BY <1>4, <1>6 DEF Inv, BoundedDuplicates

\* Reading which row to accept or delete asks for no row.
LEMMA StartEditInv ==
  ASSUME Inv, NEW r \in Requests, StartAccept(r) \/ StartDelete(r)
  PROVE  Inv'
<1>1. PICK q \in Request : /\ Begin(r, q) /\ SoundRequest(q) /\ q.op # "request"
  <2>1. CASE StartAccept(r)
    <3>1. PICK u \in Users, i \in DOMAIN friends :
            /\ friends[i].to = u
            /\ Begin(r, [Idle EXCEPT !.op = "accept", !.user = u, !.id = i])
      BY <2>1 DEF StartAccept, MayAccept
    <3>2. i \in FriendId /\ i < nextId
      BY DEF Inv, Sound, TypeOK, IdsFresh
    <3> DEFINE q == [Idle EXCEPT !.op = "accept", !.user = u, !.id = i]
    <3>3. q \in Request /\ SoundRequest(q) /\ q.op # "request"
      BY <3>1, <3>2 DEF Idle, Request, SoundRequest
    <3>4. Begin(r, q)
      BY <3>1
    <3> HIDE DEF q
    <3> QED BY <3>3, <3>4
  <2>2. CASE StartDelete(r)
    <3>1. PICK u \in Users, i \in DOMAIN friends :
            Begin(r, [Idle EXCEPT !.op = "delete", !.user = u, !.id = i])
      BY <2>2 DEF StartDelete
    <3>2. i \in FriendId /\ i < nextId
      BY DEF Inv, Sound, TypeOK, IdsFresh
    <3> DEFINE q == [Idle EXCEPT !.op = "delete", !.user = u, !.id = i]
    <3>3. q \in Request /\ SoundRequest(q) /\ q.op # "request"
      BY <3>1, <3>2 DEF Idle, Request, SoundRequest
    <3>4. Begin(r, q)
      BY <3>1
    <3> HIDE DEF q
    <3> QED BY <3>3, <3>4
  <2> QED BY <2>1, <2>2
<1>2. Reads /\ Sound
  BY DEF StartAccept, StartDelete, Inv
<1>3. Sound'
  BY <1>1, <1>2, ReadSound
<1>4. req'[r] = q /\ \A s \in Requests : s # r => req'[s] = req[s]
  BY <1>1, <1>2, RequestUpdate DEF Begin
<1>5. \A x, y : Between(x, y)' = Between(x, y) /\ Requesting(x, y)' \subseteq Requesting(x, y)
  BY <1>1, <1>2, <1>4 DEF Reads, Between, Requesting
<1> QED BY <1>3, <1>5, FewerBounded DEF Inv, BoundedDuplicates

\* Accepting and deleting keep the users of the rows that stay.
LEMMA EditInv == ASSUME Inv, NEW r \in Requests, Accept(r) \/ Delete(r) PROVE Inv'
<1>1. /\ Return(r) /\ nextId' = nextId
      /\ DOMAIN friends' \subseteq DOMAIN friends
  BY DEF Accept, Delete
<1>2. ASSUME NEW i \in DOMAIN friends'
      PROVE  /\ friends'[i] \in Friend
             /\ friends'[i].from = friends[i].from
             /\ friends'[i].to = friends[i].to
  <2>1. friends[i] \in Friend /\ i \in DOMAIN friends
    BY <1>1 DEF Inv, Sound, TypeOK
  <2>2. CASE Accept(r)
    <3>1. friends'[i] = friends[i] \/ friends'[i] = [friends[i] EXCEPT !.accepted = TRUE]
      BY <2>1, <2>2 DEF Accept
    <3> QED BY <2>1, <3>1 DEF Friend
  <2>3. CASE Delete(r)
    BY <2>1, <2>3 DEF Delete
  <2> QED BY <2>2, <2>3
<1>3. /\ nextId \in 1..MaxRow + 1 /\ nextId >= nextId
      /\ DOMAIN friends \subseteq FriendId
      /\ \A i \in DOMAIN friends : i < nextId
  BY FriendshipAssumption DEF Inv, Sound, TypeOK, IdsFresh
<1>4. Sound'
  BY <1>1, <1>2, <1>3, WriteSound DEF Inv
<1>5. req'[r] = Idle /\ \A s \in Requests : s # r => req'[s] = req[s]
  BY <1>1, RequestUpdate, IdleRequest DEF Inv, Return
<1>6. \A x, y : /\ Between(x, y)' \subseteq Between(x, y)
                /\ Requesting(x, y)' \subseteq Requesting(x, y)
  BY <1>1, <1>2, <1>5, IdleRequest DEF Between, Requesting
<1> QED BY <1>4, <1>6, FewerBounded DEF Inv, BoundedDuplicates

LEMMA RestartInv == ASSUME Inv, Restart PROVE Inv'
<1>1. req' = [r \in Requests |-> Idle] /\ friends' = friends /\ nextId' = nextId
  BY DEF Restart, Reads
<1>2. Sound'
  BY <1>1, IdleRequest DEF Inv, Sound, TypeOK, IdsFresh, SoundRequest
<1>3. \A x, y : Between(x, y)' = Between(x, y) /\ Requesting(x, y)' \subseteq Requesting(x, y)
  BY <1>1, IdleRequest DEF Between, Requesting
<1> QED BY <1>2, <1>3, FewerBounded DEF Inv, BoundedDuplicates

LEMMA NextInv == Inv /\ [Next]_vars => Inv'
<1> SUFFICES ASSUME Inv, [Next]_vars PROVE Inv'
  OBVIOUS
<1>1. ASSUME NEW r \in Requests, Step(r) PROVE Inv'
  BY <1>1, StartRequestInv, InsertRequestInv, StartEditInv, EditInv DEF Step
<1>2. CASE UNCHANGED vars
  BY <1>2 DEF vars, Inv, Sound, TypeOK, IdsFresh, SoundRequest, BoundedDuplicates, Between,
              Requesting
<1> QED BY <1>1, <1>2, RestartInv DEF Next
-----------------------------------------------------------------------------
\* Every reachable state satisfies the inductive invariant.
THEOREM Invariance == Spec => []Inv
<1> QED BY InitInv, NextInv, PTL DEF Spec

\* Type correctness of friend rows and requests.
THEOREM TypeCorrect == Spec => []TypeOK
<1>1. Inv => TypeOK
  BY DEF Inv, Sound
<1> QED BY <1>1, Invariance, PTL

\* Overlapping friend requests leave at most as many rows of a pair as there were
\* requests in flight.
THEOREM DuplicatesBounded == Spec => []BoundedDuplicates
<1>1. Inv => BoundedDuplicates
  BY DEF Inv
<1> QED BY <1>1, Invariance, PTL

\* With one request at a time the row of a pair of users is unique.
THEOREM UniqueWhenSerial ==
  ASSUME Cardinality(Requests) = 1
  PROVE  Spec => [](\A u, v \in Users : Cardinality(Between(u, v)) <= 1)
<1>1. Inv => \A u, v \in Users : Cardinality(Between(u, v)) <= 1
  <2> SUFFICES ASSUME Inv, NEW u \in Users, NEW v \in Users
               PROVE  Cardinality(Between(u, v)) <= 1
    OBVIOUS
  <2>1. Cardinality(Between(u, v)) \in Nat /\ Cardinality(Requesting(u, v)) \in Nat
    BY PairFinite DEF Inv
  <2>2. Cardinality(Between(u, v)) + Cardinality(Requesting(u, v)) <= 1
    BY DEF Inv, BoundedDuplicates
  <2> QED BY <2>1, <2>2
<1> QED BY <1>1, Invariance, PTL

\* What FriendshipAgreed says of one row.
Agreed(i) ==
  friends'[i].accepted =>
    /\ i \in DOMAIN friends
    /\ \/ friends[i].accepted
       \/ \E r \in Requests : /\ req[r].op = "accept"
                              /\ req[r].id = i
                              /\ req[r].user = friends[i].to

LEMMA StepAgreed == ASSUME Inv, [Next]_vars, NEW i \in DOMAIN friends' PROVE Agreed(i)
<1>1. CASE UNCHANGED friends
  BY <1>1 DEF Agreed
<1>2. ASSUME NEW r \in Requests, InsertRequest(r) PROVE Agreed(i)
  BY <1>2 DEF InsertRequest, Agreed
<1>3. ASSUME NEW r \in Requests, Accept(r) PROVE Agreed(i)
  <2>1. SoundRequest(req[r]) /\ req[r].op = "accept"
    BY <1>3 DEF Inv, Sound, Accept
  <2>2. CASE i = req[r].id
    BY <1>1, <1>3, <2>1, <2>2 DEF Accept, SoundRequest, Agreed
  <2>3. CASE i # req[r].id
    BY <1>3, <2>3 DEF Accept, Agreed
  <2> QED BY <2>2, <2>3
<1>4. ASSUME NEW r \in Requests, Delete(r) PROVE Agreed(i)
  BY <1>4 DEF Delete, Agreed
<1> QED BY <1>1, <1>2, <1>3, <1>4
        DEF Next, Step, Restart, Reads, StartRequest, StartAccept, StartDelete, vars

\* A friendship is accepted by its receiver and by nobody else, though the check is an
\* await before the write.
THEOREM AgreedByReceiver == Spec => FriendshipAgreed
<1>1. Inv /\ [Next]_vars =>
        [\A i \in DOMAIN friends' : friends'[i].accepted =>
           /\ i \in DOMAIN friends
           /\ \/ friends[i].accepted
              \/ \E r \in Requests : /\ req[r].op = "accept"
                                     /\ req[r].id = i
                                     /\ req[r].user = friends[i].to]_vars
  BY StepAgreed DEF Agreed
<1> QED BY <1>1, Invariance, PTL DEF Spec, FriendshipAgreed
-----------------------------------------------------------------------------
(* The lists *)

\* A list names who is the other user of one of its rows.
LEMMA NamesOfRows ==
  ASSUME NEW u, NEW v, NEW rows
  PROVE  v \in Names(Items(u, rows)) <=> \E i \in rows : Target(u, friends[i]) = v
<1>1. ASSUME v \in Names(Items(u, rows)) PROVE \E i \in rows : Target(u, friends[i]) = v
  <2>1. PICK x \in Items(u, rows) : x.user = v
    BY <1>1 DEF Names
  <2>2. PICK i \in rows : x = [request |-> i, user |-> Target(u, friends[i])]
    BY <2>1 DEF Items
  <2> QED BY <2>1, <2>2
<1>2. ASSUME NEW i \in rows, Target(u, friends[i]) = v PROVE v \in Names(Items(u, rows))
  <2> DEFINE x == [request |-> i, user |-> Target(u, friends[i])]
  <2>1. x \in Items(u, rows) /\ x.user = v
    BY <1>2 DEF Items
  <2> HIDE DEF x
  <2> QED BY <2>1 DEF Names
<1> QED BY <1>1, <1>2

\* Friends are the users of an accepted row, whichever of them asks.
LEMMA FriendsOfRows ==
  ASSUME TypeOK, NEW u \in Users, NEW v \in Users
  PROVE  v \in Names(FriendList(u))
           <=> \E i \in DOMAIN friends :
                 friends[i].accepted /\ SamePair(friends[i].from, friends[i].to, u, v)
<1>1. ASSUME NEW i \in DOMAIN friends
      PROVE  (u \in {friends[i].from, friends[i].to} /\ Target(u, friends[i]) = v)
               <=> SamePair(friends[i].from, friends[i].to, u, v)
  BY DEF Target, SamePair
<1>2. v \in Names(FriendList(u)) <=> \E i \in FriendRows(u) : Target(u, friends[i]) = v
  BY NamesOfRows DEF FriendList
<1> QED BY <1>1, <1>2 DEF FriendRows

\* mapFriendToItem and searchFriendByNickname: whatever rows overlapping requests leave
\* behind, two users see the same friendship, what one has received the other has sent,
\* and a search finds all friends with the nickname and nobody else.
THEOREM ListsOfTwoAgree == Spec => []ListsAgree
<1>1. TypeOK => ListsAgree
  <2> SUFFICES ASSUME TypeOK, NEW u \in Users, NEW v \in Users
               PROVE  /\ v \in Names(FriendList(u)) <=> u \in Names(FriendList(v))
                      /\ v \in Names(ReceivedList(u)) => u \in Names(SentList(v))
                      /\ \A M \in SUBSET Users :
                           /\ Search(u, M) \subseteq FriendList(u)
                           /\ v \in M /\ v \in Names(FriendList(u)) => v \in Names(Search(u, M))
    BY DEF ListsAgree
  <2>1. v \in Names(FriendList(u)) <=> u \in Names(FriendList(v))
    BY FriendsOfRows DEF SamePair
  <2>2. ASSUME v \in Names(ReceivedList(u)) PROVE u \in Names(SentList(v))
    <3>1. PICK i \in DOMAIN friends : friends[i].to = u /\ Target(u, friends[i]) = v
      BY <2>2, NamesOfRows DEF ReceivedList
    <3>2. friends[i].from = v /\ Target(v, friends[i]) = u
      BY <3>1 DEF Target
    <3> QED BY <3>2, NamesOfRows DEF SentList
  <2>3. ASSUME NEW M \in SUBSET Users PROVE Search(u, M) \subseteq FriendList(u)
    BY DEF Search, FriendList, Items
  <2>4. ASSUME NEW M \in SUBSET Users, v \in M, v \in Names(FriendList(u))
        PROVE  v \in Names(Search(u, M))
    <3>1. PICK i \in FriendRows(u) : Target(u, friends[i]) = v
      BY <2>4, NamesOfRows DEF FriendList
    <3>2. friends[i].from = v \/ friends[i].to = v
      BY <3>1 DEF Target
    <3>3. i \in {k \in FriendRows(u) : friends[k].from \in M \/ friends[k].to \in M}
      BY <2>4, <3>2
    <3> QED BY <3>1, <3>3, NamesOfRows DEF Search
  <2> QED BY <2>1, <2>2, <2>3, <2>4
<1> QED BY <1>1, TypeCorrect, PTL
=============================================================================

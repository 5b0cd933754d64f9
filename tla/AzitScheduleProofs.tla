------------------------- MODULE AzitScheduleProofs -------------------------
(***************************************************************************)
(* Participations join members and schedules of one azit, only the creator *)
(* edits a schedule, and overlapping requests oversubscribe it by at most  *)
(* one seat each, for any number of users, requests, azits and schedules,  *)
(* while members and azits come and go.                                    *)
(*                                                                         *)
(* A request holds on to three things across its awaits: the id of a       *)
(* member row, a copy of a schedule, and the role it found.  Ids are never *)
(* reused and the azit and creator of a schedule never change, so what it  *)
(* knows of the rows that are left stays true (SoundRequest).              *)
(*                                                                         *)
(* With one request at a time the copy is the schedule itself until it is  *)
(* written (CopyCurrent), which is what keeps its times in order.          *)
(***************************************************************************)
EXTENDS AzitSchedule, FiniteSetTheorems, TLAPS

Edits(q)  == q.op \in {"update", "delete"}
Attends(q) == q.op \in {"cancel", "setStatus"}

\* The position of a request in its operation, and its parameters.
OnPath(q) ==
  /\ q.op = "idle" => q.pc = "idle"
  /\ q.op = "create" => q.pc \in {"azit", "member", "write"}
  /\ Edits(q) => q.pc \in {"schedule", "member", "creator", "write"} /\ q.sched \in ScheduleId
  /\ q.op = "cancel" => /\ q.pc \in {"azit", "member", "schedule", "exists", "write"}
                        /\ q.sched \in ScheduleId /\ q.status = "CANCELLED"
  /\ q.op = "setStatus" =>
       /\ q.pc \in {"azit", "member", "schedule", "count", "exists", "find", "write"}
       /\ q.sched \in ScheduleId /\ q.status \in Status
  /\ q.op # "idle" => q.azit \in AzitId

\* The member row found earlier: whoever has that id now is a member of the azit.
HasMember(q) ==
  \/ q.pc \in {"creator", "count", "exists", "find", "write"}
  \/ Attends(q) /\ q.pc = "schedule"
MemberRead(q) ==
  HasMember(q) =>
    /\ q.member \in MemberId /\ q.member < nextMember
    /\ \A m \in azitUser : m.id = q.member => m.azit = q.azit

\* The schedule found earlier is of the azit, and its limit was never lower than now.
HasSchedule(q) ==
  \/ Edits(q) /\ q.pc \in {"member", "creator", "write"}
  \/ Attends(q) /\ q.pc \in {"count", "exists", "find", "write"}
ScheduleRead(q) ==
  HasSchedule(q) =>
    /\ q.copy \in Schedule /\ q.sched < nextSchedule
    /\ q.sched \in DOMAIN schedule =>
         schedule[q.sched].azit = q.azit /\ q.copy.max <= schedule[q.sched].peak

\* A request about to edit a schedule does so for its creator.
EditsOwn(q) ==
  Edits(q) /\ q.pc = "write" /\ q.sched \in DOMAIN schedule =>
    schedule[q.sched].creator = q.member

SoundRequest(q) == OnPath(q) /\ MemberRead(q) /\ ScheduleRead(q) /\ EditsOwn(q)

ScheduleTypeOK ==
  /\ DOMAIN schedule \subseteq ScheduleId
  /\ \A s \in DOMAIN schedule : schedule[s] \in Schedule
  /\ participation \subseteq Participation
  /\ nextSchedule \in 1..MaxSchedule + 1
  /\ now \in Time

\* Schedules and their creators were handed out before.
KnownIds ==
  \A s \in DOMAIN schedule :
    s < nextSchedule /\ schedule[s].creator < nextMember /\ schedule[s].max <= schedule[s].peak

RowsOK == ScheduleTypeOK /\ KnownIds /\ SameAzit /\ CreatorKept

Sound ==
  /\ TableInv /\ RowsOK
  /\ req \in [Requests -> Request]
  /\ \A r \in Requests : SoundRequest(req[r])

\* The seats taken and claimed.
SeatsOK(s) ==
  /\ IsFiniteSet(Joined(s))
  /\ Cardinality(Joined(s)) + Cardinality(Validated(s))
       <= schedule[s].peak + Cardinality(Requests) - 1

Inv == Sound /\ \A s \in DOMAIN schedule : SeatsOK(s)
-----------------------------------------------------------------------------
\* The invariant of MemberTable, which every step of the other services keeps (the
\* same argument as in AzitMembershipProofs).
LEMMA TableInitInv == TableInit => TableInv
BY MemberTableAssumption
   DEF TableInit, TableInv, TableTypeOK, IdsFresh, MembersReferToAzits, OneHost, HostHasOneRow

LEMMA TableNextInv == TableInv /\ [TableNext]_tableVars => TableInv'
<1> SUFFICES ASSUME TableInv, [TableNext]_tableVars PROVE TableInv'
  OBVIOUS
<1> USE MemberTableAssumption
<1> USE DEF TableInv, TableTypeOK, IdsFresh, MembersReferToAzits, OneHost, HostHasOneRow,
            Member, AzitId, MemberId, Role, Hosts
<1>1. ASSUME NEW u \in Users, CreateAzit(u) PROVE TableInv'
  <2> DEFINE new == NewMember(u, nextAzit, "HOST")
  <2>1. azitUser' = azitUser \union {new} /\ azits' = azits \union {nextAzit}
    BY <1>1 DEF CreateAzit
  <2>2. new \in Member /\ Hosts(new, nextAzit) /\ new.id = nextMember
    BY <1>1 DEF CreateAzit, NewMember
  <2>3. (TableTypeOK /\ IdsFresh /\ MembersReferToAzits)'
    BY <1>1, <2>1, <2>2 DEF CreateAzit
  <2>4. OneHost'
    BY <2>1, <2>2
  <2>5. HostHasOneRow'
    BY <2>1, <2>2
  <2> QED BY <2>3, <2>4, <2>5
<1>2. ASSUME NEW u \in Users, NEW a \in azits, AddMember(u, a) PROVE TableInv'
  <2> DEFINE new == NewMember(u, a, "MEMBER")
  <2>1. azitUser' = azitUser \union {new} /\ azits' = azits
    BY <1>2 DEF AddMember
  <2>2. new \in Member /\ new.role = "MEMBER" /\ new.id = nextMember /\ new.user = u /\ new.azit = a
    BY <1>2 DEF AddMember, NewMember
  <2>3. (TableTypeOK /\ IdsFresh /\ MembersReferToAzits)'
    BY <1>2, <2>1, <2>2 DEF AddMember
  <2>4. OneHost'
    BY <2>1, <2>2
  <2>5. HostHasOneRow'
    BY <1>2, <2>1, <2>2 DEF AddMember
  <2> QED BY <2>3, <2>4, <2>5
<1>3. ASSUME NEW m \in azitUser, RemoveMember(m) PROVE TableInv'
  BY <1>3 DEF RemoveMember
<1>4. ASSUME NEW a \in azits, DeleteAzit(a) PROVE TableInv'
  <2>1. (TableTypeOK /\ IdsFresh /\ MembersReferToAzits)'
    BY <1>4 DEF DeleteAzit
  <2>2. (OneHost /\ HostHasOneRow)'
    BY <1>4 DEF DeleteAzit
  <2> QED BY <2>1, <2>2
<1>5. CASE UNCHANGED tableVars
  BY <1>5 DEF tableVars
<1> QED BY <1>1, <1>2, <1>3, <1>4, <1>5 DEF TableNext

(* Numbers. *)

LEMMA Sizes ==
  /\ Capacities \subseteq Nat /\ \A c \in Capacities : c >= 2
  /\ MemberId \subseteq Nat /\ ScheduleId \subseteq Nat /\ AzitId \subseteq Nat
  /\ None \notin Capacities /\ None \notin Time /\ None \notin Nat
<1>1. /\ MaxSchedule \in Nat /\ MaxTime \in Nat /\ Capacities \subseteq Nat \ {0, 1} /\ None \notin Nat
      /\ MaxAzit \in Nat /\ MaxMember \in Nat
  BY ScheduleAssumption, MemberTableAssumption
<1>2. Capacities \subseteq Nat /\ \A c \in Capacities : c >= 2
  BY <1>1
<1>3. MemberId \subseteq Nat /\ ScheduleId \subseteq Nat /\ AzitId \subseteq Nat
  BY <1>1 DEF MemberId, ScheduleId, AzitId
<1>4. None \notin Capacities /\ None \notin Nat
  BY <1>1
<1>5. None \notin Time
  BY <1>1 DEF Time
<1> QED BY <1>2, <1>3, <1>4, <1>5

\* Rows that appear have fresh ids, and rows that stay keep what requests rely on.
Ages ==
  /\ nextMember' \in Nat /\ nextMember <= nextMember'
  /\ nextSchedule' \in Nat /\ nextSchedule <= nextSchedule'
  /\ \A m \in azitUser' : m \in azitUser \/ m.id = nextMember
  /\ \A s \in DOMAIN schedule' :
       \/ s = nextSchedule
       \/ /\ s \in DOMAIN schedule
          /\ schedule'[s].azit = schedule[s].azit
          /\ schedule'[s].creator = schedule[s].creator
          /\ schedule'[s].peak \in Nat /\ schedule'[s].peak >= schedule[s].peak

\* Nothing a request knows is undone by rows that come and go.
LEMMA SoundStable ==
  ASSUME NEW q, SoundRequest(q), TableInv, RowsOK, Ages PROVE SoundRequest(q)'
<1>1. nextMember \in Nat /\ nextSchedule \in Nat
  BY MemberTableAssumption, ScheduleAssumption
     DEF TableInv, TableTypeOK, RowsOK, ScheduleTypeOK
<1>a. /\ nextMember' \in Nat /\ nextMember <= nextMember'
      /\ nextSchedule' \in Nat /\ nextSchedule <= nextSchedule'
  BY DEF Ages
<1>2. OnPath(q)'
  BY DEF SoundRequest, OnPath, Edits
<1>3. MemberRead(q)'
  <2> SUFFICES ASSUME HasMember(q) PROVE MemberRead(q)'
    BY DEF MemberRead, HasMember, Attends
  <2>1. /\ q.member \in Nat /\ q.member \in MemberId /\ q.member < nextMember
        /\ \A m \in azitUser : m.id = q.member => m.azit = q.azit
    BY Sizes DEF SoundRequest, MemberRead
  <2>2. q.member < nextMember' /\ q.member # nextMember
    BY <1>1, <1>a, <2>1
  <2> QED BY <2>1, <2>2 DEF MemberRead, Ages
<1>4. ScheduleRead(q)'
  <2> SUFFICES ASSUME HasSchedule(q) PROVE ScheduleRead(q)'
    BY DEF ScheduleRead, HasSchedule, Edits, Attends
  <2>1. q.sched \in ScheduleId /\ q.sched < nextSchedule /\ q.copy \in Schedule
    BY DEF SoundRequest, OnPath, ScheduleRead, HasSchedule, Edits, Attends
  <2>n. q.sched \in Nat
    BY <2>1, Sizes
  <2>2. q.sched < nextSchedule'
    BY <1>1, <1>a, <2>1, <2>n
  <2>3. ASSUME q.sched \in DOMAIN schedule'
        PROVE  schedule'[q.sched].azit = q.azit /\ q.copy.max <= schedule'[q.sched].peak
    <3>1. q.sched \in DOMAIN schedule /\ schedule[q.sched].azit = q.azit
          /\ q.copy.max <= schedule[q.sched].peak
          /\ schedule'[q.sched].azit = schedule[q.sched].azit
          /\ schedule'[q.sched].peak \in Nat /\ schedule'[q.sched].peak >= schedule[q.sched].peak
      BY <1>1, <2>1, <2>3, Sizes DEF SoundRequest, ScheduleRead, Ages
    <3>2. q.copy.max \in Nat /\ schedule[q.sched].peak \in Nat
      BY <2>1, <3>1, Sizes DEF RowsOK, ScheduleTypeOK, Schedule
    <3> QED BY <3>1, <3>2
  <2> QED BY <2>1, <2>2, <2>3 DEF ScheduleRead
<1>5. EditsOwn(q)'
  <2>1. Edits(q) /\ q.pc = "write" => q.sched \in ScheduleId /\ q.sched < nextSchedule
    BY DEF SoundRequest, OnPath, ScheduleRead, HasSchedule, Edits
  <2> QED BY <1>1, <2>1, Sizes DEF SoundRequest, EditsOwn, Edits, Ages
<1> QED BY <1>2, <1>3, <1>4, <1>5 DEF SoundRequest

LEMMA IdleSound == Idle \in Request /\ SoundRequest(Idle)
BY DEF Idle, Request, Ops, Pcs, SoundRequest, OnPath, MemberRead, HasMember, ScheduleRead,
       HasSchedule, EditsOwn, Edits, Attends

\* A step of one request, or of none, that leaves sound requests behind.
LEMMA StepSound ==
  ASSUME Sound, TableInv', RowsOK', Ages, req' \in [Requests -> Request],
         \A s \in Requests : req'[s] = req[s] \/ SoundRequest(req'[s])
  PROVE  Sound'
<1>1. ASSUME NEW s \in Requests PROVE SoundRequest(req[s])'
  <2>1. PICK p : SoundRequest(p) /\ req'[s] = p
    BY DEF Sound
  <2>2. SoundRequest(p)'
    BY <2>1, SoundStable DEF Sound
  <2> QED BY <2>1, <2>2 DEF SoundRequest, OnPath, MemberRead, HasMember, ScheduleRead,
                           HasSchedule, EditsOwn, Edits, Attends
<1> QED BY <1>1 DEF Sound
-----------------------------------------------------------------------------
(* Steps that read. *)

\* The seat a request is about to take, having found one free.
Claims(q, s) == /\ q.op = "setStatus" /\ q.status = "JOIN" /\ q.sched = s
                /\ q.pc \in {"exists", "find", "write"}

LEMMA ValidatedClaims == \A s : Validated(s) = {r \in Requests : Claims(req[r], s)}
BY DEF Validated, Claims

\* A move of r to a sound state that claims no seat but the one it has claimed.
Local(r) == \E q \in Request : /\ SoundRequest(q) /\ Become(r, q)
                               /\ \A s \in ScheduleId : Claims(q, s) => Claims(req[r], s)

LEMMA ReturnLocal == ASSUME NEW r, Return(r) PROVE Local(r)
BY IdleSound DEF Return, Local, Claims, Idle

\* What is known of a request that moves on.
LEMMA Moves ==
  ASSUME Sound, NEW r \in Requests
  PROVE  req[r] \in Request /\ SoundRequest(req[r])
BY DEF Sound

LEMMA Advance ==
  ASSUME NEW q \in Request, NEW p \in Pcs
  PROVE  /\ [q EXCEPT !.pc = p] \in Request
         /\ \A m \in MemberId : [q EXCEPT !.member = m, !.pc = p] \in Request
         /\ \A c \in Schedule : [q EXCEPT !.copy = c, !.pc = p] \in Request
         /\ \A b \in BOOLEAN : [q EXCEPT !.found = b, !.pc = p] \in Request
BY DEF Request

LEMMA StartLocal ==
  ASSUME NEW r \in Requests, StartCreate(r) \/ StartEdit(r) \/ StartParticipation(r)
  PROVE  Local(r)
<1> USE DEF Idle, Request, Ops, Pcs, SoundRequest, OnPath, MemberRead, HasMember, ScheduleRead,
            HasSchedule, EditsOwn, Edits, Attends, Begin, Local, Claims
<1>1. CASE StartCreate(r)
  <2>1. PICK u \in Users, a \in AzitId :
          Become(r, [Idle EXCEPT !.op = "create", !.pc = "azit", !.user = u, !.azit = a])
    BY <1>1 DEF StartCreate
  <2> DEFINE q == [Idle EXCEPT !.op = "create", !.pc = "azit", !.user = u, !.azit = a]
  <2>2. q \in Request /\ q.op = "create" /\ q.pc = "azit" /\ q.azit = a
    OBVIOUS
  <2> HIDE DEF q
  <2>3. SoundRequest(q) /\ \A s : ~ Claims(q, s)
    BY <2>2
  <2> QED BY <2>1, <2>2, <2>3 DEF q
<1>2. CASE StartEdit(r)
  <2>1. PICK op \in {"update", "delete"}, u \in Users, a \in AzitId, s \in ScheduleId :
          Become(r, [Idle EXCEPT !.op = op, !.pc = "schedule", !.user = u, !.azit = a, !.sched = s])
    BY <1>2 DEF StartEdit
  <2> DEFINE q == [Idle EXCEPT !.op = op, !.pc = "schedule", !.user = u, !.azit = a, !.sched = s]
  <2>2. q \in Request /\ q.op = op /\ q.pc = "schedule" /\ q.azit = a /\ q.sched = s
    OBVIOUS
  <2> HIDE DEF q
  <2>3. SoundRequest(q) /\ \A x : ~ Claims(q, x)
    BY <2>2
  <2> QED BY <2>1, <2>2, <2>3 DEF q
<1>3. CASE StartParticipation(r)
  <2>1. PICK op \in {"setStatus", "cancel"}, u \in Users, a \in AzitId, s \in ScheduleId, st \in Status :
          /\ op = "cancel" => st = "CANCELLED"
          /\ Become(r, [Idle EXCEPT !.op = op, !.pc = "azit", !.user = u, !.azit = a, !.sched = s,
                                    !.status = st])
    BY <1>3, ScheduleAssumption DEF StartParticipation, Status
  <2> DEFINE q == [Idle EXCEPT !.op = op, !.pc = "azit", !.user = u, !.azit = a, !.sched = s,
                               !.status = st]
  <2>2. /\ q \in Request /\ q.op = op /\ q.pc = "azit" /\ q.azit = a /\ q.sched = s
        /\ q.status = st
    OBVIOUS
  <2> HIDE DEF q
  <2>3. SoundRequest(q) /\ \A x : ~ Claims(q, x)
    BY <2>1, <2>2
  <2> QED BY <2>1, <2>2, <2>3 DEF q
<1> QED BY <1>1, <1>2, <1>3

LEMMA FindAzitLocal == ASSUME Sound, NEW r \in Requests, FindAzit(r) PROVE Local(r)
<1> DEFINE q == req[r]
           n == [q EXCEPT !.pc = "member"]
<1>1. q \in Request /\ SoundRequest(q) /\ q.pc = "azit"
  BY Moves DEF FindAzit
<1>2. n \in Request
  BY <1>1, Advance DEF Pcs
<1>3. SoundRequest(n)
  BY <1>1 DEF Request, SoundRequest, OnPath, MemberRead, HasMember, ScheduleRead, HasSchedule,
              EditsOwn, Edits, Attends
<1>4. \A s : Claims(n, s) => Claims(q, s)
  BY <1>1 DEF Claims, Request
<1> QED BY <1>2, <1>3, <1>4, ReturnLocal DEF FindAzit, Goto, Local

LEMMA FindMemberLocal == ASSUME Sound, NEW r \in Requests, FindMember(r) PROVE Local(r)
<1> DEFINE q == req[r]
<1>1. q \in Request /\ SoundRequest(q) /\ q.pc = "member"
  BY Moves DEF FindMember
<1>2. SUFFICES ASSUME NEW m \in azitUser, m.azit = q.azit,
                      Become(r, [q EXCEPT !.member = m.id, !.pc = AfterMember(q.op)])
               PROVE  Local(r)
  BY ReturnLocal DEF FindMember
<1> DEFINE n == [q EXCEPT !.member = m.id, !.pc = AfterMember(q.op)]
<1>3. /\ q.op = "create" => AfterMember(q.op) = "write"
      /\ Edits(q) => AfterMember(q.op) = "creator"
      /\ Attends(q) => AfterMember(q.op) = "schedule"
  <2>1. q.op = "create" => AfterMember(q.op) = "write"
    BY DEF AfterMember
  <2>2. q.op \in {"update", "delete"} => AfterMember(q.op) = "creator"
    BY DEF AfterMember
  <2>3. q.op \in {"cancel", "setStatus"} => AfterMember(q.op) = "schedule"
    BY DEF AfterMember
  <2> QED BY <2>1, <2>2, <2>3 DEF Edits, Attends
<1>4. m.id \in MemberId /\ m.id < nextMember /\ \A k \in azitUser : k.id = m.id => k.azit = q.azit
  BY <1>2 DEF Sound, TableInv, TableTypeOK, IdsFresh, Member
<1>5. q.op = "create" \/ Edits(q) \/ Attends(q)
  BY <1>1 DEF SoundRequest, OnPath, Request, Ops, Edits, Attends
<1>6. n \in Request
  BY <1>1, <1>3, <1>4, <1>5, Advance DEF Pcs
<1>7. /\ n.op = q.op /\ n.sched = q.sched /\ n.azit = q.azit /\ n.status = q.status
      /\ n.copy = q.copy /\ n.member = m.id /\ n.pc = AfterMember(q.op)
  BY <1>1 DEF Request
<1> HIDE DEF n
<1>8. SoundRequest(n)
  BY <1>1, <1>3, <1>4, <1>5, <1>7
     DEF SoundRequest, OnPath, MemberRead, ScheduleRead, HasSchedule, EditsOwn, Edits, Attends
<1>9. \A s : ~ Claims(n, s)
  BY <1>3, <1>5, <1>7 DEF Claims, Edits, Attends
<1> QED BY <1>2, <1>6, <1>8, <1>9 DEF Local, n

LEMMA FindScheduleLocal == ASSUME Sound, NEW r \in Requests, FindSchedule(r) PROVE Local(r)
<1> DEFINE q == req[r]
<1>1. q \in Request /\ SoundRequest(q) /\ q.pc = "schedule"
  BY Moves DEF FindSchedule
<1>2. SUFFICES ASSUME q.sched \in DOMAIN schedule, schedule[q.sched].azit = q.azit,
                      Become(r, [q EXCEPT !.copy = schedule[q.sched], !.pc = AfterSchedule(q)])
               PROVE  Local(r)
  BY ReturnLocal DEF FindSchedule
<1> DEFINE c == schedule[q.sched]
           n == [q EXCEPT !.copy = c, !.pc = AfterSchedule(q)]
<1>3. /\ Edits(q) => AfterSchedule(q) = "member"
      /\ q.op = "cancel" => AfterSchedule(q) = "exists"
      /\ q.op = "setStatus" => AfterSchedule(q) = IF q.status = "JOIN" THEN "count" ELSE "find"
  <2>1. q.op \in {"update", "delete"} => AfterSchedule(q) = "member"
    BY DEF AfterSchedule
  <2>2. q.op = "cancel" => AfterSchedule(q) = "exists"
    BY DEF AfterSchedule
  <2>3. q.op = "setStatus" => AfterSchedule(q) = IF q.status = "JOIN" THEN "count" ELSE "find"
    BY DEF AfterSchedule
  <2> QED BY <2>1, <2>2, <2>3 DEF Edits
<1>4. c \in Schedule /\ q.sched \in ScheduleId /\ q.sched < nextSchedule /\ c.max <= c.peak
  BY <1>2 DEF Sound, RowsOK, ScheduleTypeOK, KnownIds
<1>5. Edits(q) \/ q.op = "cancel" \/ q.op = "setStatus"
  BY <1>1 DEF SoundRequest, OnPath, Request, Ops, Edits
<1>6. n \in Request
  BY <1>1, <1>3, <1>4, <1>5, Advance DEF Pcs
<1>7. /\ n.op = q.op /\ n.sched = q.sched /\ n.azit = q.azit /\ n.status = q.status
      /\ n.copy = c /\ n.member = q.member /\ n.pc = AfterSchedule(q)
  BY <1>1 DEF Request
<1> HIDE DEF n
<1>8. OnPath(n)
  BY <1>1, <1>3, <1>5, <1>7 DEF SoundRequest, OnPath, Edits
<1>9. MemberRead(n)
  BY <1>1, <1>3, <1>5, <1>7 DEF SoundRequest, MemberRead, HasMember, Edits, Attends
<1>10. ScheduleRead(n)
  BY <1>2, <1>4, <1>7 DEF ScheduleRead
<1>11. EditsOwn(n)
  BY <1>3, <1>7 DEF EditsOwn, Edits
<1>12. \A s : ~ Claims(n, s)
  BY <1>3, <1>7 DEF Claims
<1> QED BY <1>2, <1>6, <1>8, <1>9, <1>10, <1>11, <1>12 DEF Local, SoundRequest, n

\* A creator's row of a schedule that is still there belongs to its creator.
LEMMA CheckCreatorLocal == ASSUME Sound, NEW r \in Requests, CheckCreator(r) PROVE Local(r)
<1> DEFINE q == req[r]
           n == [q EXCEPT !.pc = "write"]
<1>1. q \in Request /\ SoundRequest(q) /\ q.pc = "creator" /\ Edits(q)
  BY Moves DEF CheckCreator, SoundRequest, OnPath, Request, Ops, Edits
<1>2. SUFFICES ASSUME NEW p \in RowsFor(q.member, q.sched), p.role = "CREATOR", Goto(r, "write")
               PROVE  Local(r)
  BY ReturnLocal DEF CheckCreator
<1>n. n \in Request
  BY <1>1, Advance DEF Pcs
<1>3. /\ n.op = q.op /\ n.sched = q.sched /\ n.azit = q.azit /\ n.copy = q.copy
      /\ n.member = q.member /\ n.pc = "write"
  BY <1>1 DEF Request
<1>4. q.sched \in DOMAIN schedule => schedule[q.sched].creator = q.member
  <2>1. p \in participation /\ p.member = q.member /\ p.sched = q.sched
    BY DEF RowsFor
  <2>2. PICK m \in azitUser : m.id = q.member
    BY <2>1 DEF Sound, RowsOK, SameAzit
  <2> QED BY <1>2, <2>2 DEF Sound, RowsOK, CreatorKept
<1> HIDE DEF n
<1>5. SoundRequest(n)
  BY <1>1, <1>3, <1>4
     DEF SoundRequest, OnPath, MemberRead, HasMember, ScheduleRead, HasSchedule, EditsOwn, Edits, Attends
<1>6. \A s : ~ Claims(n, s)
  BY <1>1, <1>3 DEF Claims, Edits
<1> QED BY <1>2, <1>n, <1>5, <1>6 DEF Local, Goto, n

\* The last lookups of a participation keep the claim they have.
LEMMA AttendLocal ==
  ASSUME Sound, NEW r \in Requests, CheckExists(r) \/ FindParticipation(r) PROVE Local(r)
<1> DEFINE q == req[r]
<1>1. q \in Request /\ SoundRequest(q) /\ q.pc \in {"exists", "find"} /\ Attends(q)
  BY Moves DEF CheckExists, FindParticipation, SoundRequest, OnPath, Request, Ops, Edits, Attends
<1>2. PICK n \in Request : \/ Return(r)
                           \/ /\ Become(r, n)
                              /\ n.op = q.op /\ n.sched = q.sched /\ n.azit = q.azit
                              /\ n.copy = q.copy /\ n.member = q.member /\ n.status = q.status
                              /\ n.pc = IF q.op = "setStatus" /\ q.pc = "exists" THEN "find" ELSE "write"
  <2>1. CASE CheckExists(r)
    <3> DEFINE n == [q EXCEPT !.pc = IF q.op = "cancel" THEN "write" ELSE "find"]
    <3>1. n \in Request
      BY <1>1, Advance DEF Pcs
    <3>2. Return(r) \/ Become(r, n)
      BY <2>1 DEF CheckExists, Goto
    <3>3. q.pc = "exists"
      BY <2>1 DEF CheckExists
    <3>4. /\ n.op = q.op /\ n.sched = q.sched /\ n.azit = q.azit
          /\ n.copy = q.copy /\ n.member = q.member /\ n.status = q.status
          /\ n.pc = IF q.op = "setStatus" /\ q.pc = "exists" THEN "find" ELSE "write"
      BY <1>1, <3>3 DEF Request, Attends
    <3> QED BY <3>1, <3>2, <3>4
  <2>2. CASE FindParticipation(r)
    <3> DEFINE b == RowsFor(q.member, q.sched) # {}
               n == [q EXCEPT !.found = b, !.pc = "write"]
    <3>1. n \in Request
      BY <1>1, Advance DEF Pcs
    <3>2. Become(r, n) /\ q.pc = "find"
      BY <2>2 DEF FindParticipation
    <3>4. /\ n.op = q.op /\ n.sched = q.sched /\ n.azit = q.azit
          /\ n.copy = q.copy /\ n.member = q.member /\ n.status = q.status
          /\ n.pc = "write"
      BY <1>1 DEF Request
    <3> QED BY <3>1, <3>2, <3>4
  <2> QED BY <2>1, <2>2
<1>3. CASE Return(r)
  BY <1>3, ReturnLocal
<1>4. CASE ~ Return(r)
  <2>1. SoundRequest(n)
    BY <1>1, <1>2, <1>4
       DEF SoundRequest, OnPath, MemberRead, HasMember, ScheduleRead, HasSchedule, EditsOwn, Edits, Attends
  <2>2. \A s : Claims(n, s) => Claims(q, s)
    BY <1>1, <1>2, <1>4 DEF Claims
  <2> QED BY <1>2, <1>4, <2>1, <2>2 DEF Local
<1> QED BY <1>3, <1>4

Looks(r) ==
  \/ FindAzit(r) \/ FindMember(r) \/ FindSchedule(r) \/ StartCreate(r) \/ CreateRejected(r)
  \/ StartEdit(r) \/ CheckCreator(r) \/ EditRejected(r) \/ StartParticipation(r)
  \/ CheckExists(r) \/ FindParticipation(r)

LEMMA LooksLocal == ASSUME Sound, NEW r \in Requests, Looks(r) PROVE Local(r) /\ Reads
<1>1. Reads
  BY DEF Looks, FindAzit, FindMember, FindSchedule, StartCreate, CreateRejected, StartEdit,
         CheckCreator, EditRejected, StartParticipation, CheckExists, FindParticipation
<1>2. CASE CreateRejected(r) \/ EditRejected(r)
  BY <1>2, ReturnLocal DEF CreateRejected, EditRejected
<1> QED BY <1>1, <1>2, FindAzitLocal, FindMemberLocal, FindScheduleLocal, StartLocal,
           CheckCreatorLocal, AttendLocal DEF Looks
-----------------------------------------------------------------------------
(* Steps that write: the tables. *)

\* What a step does to the tables.
Writes == TableInv' /\ RowsOK' /\ Ages

LEMMA SameTable == ASSUME TableInv, UNCHANGED tableVars PROVE TableInv'
BY DEF tableVars, TableInv, TableTypeOK, IdsFresh, MembersReferToAzits, OneHost, HostHasOneRow

LEMMA Counters ==
  ASSUME Sound
  PROVE  /\ nextMember \in Nat /\ nextSchedule \in Nat
         /\ \A s \in DOMAIN schedule : s \in Nat /\ s # nextSchedule /\ schedule[s].peak \in Nat
<1>1. nextMember \in Nat /\ nextSchedule \in Nat
  BY MemberTableAssumption, ScheduleAssumption
     DEF Sound, TableInv, TableTypeOK, RowsOK, ScheduleTypeOK
<1>2. ASSUME NEW s \in DOMAIN schedule PROVE s \in Nat /\ s # nextSchedule /\ schedule[s].peak \in Nat
  <2>1. s \in Nat /\ s < nextSchedule /\ schedule[s] \in Schedule
    BY Sizes DEF Sound, RowsOK, ScheduleTypeOK, KnownIds
  <2>2. schedule[s].peak \in Nat
    BY <2>1, Sizes DEF Schedule
  <2> QED BY <1>1, <2>1, <2>2
<1> QED BY <1>1, <1>2

LEMMA CreateWrites == ASSUME Sound, NEW r \in Requests, CreateSchedule(r) PROVE Writes
<1> DEFINE q == req[r]
           row == [member |-> q.member, sched |-> nextSchedule, role |-> "CREATOR", status |-> "JOIN"]
<1>1. PICK new \in Schedule :
        /\ new.azit = q.azit /\ new.creator = q.member /\ new.max = new.peak
        /\ schedule' = [s \in DOMAIN schedule \union {nextSchedule} |->
                          IF s = nextSchedule THEN new ELSE schedule[s]]
  <2>1. PICK recruit, start, end \in Time, max \in Capacities :
          schedule' = [s \in DOMAIN schedule \union {nextSchedule} |->
                         IF s = nextSchedule
                         THEN [azit |-> q.azit, max |-> max, recruit |-> recruit, start |-> start,
                               end |-> end, creator |-> q.member, peak |-> max]
                         ELSE schedule[s]]
    BY DEF CreateSchedule
  <2>2. q.azit \in AzitId /\ q.member \in MemberId
    BY Moves DEF CreateSchedule, At, SoundRequest, OnPath, MemberRead, HasMember
  <2>3. [azit |-> q.azit, max |-> max, recruit |-> recruit, start |-> start,
         end |-> end, creator |-> q.member, peak |-> max] \in Schedule
    BY <2>2 DEF Schedule
  <2> QED BY <2>1, <2>3
<1>2. /\ participation' = participation \union {row} /\ nextSchedule' = nextSchedule + 1
      /\ nextSchedule <= MaxSchedule /\ UNCHANGED <<azits, azitUser, nextAzit, nextMember, now>>
      /\ \E m \in azitUser : m.id = q.member
  BY DEF CreateSchedule, tableVars
<1>3. /\ q.member \in MemberId /\ q.member < nextMember
      /\ \A m \in azitUser : m.id = q.member => m.azit = q.azit
  BY Moves DEF CreateSchedule, At, SoundRequest, MemberRead, HasMember
<1>4. /\ nextSchedule \in Nat /\ nextMember \in Nat
      /\ \A s \in DOMAIN schedule : s \in Nat /\ s # nextSchedule /\ schedule[s].peak \in Nat
  BY Counters
<1>5. ScheduleTypeOK'
  <2>1. nextSchedule \in ScheduleId /\ nextSchedule' \in 1..MaxSchedule + 1
    BY <1>2, ScheduleAssumption DEF Sound, RowsOK, ScheduleTypeOK, ScheduleId
  <2>2. row \in Participation
    BY <1>3, <2>1 DEF Participation, Status
  <2>3. DOMAIN schedule' \subseteq ScheduleId /\ \A s \in DOMAIN schedule' : schedule'[s] \in Schedule
    BY <1>1, <2>1 DEF Sound, RowsOK, ScheduleTypeOK
  <2> QED BY <1>2, <2>1, <2>2, <2>3 DEF Sound, RowsOK, ScheduleTypeOK
<1>6. KnownIds'
  <2> SUFFICES ASSUME NEW s \in DOMAIN schedule'
               PROVE  /\ s < nextSchedule' /\ schedule'[s].creator < nextMember'
                      /\ schedule'[s].max <= schedule'[s].peak
    BY DEF KnownIds
  <2>1. CASE s = nextSchedule
    <3>1. new.peak \in Nat
      BY Sizes DEF Schedule
    <3> QED BY <1>1, <1>2, <1>3, <1>4, <2>1, <3>1
  <2>2. CASE s # nextSchedule
    <3>1. s \in DOMAIN schedule /\ schedule'[s] = schedule[s]
      BY <1>1, <2>2
    <3>2. s < nextSchedule /\ schedule[s].creator < nextMember /\ schedule[s].max <= schedule[s].peak
      BY <3>1 DEF Sound, RowsOK, KnownIds
    <3> QED BY <1>2, <1>4, <3>1, <3>2
  <2> QED BY <2>1, <2>2
<1>7. row.member = q.member /\ row.sched = nextSchedule /\ row.role = "CREATOR"
  OBVIOUS
<1> HIDE DEF row
<1>8. \A p \in participation : p.sched \in DOMAIN schedule /\ p.sched # nextSchedule
  BY <1>4 DEF Sound, RowsOK, SameAzit
<1>9. SameAzit'
  <2> SUFFICES ASSUME NEW p \in participation'
               PROVE  /\ p.sched \in DOMAIN schedule'
                      /\ \E m \in azitUser' : m.id = p.member /\ m.azit = schedule'[p.sched].azit
                      /\ RowsFor(p.member, p.sched)' = {p}
    BY DEF SameAzit
  <2>1. CASE p = row
    BY <1>1, <1>2, <1>3, <1>7, <1>8, <2>1 DEF RowsFor
  <2>2. CASE p # row
    <3>1. p \in participation /\ p.sched # nextSchedule
      BY <1>2, <1>8, <2>2
    <3>2. /\ p.sched \in DOMAIN schedule /\ RowsFor(p.member, p.sched) = {p}
          /\ \E m \in azitUser : m.id = p.member /\ m.azit = schedule[p.sched].azit
      BY <3>1 DEF Sound, RowsOK, SameAzit
    <3>3. RowsFor(p.member, p.sched)' = {p}
      BY <1>2, <1>7, <3>1, <3>2 DEF RowsFor
    <3> QED BY <1>1, <1>2, <3>1, <3>2, <3>3
  <2> QED BY <2>1, <2>2
<1>10. CreatorKept'
  <2> SUFFICES ASSUME NEW s \in DOMAIN schedule', NEW m \in azitUser'
               PROVE  (\E p \in RowsFor(m.id, s)' : p.role = "CREATOR") <=> m.id = schedule'[s].creator
    BY DEF CreatorKept
  <2>1. CASE s = nextSchedule
    BY <1>1, <1>2, <1>7, <1>8, <2>1 DEF RowsFor
  <2>2. CASE s # nextSchedule
    <3>1. RowsFor(m.id, s)' = RowsFor(m.id, s)
      BY <1>2, <1>7, <2>2 DEF RowsFor
    <3> QED BY <1>1, <1>2, <2>2, <3>1 DEF Sound, RowsOK, CreatorKept
  <2> QED BY <2>1, <2>2
<1>11. Ages
  <2>1. nextSchedule' \in Nat /\ nextSchedule <= nextSchedule'
    BY <1>2, <1>4
  <2>2. \A s \in DOMAIN schedule : schedule[s].peak >= schedule[s].peak
    BY <1>4
  <2> QED BY <1>1, <1>2, <1>4, <2>1, <2>2 DEF Ages
<1> QED BY <1>2, <1>5, <1>6, <1>9, <1>10, <1>11, SameTable DEF Sound, RowsOK, Writes, tableVars

LEMMA MergedKeeps ==
  ASSUME NEW old \in Schedule, old.max <= old.peak, NEW max \in Capacities \union {None},
         NEW dto \in [recruit: Time \union {None}, start: Time \union {None}, end: Time \union {None}]
  PROVE  LET n == Merged(old, max, dto) IN
         /\ n \in Schedule /\ n.azit = old.azit /\ n.creator = old.creator
         /\ n.max <= n.peak /\ n.peak >= old.peak
<1> DEFINE n == Merged(old, max, dto)
           k == IF max # None /\ max > old.peak THEN max ELSE old.peak
<1>1. /\ old.max \in Capacities /\ old.peak \in Capacities
      /\ old.recruit \in Time /\ old.start \in Time /\ old.end \in Time
      /\ old.azit \in AzitId /\ old.creator \in MemberId
  BY DEF Schedule
<1>2. /\ Or(dto.recruit, old.recruit) \in Time /\ Or(dto.start, old.start) \in Time
      /\ Or(dto.end, old.end) \in Time /\ Or(max, old.max) \in Capacities /\ k \in Capacities
  BY <1>1 DEF Or
<1>3. /\ n = [old EXCEPT !.recruit = Or(dto.recruit, old.recruit), !.start = Or(dto.start, old.start),
                         !.end = Or(dto.end, old.end), !.max = Or(max, old.max), !.peak = k]
  BY DEF Merged, Schedule
<1>4. /\ n \in Schedule /\ n.azit = old.azit /\ n.creator = old.creator
      /\ n.max = Or(max, old.max) /\ n.peak = k
  BY <1>2, <1>3 DEF Schedule
<1>5. Or(max, old.max) <= k /\ k >= old.peak
  <2>1. old.max \in Nat /\ old.peak \in Nat
    BY <1>1, Sizes
  <2>2. CASE max = None
    BY <2>1, <2>2 DEF Or
  <2>3. CASE max # None
    <3>1. max \in Nat
      BY <2>3, Sizes
    <3> QED BY <2>1, <2>3, <3>1 DEF Or
  <2> QED BY <2>2, <2>3
<1> QED BY <1>4, <1>5

LEMMA UpdateWrites ==
  ASSUME Sound, NEW r \in Requests, UpdateSchedule(r)
  PROVE  Writes
<1>1. PICK max \in Capacities \union {None},
           dto \in [recruit: Time \union {None}, start: Time \union {None}, end: Time \union {None}] :
        schedule' = [s \in DOMAIN schedule |->
                       IF s = req[r].sched THEN Merged(schedule[s], max, dto) ELSE schedule[s]]
  BY DEF UpdateSchedule
<1>2. UNCHANGED <<azits, azitUser, nextAzit, nextMember, participation, nextSchedule, now>>
  BY DEF UpdateSchedule, tableVars
<1>3. DOMAIN schedule' = DOMAIN schedule
  BY <1>1
<1>4. ASSUME NEW s \in DOMAIN schedule
      PROVE  /\ schedule'[s] \in Schedule /\ schedule'[s].azit = schedule[s].azit
             /\ schedule'[s].creator = schedule[s].creator
             /\ schedule'[s].max <= schedule'[s].peak
             /\ schedule'[s].peak \in Nat /\ schedule'[s].peak >= schedule[s].peak
  <2>1. schedule[s] \in Schedule /\ schedule[s].max <= schedule[s].peak
    BY DEF Sound, RowsOK, ScheduleTypeOK, KnownIds
  <2>2. schedule'[s] = IF s = req[r].sched THEN Merged(schedule[s], max, dto) ELSE schedule[s]
    BY <1>1
  <2>3. CASE s = req[r].sched
    <3>1. PICK n : n = Merged(schedule[s], max, dto)
      OBVIOUS
    <3>2. /\ n \in Schedule /\ n.azit = schedule[s].azit /\ n.creator = schedule[s].creator
          /\ n.max <= n.peak /\ n.peak >= schedule[s].peak
      BY <2>1, <3>1, MergedKeeps
    <3>3. n.peak \in Nat
      BY <3>2, Sizes DEF Schedule
    <3> QED BY <2>2, <2>3, <3>1, <3>2, <3>3
  <2>4. CASE s # req[r].sched
    <3>1. schedule[s].peak \in Nat /\ schedule[s].peak >= schedule[s].peak
      BY Counters
    <3> QED BY <2>1, <2>2, <2>4, <3>1
  <2> QED BY <2>3, <2>4
<1>5. ScheduleTypeOK' /\ KnownIds'
  BY <1>2, <1>3, <1>4 DEF Sound, RowsOK, ScheduleTypeOK, KnownIds
<1>6. SameAzit'
  BY <1>2, <1>3, <1>4 DEF Sound, RowsOK, SameAzit, RowsFor
<1>7. CreatorKept'
  BY <1>2, <1>3, <1>4 DEF Sound, RowsOK, CreatorKept, RowsFor
<1>8. Ages
  BY <1>2, <1>3, <1>4, Counters DEF Ages
<1> QED BY <1>2, <1>5, <1>6, <1>7, <1>8, SameTable DEF Sound, RowsOK, Writes, tableVars

\* Schedules go with their participations, other rows with members that stay.
LEMMA ErasedRows ==
  ASSUME Sound, NEW S, EraseSchedules(S), UNCHANGED now,
         nextMember' = nextMember, azitUser' \subseteq azitUser,
         \A m \in azitUser, s \in DOMAIN schedule :
           s \notin S /\ m.azit = schedule[s].azit => m \in azitUser'
  PROVE  RowsOK' /\ Ages
<1>1. /\ DOMAIN schedule' = DOMAIN schedule \ S
      /\ \A s \in DOMAIN schedule' : schedule'[s] = schedule[s]
      /\ participation' = {p \in participation : p.sched \notin S}
      /\ nextSchedule' = nextSchedule
  BY DEF EraseSchedules
<1>2. ScheduleTypeOK' /\ KnownIds'
  BY <1>1 DEF Sound, RowsOK, ScheduleTypeOK, KnownIds
<1>3. \A p \in participation' : RowsFor(p.member, p.sched)' = RowsFor(p.member, p.sched)
  BY <1>1 DEF RowsFor
<1>4. SameAzit'
  BY <1>1, <1>3 DEF Sound, RowsOK, SameAzit
<1>5. CreatorKept'
  <2> SUFFICES ASSUME NEW s \in DOMAIN schedule', NEW m \in azitUser'
               PROVE  (\E p \in RowsFor(m.id, s)' : p.role = "CREATOR") <=> m.id = schedule'[s].creator
    BY DEF CreatorKept
  <2>1. RowsFor(m.id, s)' = RowsFor(m.id, s)
    BY <1>1 DEF RowsFor
  <2> QED BY <1>1, <2>1 DEF Sound, RowsOK, CreatorKept
<1>6. Ages
  BY <1>1, Counters DEF Ages
<1> QED BY <1>2, <1>4, <1>5, <1>6 DEF RowsOK

LEMMA DeleteWrites == ASSUME Sound, NEW r \in Requests, DeleteSchedule(r) PROVE Writes
<1>1. EraseSchedules({req[r].sched}) /\ UNCHANGED <<azits, azitUser, nextAzit, nextMember, now>>
  BY DEF DeleteSchedule, tableVars
<1>2. RowsOK' /\ Ages
  BY <1>1, ErasedRows
<1> QED BY <1>1, <1>2, SameTable DEF Sound, Writes, tableVars

\* The row of one key changes its status, or appears for a member of the azit.
LEMMA ParticipationWrites ==
  ASSUME Sound, NEW r \in Requests, WriteParticipation(r) PROVE Writes
<1> DEFINE q == req[r]
<1>1. /\ q \in Request /\ SoundRequest(q) /\ q.pc = "write" /\ q.op \in {"setStatus", "cancel"}
      /\ UNCHANGED <<azits, azitUser, nextAzit, nextMember, schedule, nextSchedule, now>>
  BY Moves DEF WriteParticipation, tableVars
<1>2. /\ q.member \in MemberId /\ q.sched \in ScheduleId /\ q.status \in Status
      /\ \A m \in azitUser : m.id = q.member => m.azit = q.azit
      /\ q.sched \in DOMAIN schedule => schedule[q.sched].azit = q.azit
  BY <1>1 DEF SoundRequest, OnPath, MemberRead, HasMember, ScheduleRead, HasSchedule, Attends, Status
<1>3. Ages
  BY <1>1, Counters DEF Ages
<1>4. ASSUME SetStatus(q.member, q.sched, q.status) PROVE RowsOK'
  <2> DEFINE W(p) == IF p.member = q.member /\ p.sched = q.sched
                     THEN [p EXCEPT !.status = q.status] ELSE p
  <2>1. participation' = {W(p) : p \in participation}
    BY <1>4 DEF SetStatus
  <2>2. ASSUME NEW p \in participation
        PROVE  /\ W(p) \in Participation /\ W(p).member = p.member /\ W(p).sched = p.sched
               /\ W(p).role = p.role
    BY <1>2 DEF Sound, RowsOK, ScheduleTypeOK, Participation
  <2> HIDE DEF W
  <2>3. ScheduleTypeOK' /\ KnownIds'
    BY <1>1, <2>1, <2>2 DEF Sound, RowsOK, ScheduleTypeOK, KnownIds
  <2>4. SameAzit'
    <3> SUFFICES ASSUME NEW p \in participation
                 PROVE  /\ p.sched \in DOMAIN schedule
                        /\ \E m \in azitUser : m.id = p.member /\ m.azit = schedule[p.sched].azit
                        /\ RowsFor(p.member, p.sched)' = {W(p)}
      BY <1>1, <2>1, <2>2 DEF SameAzit
    <3>1. /\ p.sched \in DOMAIN schedule
          /\ \E m \in azitUser : m.id = p.member /\ m.azit = schedule[p.sched].azit
          /\ RowsFor(p.member, p.sched) = {p}
      BY DEF Sound, RowsOK, SameAzit
    <3>2. RowsFor(p.member, p.sched)' = {W(p)}
      BY <2>1, <2>2, <3>1 DEF RowsFor
    <3> QED BY <3>1, <3>2
  <2>5. CreatorKept'
    <3> SUFFICES ASSUME NEW s \in DOMAIN schedule, NEW m \in azitUser
                 PROVE  (\E p \in RowsFor(m.id, s)' : p.role = "CREATOR") <=> m.id = schedule[s].creator
      BY <1>1 DEF CreatorKept
    <3>1. (\E p \in RowsFor(m.id, s)' : p.role = "CREATOR")
            <=> \E p \in RowsFor(m.id, s) : p.role = "CREATOR"
      BY <2>1, <2>2 DEF RowsFor
    <3> QED BY <3>1 DEF Sound, RowsOK, CreatorKept
  <2> QED BY <2>3, <2>4, <2>5 DEF RowsOK
<1> DEFINE new == [member |-> q.member, sched |-> q.sched, role |-> "PARTICIPANT", status |-> q.status]
<1>5. ASSUME InsertParticipation(new) PROVE RowsOK'
  <2>1. new \in Participation /\ new.member = q.member /\ new.sched = q.sched /\ new.role = "PARTICIPANT"
    BY <1>2 DEF Participation
  <2> HIDE DEF new
  <2>2. CASE participation' = participation
    BY <1>1, <2>2 DEF Sound, RowsOK, ScheduleTypeOK, KnownIds, SameAzit, CreatorKept, RowsFor
  <2>3. CASE /\ participation' = participation \union {new}
             /\ RowsFor(q.member, q.sched) = {} /\ q.sched \in DOMAIN schedule
             /\ \E m \in azitUser : m.id = q.member
    <3>1. ScheduleTypeOK' /\ KnownIds'
      BY <1>1, <2>1, <2>3 DEF Sound, RowsOK, ScheduleTypeOK, KnownIds
    <3>2. SameAzit'
      <4> SUFFICES ASSUME NEW p \in participation'
                   PROVE  /\ p.sched \in DOMAIN schedule
                          /\ \E m \in azitUser : m.id = p.member /\ m.azit = schedule[p.sched].azit
                          /\ RowsFor(p.member, p.sched)' = {p}
        BY <1>1 DEF SameAzit
      <4>1. CASE p = new
        BY <1>2, <2>1, <2>3, <4>1 DEF RowsFor
      <4>2. CASE p # new
        <5>1. p \in participation /\ RowsFor(p.member, p.sched) = {p}
          BY <2>3, <4>2 DEF Sound, RowsOK, SameAzit
        <5>2. p.member # q.member \/ p.sched # q.sched
          BY <2>3, <5>1 DEF RowsFor
        <5>3. RowsFor(p.member, p.sched)' = {p}
          BY <2>1, <2>3, <5>1, <5>2 DEF RowsFor
        <5> QED BY <5>1, <5>3 DEF Sound, RowsOK, SameAzit
      <4> QED BY <4>1, <4>2
    <3>3. CreatorKept'
      <4> SUFFICES ASSUME NEW s \in DOMAIN schedule, NEW m \in azitUser
                   PROVE  (\E p \in RowsFor(m.id, s)' : p.role = "CREATOR") <=> m.id = schedule[s].creator
        BY <1>1 DEF CreatorKept
      <4>1. (\E p \in RowsFor(m.id, s)' : p.role = "CREATOR")
              <=> \E p \in RowsFor(m.id, s) : p.role = "CREATOR"
        BY <2>1, <2>3 DEF RowsFor
      <4> QED BY <4>1 DEF Sound, RowsOK, CreatorKept
    <3> QED BY <3>1, <3>2, <3>3 DEF RowsOK
  <2> QED BY <1>5, <2>1, <2>2, <2>3 DEF InsertParticipation
<1>6. SetStatus(q.member, q.sched, q.status) \/ InsertParticipation(new)
  BY DEF WriteParticipation
<1>7. RowsOK'
  BY <1>4, <1>5, <1>6
<1> QED BY <1>1, <1>3, <1>7, SameTable DEF Sound, Writes, tableVars

LEMMA MembersAge ==
  ASSUME TableInv, TableNext
  PROVE  /\ nextMember' \in Nat /\ nextMember \in Nat /\ nextMember <= nextMember'
         /\ \A m \in azitUser' : m \in azitUser \/ m.id = nextMember
<1>1. nextMember \in Nat
  BY MemberTableAssumption DEF TableInv, TableTypeOK
<1>2. nextMember' = nextMember \/ nextMember' = nextMember + 1
  BY DEF TableNext, CreateAzit, AddMember, RemoveMember, DeleteAzit
<1>3. \A m \in azitUser' : m \in azitUser \/ m.id = nextMember
  BY DEF TableNext, CreateAzit, AddMember, RemoveMember, DeleteAzit, NewMember
<1> QED BY <1>1, <1>2, <1>3

LEMMA MembersWrites == ASSUME Sound, MembersChange PROVE Writes
<1>1. TableNext /\ UNCHANGED now
  BY DEF MembersChange, TableNext
<1>2. TableInv'
  BY <1>1, TableNextInv DEF Sound
<1>3. /\ nextMember' \in Nat /\ nextMember \in Nat /\ nextMember <= nextMember'
      /\ \A m \in azitUser' : m \in azitUser \/ m.id = nextMember
  BY <1>1, MembersAge DEF Sound
<1>4. CASE UNCHANGED tables /\ azitUser \subseteq azitUser'
  <2>1. UNCHANGED <<schedule, participation, nextSchedule>>
    BY <1>4 DEF tables
  <2>2. ScheduleTypeOK'
    BY <1>1, <2>1 DEF Sound, RowsOK, ScheduleTypeOK
  <2>3. KnownIds'
    <3>1. ASSUME NEW s \in DOMAIN schedule PROVE schedule[s].creator < nextMember'
      <4>1. schedule[s].creator \in Nat /\ schedule[s].creator < nextMember
        BY Sizes DEF Sound, RowsOK, ScheduleTypeOK, Schedule, KnownIds
      <4> QED BY <1>3, <4>1
    <3> QED BY <2>1, <3>1 DEF Sound, RowsOK, KnownIds
  <2>4. SameAzit'
    BY <1>4, <2>1 DEF Sound, RowsOK, SameAzit, RowsFor
  <2>5. CreatorKept'
    <3> SUFFICES ASSUME NEW s \in DOMAIN schedule, NEW m \in azitUser'
                 PROVE  (\E p \in RowsFor(m.id, s) : p.role = "CREATOR") <=> m.id = schedule[s].creator
      BY <2>1 DEF CreatorKept, RowsFor
    <3>1. CASE m \in azitUser
      BY <3>1 DEF Sound, RowsOK, CreatorKept
    <3>2. CASE m.id = nextMember
      <4>1. \A k \in azitUser : k.id # nextMember
        <5> SUFFICES ASSUME NEW k \in azitUser PROVE k.id # nextMember
          OBVIOUS
        <5>1. k.id \in Nat /\ k.id < nextMember
          BY Sizes DEF Sound, TableInv, TableTypeOK, IdsFresh, Member
        <5> QED BY <1>3, <5>1
      <4>2. RowsFor(m.id, s) = {}
        BY <3>2, <4>1 DEF Sound, RowsOK, SameAzit, RowsFor
      <4>3. schedule[s].creator \in Nat /\ schedule[s].creator < nextMember
        BY Sizes DEF Sound, RowsOK, ScheduleTypeOK, Schedule, KnownIds
      <4> QED BY <1>3, <3>2, <4>2, <4>3
    <3> QED BY <1>3, <3>1, <3>2
  <2>6. Ages
    BY <1>3, <2>1, Counters DEF Ages
  <2> QED BY <1>2, <2>2, <2>3, <2>4, <2>5, <2>6 DEF RowsOK, Writes
<1>5. ASSUME NEW m \in azitUser, RemoveMember(m),
             participation' = {p \in participation : p.member # m.id},
             UNCHANGED <<schedule, nextSchedule>>
      PROVE  Writes
  <2>1. azitUser' = azitUser \ {m} /\ nextMember' = nextMember
    BY <1>5 DEF RemoveMember
  <2>2. ScheduleTypeOK' /\ KnownIds'
    BY <1>1, <1>5, <2>1 DEF Sound, RowsOK, ScheduleTypeOK, KnownIds
  <2>3. \A k \in MemberId, s \in ScheduleId : k # m.id => RowsFor(k, s)' = RowsFor(k, s)
    BY <1>5 DEF RowsFor
  <2>4. SameAzit'
    BY <1>5, <2>1 DEF Sound, RowsOK, SameAzit, RowsFor
  <2>5. CreatorKept'
    <3> SUFFICES ASSUME NEW s \in DOMAIN schedule, NEW k \in azitUser'
                 PROVE  (\E p \in RowsFor(k.id, s)' : p.role = "CREATOR") <=> k.id = schedule[s].creator
      BY <1>5 DEF CreatorKept
    <3>1. k \in azitUser /\ k.id # m.id
      BY <2>1 DEF Sound, TableInv, IdsFresh
    <3>2. RowsFor(k.id, s)' = RowsFor(k.id, s)
      BY <1>5, <3>1 DEF RowsFor
    <3> QED BY <3>1, <3>2 DEF Sound, RowsOK, CreatorKept
  <2>6. Ages
    BY <1>3, <1>5, Counters DEF Ages
  <2> QED BY <1>2, <2>2, <2>4, <2>5, <2>6 DEF RowsOK, Writes
<1>6. ASSUME NEW a \in azits, DeleteAzit(a),
             EraseSchedules({s \in DOMAIN schedule : schedule[s].azit = a})
      PROVE  Writes
  <2> DEFINE S == {s \in DOMAIN schedule : schedule[s].azit = a}
  <2>1. nextMember' = nextMember /\ azitUser' = {m \in azitUser : m.azit # a}
    BY <1>6 DEF DeleteAzit
  <2>2. \A m \in azitUser, s \in DOMAIN schedule :
          s \notin S /\ m.azit = schedule[s].azit => m \in azitUser'
    BY <2>1
  <2>3. azitUser' \subseteq azitUser /\ EraseSchedules(S)
    BY <1>6, <2>1
  <2> HIDE DEF S
  <2>4. RowsOK' /\ Ages
    BY <1>1, <2>1, <2>2, <2>3, ErasedRows
  <2> QED BY <1>2, <2>4 DEF Writes
<1>7. \/ UNCHANGED tables /\ azitUser \subseteq azitUser'
      \/ \E m \in azitUser : /\ RemoveMember(m)
                             /\ participation' = {p \in participation : p.member # m.id}
                             /\ UNCHANGED <<schedule, nextSchedule>>
      \/ \E a \in azits : /\ DeleteAzit(a)
                          /\ EraseSchedules({s \in DOMAIN schedule : schedule[s].azit = a})
  BY DEF MembersChange, CreateAzit, AddMember
<1> QED BY <1>4, <1>5, <1>6, <1>7
-----------------------------------------------------------------------------
(* Seats: the four ways in which a step moves the count. *)

LEMMA SeatNumbers ==
  ASSUME Sound, NEW s \in DOMAIN schedule, SeatsOK(s)
  PROVE  /\ Cardinality(Joined(s)) \in Nat /\ Cardinality(Requests) \in Nat
         /\ IsFiniteSet(Validated(s)) /\ Cardinality(Validated(s)) \in Nat
         /\ schedule[s].peak \in Nat
         /\ Cardinality(Joined(s)) + Cardinality(Validated(s))
              <= schedule[s].peak + Cardinality(Requests) - 1
<1>1. IsFiniteSet(Validated(s)) /\ IsFiniteSet(Requests)
  <2>1. IsFiniteSet(Requests) /\ Validated(s) \subseteq Requests
    BY ScheduleAssumption DEF Validated
  <2> QED BY <2>1, FS_Subset
<1>2. /\ Cardinality(Joined(s)) \in Nat /\ Cardinality(Requests) \in Nat
      /\ Cardinality(Validated(s)) \in Nat
  BY <1>1, FS_CardinalityType DEF SeatsOK
<1> QED BY <1>1, <1>2, Counters DEF SeatsOK

LEMMA FewerSeats ==
  ASSUME Sound, NEW s \in DOMAIN schedule, SeatsOK(s),
         Joined(s)' \subseteq Joined(s), Validated(s)' \subseteq Validated(s),
         schedule'[s].peak \in Nat, schedule'[s].peak >= schedule[s].peak
  PROVE  SeatsOK(s)'
<1>1. /\ IsFiniteSet(Joined(s)') /\ Cardinality(Joined(s)') <= Cardinality(Joined(s))
      /\ Cardinality(Joined(s)') \in Nat
  BY FS_Subset, FS_CardinalityType DEF SeatsOK
<1>2. /\ Cardinality(Validated(s)') <= Cardinality(Validated(s))
      /\ Cardinality(Validated(s)') \in Nat
  BY SeatNumbers, FS_Subset, FS_CardinalityType
<1> QED BY <1>1, <1>2, SeatNumbers DEF SeatsOK

\* The claim becomes a seat.
LEMMA SeatTaken ==
  ASSUME Sound, NEW s \in DOMAIN schedule, SeatsOK(s), NEW x, NEW r \in Validated(s),
         Joined(s)' \subseteq Joined(s) \union {x}, Validated(s)' = Validated(s) \ {r},
         schedule' = schedule
  PROVE  SeatsOK(s)'
<1>1. /\ IsFiniteSet(Joined(s) \union {x})
      /\ Cardinality(Joined(s) \union {x}) \in {Cardinality(Joined(s)), Cardinality(Joined(s)) + 1}
  BY FS_AddElement DEF SeatsOK
<1>2. /\ IsFiniteSet(Joined(s)') /\ Cardinality(Joined(s)') <= Cardinality(Joined(s) \union {x})
      /\ Cardinality(Joined(s)') \in Nat
  BY <1>1, FS_Subset, FS_CardinalityType
<1>3. Cardinality(Joined(s)') <= Cardinality(Joined(s)) + 1
  BY <1>1, <1>2, SeatNumbers
<1>4. Cardinality(Validated(s)') = Cardinality(Validated(s)) - 1
  BY SeatNumbers, FS_RemoveElement
<1> QED BY <1>2, <1>3, <1>4, SeatNumbers DEF SeatsOK

\* A seat is free: everybody in flight may claim it.
LEMMA SeatFree ==
  ASSUME Sound, NEW s \in DOMAIN schedule, SeatsOK(s),
         Cardinality(Joined(s)) < schedule[s].peak,
         UNCHANGED <<schedule, participation>>
  PROVE  SeatsOK(s)'
<1>1. Joined(s)' = Joined(s)
  BY DEF Joined
<1>2. Validated(s)' \subseteq Requests /\ IsFiniteSet(Requests)
  BY ScheduleAssumption DEF Validated
<1>3. Cardinality(Validated(s)') <= Cardinality(Requests) /\ Cardinality(Validated(s)') \in Nat
  BY <1>2, FS_Subset, FS_CardinalityType
<1> QED BY <1>1, <1>3, SeatNumbers DEF SeatsOK

\* The seat of the creator of a schedule that no request knows of.
LEMMA FirstSeat ==
  ASSUME NEW r \in Requests, NEW s, NEW x, Joined(s)' = {x}, Validated(s)' = {},
         schedule'[s].peak \in Nat, schedule'[s].peak >= 2
  PROVE  SeatsOK(s)'
<1>1. IsFiniteSet(Joined(s)') /\ Cardinality(Joined(s)') = 1 /\ Cardinality(Validated(s)') = 0
  BY FS_Singleton, FS_EmptySet
<1>2. Cardinality(Requests) \in Nat
  BY ScheduleAssumption, FS_CardinalityType
<1> QED BY <1>1, <1>2 DEF SeatsOK
-----------------------------------------------------------------------------
(* The invariant. *)

LEMMA InitInv == Init => Inv
<1> SUFFICES ASSUME Init PROVE Inv
  OBVIOUS
<1>1. TableInv
  BY TableInitInv DEF Init
<1>2. DOMAIN schedule = {} /\ participation = {} /\ nextSchedule = 1 /\ now = 0
  BY DEF Init
<1>3. ScheduleTypeOK
  <2>1. 1 \in 1..MaxSchedule + 1 /\ 0 \in Time
    BY ScheduleAssumption DEF Time
  <2> QED BY <1>2, <2>1 DEF ScheduleTypeOK
<1>4. KnownIds /\ SameAzit /\ CreatorKept
  BY <1>2 DEF KnownIds, SameAzit, CreatorKept
<1>5. req \in [Requests -> Request] /\ \A r \in Requests : SoundRequest(req[r])
  BY IdleSound DEF Init
<1> QED BY <1>1, <1>2, <1>3, <1>4, <1>5 DEF Inv, Sound, RowsOK

\* A move of one request, whatever happens to the tables.
LEMMA Moved ==
  ASSUME Sound, Writes, NEW r \in Requests, Local(r)
  PROVE  /\ Sound'
         /\ \A s \in Requests : s # r => req'[s] = req[s]
         /\ \A s \in ScheduleId : Validated(s)' \subseteq Validated(s)
<1>1. PICK q \in Request : /\ SoundRequest(q) /\ Become(r, q)
                           /\ \A s \in ScheduleId : Claims(q, s) => Claims(req[r], s)
  BY DEF Local
<1>2. /\ req' \in [Requests -> Request] /\ req'[r] = q
      /\ \A s \in Requests : s # r => req'[s] = req[s]
  BY <1>1 DEF Become, Sound
<1>3. Sound'
  BY <1>1, <1>2, StepSound DEF Writes
<1>4. ASSUME NEW s \in ScheduleId, NEW x \in Validated(s)' PROVE x \in Validated(s)
  <2>1. x \in Requests /\ Claims(req'[x], s)
    BY <1>4 DEF Validated, Claims
  <2>2. Claims(req[x], s)
    BY <1>1, <1>2, <2>1
  <2> QED BY <2>1, <2>2 DEF Validated, Claims
<1> QED BY <1>2, <1>3, <1>4

\* Who returns claims nothing.
LEMMA Returned ==
  ASSUME Sound, NEW r \in Requests, Return(r), NEW s
  PROVE  Validated(s)' = Validated(s) \ {r}
<1>1. req'[r] = Idle /\ \A x \in Requests : x # r => req'[x] = req[x]
  BY DEF Return, Become, Sound
<1> QED BY <1>1 DEF Validated, Idle

LEMMA Unchanged == ASSUME Sound, Reads PROVE Writes
<1>1. UNCHANGED <<tableVars, azits, azitUser, nextAzit, nextMember, schedule, participation, nextSchedule, now>>
  BY DEF Reads, tableVars, tables
<1>2. RowsOK'
  BY <1>1 DEF Sound, RowsOK, ScheduleTypeOK, KnownIds, SameAzit, CreatorKept, RowsFor
<1>3. Ages
  <2>1. \A s \in DOMAIN schedule : schedule[s].peak >= schedule[s].peak
    BY Counters
  <2>2. nextMember >= nextMember /\ nextSchedule >= nextSchedule
    BY Counters
  <2> QED BY <1>1, <2>1, <2>2, Counters DEF Ages
<1> QED BY <1>1, <1>2, <1>3, SameTable DEF Sound, Writes

LEMMA LooksInv == ASSUME Inv, NEW r \in Requests, Looks(r) PROVE Inv'
<1>1. Sound /\ Local(r) /\ Reads
  BY LooksLocal DEF Inv
<1>2. Sound' /\ \A s \in ScheduleId : Validated(s)' \subseteq Validated(s)
  BY <1>1, Unchanged, Moved
<1>3. schedule' = schedule /\ participation' = participation
  BY <1>1 DEF Reads, tables
<1>4. ASSUME NEW s \in DOMAIN schedule PROVE SeatsOK(s)'
  <2>1. SeatsOK(s) /\ s \in ScheduleId
    BY DEF Inv, Sound, RowsOK, ScheduleTypeOK
  <2>2. Joined(s)' \subseteq Joined(s)
    BY <1>3 DEF Joined
  <2>3. schedule'[s].peak \in Nat /\ schedule'[s].peak >= schedule[s].peak
    BY <1>1, <1>3, Counters
  <2> QED BY <1>1, <1>2, <2>1, <2>2, <2>3, FewerSeats
<1> QED BY <1>2, <1>3, <1>4 DEF Inv

LEMMA CapacityInv == ASSUME Inv, NEW r \in Requests, CheckCapacity(r) PROVE Inv'
<1> DEFINE q == req[r]
           n == [q EXCEPT !.pc = "exists"]
<1>1. Sound /\ Reads /\ q \in Request /\ SoundRequest(q) /\ q.pc = "count"
  BY Moves DEF Inv, CheckCapacity
<1>2. schedule' = schedule /\ participation' = participation
  BY <1>1 DEF Reads, tables
<1>3. q.op = "setStatus" /\ q.sched \in ScheduleId
  BY <1>1 DEF SoundRequest, OnPath, Request, Ops, Edits
<1>4. CASE Return(r)
  <2>1. Sound' /\ \A s \in ScheduleId : Validated(s)' \subseteq Validated(s)
    BY <1>1, <1>4, ReturnLocal, Unchanged, Moved
  <2>2. ASSUME NEW s \in DOMAIN schedule PROVE SeatsOK(s)'
    <3>1. SeatsOK(s) /\ s \in ScheduleId
      BY DEF Inv, Sound, RowsOK, ScheduleTypeOK
    <3>2. Joined(s)' \subseteq Joined(s)
      BY <1>2 DEF Joined
    <3>3. schedule'[s].peak \in Nat /\ schedule'[s].peak >= schedule[s].peak
      BY <1>1, <1>2, Counters
    <3> QED BY <1>1, <2>1, <3>1, <3>2, <3>3, FewerSeats
  <2> QED BY <1>2, <2>1, <2>2 DEF Inv
<1>5. CASE ~ (Cardinality(Joined(q.sched)) >= q.copy.max) /\ Become(r, n)
  <2>1. n \in Request
    BY <1>1, Advance DEF Pcs
  <2>2. /\ n.op = q.op /\ n.sched = q.sched /\ n.azit = q.azit /\ n.status = q.status
        /\ n.copy = q.copy /\ n.member = q.member /\ n.pc = "exists"
    BY <1>1 DEF Request
  <2> HIDE DEF n
  <2>3. SoundRequest(n)
    BY <1>1, <1>3, <2>2
       DEF SoundRequest, OnPath, MemberRead, HasMember, ScheduleRead, HasSchedule, EditsOwn, Edits, Attends
  <2>4. /\ req' \in [Requests -> Request] /\ req'[r] = n
        /\ \A x \in Requests : x # r => req'[x] = req[x]
    BY <1>1, <1>5, <2>1 DEF Become, Sound
  <2>5. Sound'
    BY <1>1, <2>3, <2>4, Unchanged, StepSound DEF Writes
  <2>6. ASSUME NEW s \in DOMAIN schedule PROVE SeatsOK(s)'
    <3>1. SeatsOK(s)
      BY DEF Inv
    <3>2. CASE s = q.sched
      <4>1. q.copy.max \in Nat /\ q.copy.max <= schedule[s].peak
        BY <1>1, <1>3, <3>2, Sizes DEF SoundRequest, ScheduleRead, HasSchedule, Attends, Schedule
      <4>2. Cardinality(Joined(s)) \in Nat /\ schedule[s].peak \in Nat
        BY <1>1, <3>1, SeatNumbers
      <4>3. Cardinality(Joined(s)) < schedule[s].peak
        BY <1>5, <3>2, <4>1, <4>2
      <4> QED BY <1>1, <1>2, <3>1, <4>3, SeatFree
    <3>3. CASE s # q.sched
      <4>1. Validated(s)' \subseteq Validated(s)
        BY <2>2, <2>4, <3>3 DEF Validated
      <4>2. Joined(s)' \subseteq Joined(s)
        BY <1>2 DEF Joined
      <4>3. schedule'[s].peak \in Nat /\ schedule'[s].peak >= schedule[s].peak
        BY <1>1, <1>2, Counters
      <4> QED BY <1>1, <3>1, <4>1, <4>2, <4>3, FewerSeats
    <3> QED BY <3>2, <3>3
  <2> QED BY <1>2, <2>5, <2>6 DEF Inv
<1> QED BY <1>4, <1>5 DEF CheckCapacity, Goto

LEMMA CreateInv == ASSUME Inv, NEW r \in Requests, CreateSchedule(r) PROVE Inv'
<1> DEFINE row == [member |-> req[r].member, sched |-> nextSchedule, role |-> "CREATOR", status |-> "JOIN"]
<1>1. /\ Return(r) /\ Sound /\ participation' = participation \union {row}
      /\ DOMAIN schedule' = DOMAIN schedule \union {nextSchedule}
      /\ \A s \in DOMAIN schedule : s # nextSchedule => schedule'[s] = schedule[s]
  BY DEF CreateSchedule, Inv
<1>2. row.sched = nextSchedule /\ row.status = "JOIN"
  OBVIOUS
<1> HIDE DEF row
<1>3. Writes /\ Local(r)
  BY <1>1, CreateWrites, ReturnLocal
<1>4. Sound' /\ \A s \in ScheduleId : Validated(s)' \subseteq Validated(s)
  BY <1>1, <1>3, Moved
<1>5. PICK n \in Nat : n = nextSchedule /\ \A s \in DOMAIN schedule : s # n
  BY <1>1, Counters
<1>6. Joined(n)' = {row}
  <2>1. \A p \in participation : p.sched # n
    BY <1>5 DEF Inv, Sound, RowsOK, SameAzit
  <2> QED BY <1>1, <1>2, <1>5, <2>1 DEF Joined
<1>7. Validated(n)' = {}
  <2>1. ASSUME NEW x \in Validated(n) PROVE FALSE
    <3>1. x \in Requests /\ req[x].op = "setStatus" /\ req[x].pc \in {"exists", "find", "write"}
          /\ req[x].sched = n
      BY DEF Validated
    <3>2. n < nextSchedule
      BY <1>1, <3>1 DEF Sound, SoundRequest, ScheduleRead, HasSchedule, Attends
    <3> QED BY <1>5, <3>2
  <2> QED BY <1>1, <2>1, Returned
<1>8. schedule'[n].peak \in Nat /\ schedule'[n].peak >= 2
  <2>1. schedule'[n] \in Schedule
    BY <1>1, <1>3, <1>5 DEF Writes, RowsOK, ScheduleTypeOK
  <2>2. schedule'[n].peak \in Capacities
    BY <2>1 DEF Schedule
  <2> QED BY <2>2, Sizes
<1>9. SeatsOK(n)'
  BY <1>6, <1>7, <1>8, FirstSeat
<1>10. ASSUME NEW s \in DOMAIN schedule PROVE SeatsOK(s)'
  <2>1. SeatsOK(s) /\ s \in ScheduleId /\ s # nextSchedule
    BY <1>5 DEF Inv, Sound, RowsOK, ScheduleTypeOK
  <2>2. Joined(s)' \subseteq Joined(s)
    BY <1>1, <1>2, <2>1 DEF Joined
  <2>3. schedule'[s].peak \in Nat /\ schedule'[s].peak >= schedule[s].peak
    BY <1>1, <2>1, Counters
  <2> QED BY <1>1, <1>4, <2>1, <2>2, <2>3, FewerSeats
<1> QED BY <1>1, <1>4, <1>5, <1>9, <1>10 DEF Inv

\* An update moves no seat, and the limit a schedule ever had does not shrink.
LEMMA UpdateInv == ASSUME Inv, NEW r \in Requests, UpdateSchedule(r) PROVE Inv'
<1>1. Sound /\ Return(r) /\ participation' = participation
  BY DEF UpdateSchedule, Inv
<1>2. DOMAIN schedule' = DOMAIN schedule
  BY DEF UpdateSchedule
<1>3. Writes /\ Local(r)
  BY <1>1, UpdateWrites, ReturnLocal
<1>4. Sound' /\ \A s \in ScheduleId : Validated(s)' \subseteq Validated(s)
  BY <1>1, <1>3, Moved
<1>5. ASSUME NEW s \in DOMAIN schedule PROVE SeatsOK(s)'
  <2>1. SeatsOK(s) /\ s \in ScheduleId /\ s # nextSchedule
    BY Counters DEF Inv, Sound, RowsOK, ScheduleTypeOK
  <2>2. Joined(s)' \subseteq Joined(s)
    BY <1>1 DEF Joined
  <2>3. schedule'[s].peak \in Nat /\ schedule'[s].peak >= schedule[s].peak
    BY <1>2, <1>3, <2>1 DEF Writes, Ages
  <2> QED BY <1>1, <1>4, <2>1, <2>2, <2>3, FewerSeats
<1> QED BY <1>2, <1>4, <1>5 DEF Inv

\* Rows that go, and members that come and go, free seats.
LEMMA GoneInv ==
  ASSUME Inv, Writes, Sound', participation' \subseteq participation,
         DOMAIN schedule' \subseteq DOMAIN schedule,
         \A s \in ScheduleId : Validated(s)' \subseteq Validated(s)
  PROVE  Inv'
<1>1. ASSUME NEW s \in DOMAIN schedule' PROVE SeatsOK(s)'
  <2>1. SeatsOK(s) /\ s \in ScheduleId /\ s # nextSchedule /\ s \in DOMAIN schedule
    BY Counters DEF Inv, Sound, RowsOK, ScheduleTypeOK
  <2>2. Joined(s)' \subseteq Joined(s)
    BY DEF Joined
  <2>3. schedule'[s].peak \in Nat /\ schedule'[s].peak >= schedule[s].peak
    BY <2>1 DEF Writes, Ages
  <2> QED BY <2>1, <2>2, <2>3, FewerSeats DEF Inv
<1> QED BY <1>1 DEF Inv

LEMMA DeleteInv == ASSUME Inv, NEW r \in Requests, DeleteSchedule(r) PROVE Inv'
<1>1. Sound /\ Return(r) /\ EraseSchedules({req[r].sched})
  BY DEF DeleteSchedule, Inv
<1>2. Writes /\ Local(r)
  BY <1>1, DeleteWrites, ReturnLocal
<1>3. Sound' /\ \A s \in ScheduleId : Validated(s)' \subseteq Validated(s)
  BY <1>1, <1>2, Moved
<1>4. participation' \subseteq participation /\ DOMAIN schedule' \subseteq DOMAIN schedule
  BY <1>1 DEF EraseSchedules
<1> QED BY <1>2, <1>3, <1>4, GoneInv

\* Steps that leave the requests alone.
LEMMA MembersInv == ASSUME Inv, MembersChange PROVE Inv'
<1>1. Sound /\ req' = req /\ Writes
  BY MembersWrites DEF MembersChange, Inv
<1>2. Sound'
  BY <1>1, StepSound DEF Writes, Sound
<1>3. \A s \in ScheduleId : Validated(s)' \subseteq Validated(s)
  BY <1>1 DEF Validated
<1>4. participation' \subseteq participation /\ DOMAIN schedule' \subseteq DOMAIN schedule
  BY DEF MembersChange, tables, EraseSchedules
<1> QED BY <1>1, <1>2, <1>3, <1>4, GoneInv

LEMMA TickInv == ASSUME Inv, Tick \/ UNCHANGED vars PROVE Inv'
<1>1. /\ req' = req /\ UNCHANGED <<tableVars, schedule, participation, nextSchedule>>
      /\ now' \in Time
  <2>1. now \in Time
    BY DEF Inv, Sound, RowsOK, ScheduleTypeOK
  <2>2. CASE Tick
    BY <2>1, <2>2, ScheduleAssumption DEF Tick, tables, Time
  <2>3. CASE UNCHANGED vars
    BY <2>1, <2>3 DEF vars, tables
  <2> QED BY <2>2, <2>3
<1>2. Sound /\ UNCHANGED <<azits, azitUser, nextAzit, nextMember>>
  BY <1>1 DEF Inv, tableVars
<1>3. RowsOK'
  BY <1>1, <1>2 DEF Sound, RowsOK, ScheduleTypeOK, KnownIds, SameAzit, CreatorKept, RowsFor
<1>4. Ages
  BY <1>1, <1>2, Counters DEF Ages
<1>5. Writes
  BY <1>1, <1>2, <1>3, <1>4, SameTable DEF Sound, Writes
<1>6. Sound'
  BY <1>1, <1>2, <1>5, StepSound DEF Writes, Sound
<1>7. \A s \in ScheduleId : Validated(s)' \subseteq Validated(s)
  BY <1>1 DEF Validated
<1> QED BY <1>1, <1>5, <1>6, <1>7, GoneInv

\* A joining request takes the seat it claimed; any other status frees one, if anything.
LEMMA ParticipationInv == ASSUME Inv, NEW r \in Requests, WriteParticipation(r) PROVE Inv'
<1> DEFINE q == req[r]
<1>1. /\ Sound /\ Return(r) /\ schedule' = schedule /\ q.pc = "write"
      /\ q.op \in {"setStatus", "cancel"} /\ SoundRequest(q)
  BY Moves DEF WriteParticipation, Inv
<1>2. Writes /\ Local(r)
  BY <1>1, ParticipationWrites, ReturnLocal
<1>3. Sound' /\ \A s \in ScheduleId : Validated(s)' \subseteq Validated(s)
  BY <1>1, <1>2, Moved
<1>4. PICK x : \A s : Joined(s)' \subseteq
                 IF q.status = "JOIN" /\ s = q.sched THEN Joined(s) \union {x} ELSE Joined(s)
  <2> DEFINE W(p) == IF p.member = q.member /\ p.sched = q.sched
                     THEN [p EXCEPT !.status = q.status] ELSE p
             new == [member |-> q.member, sched |-> q.sched, role |-> "PARTICIPANT",
                     status |-> q.status]
  <2>1. CASE SetStatus(q.member, q.sched, q.status)
    <3>1. participation' = {W(p) : p \in participation}
      BY <2>1 DEF SetStatus
    <3>2. ASSUME NEW p \in participation
          PROVE  /\ W(p).sched = p.sched
                 /\ p.member = q.member /\ p.sched = q.sched => W(p).status = q.status
                 /\ ~ (p.member = q.member /\ p.sched = q.sched) => W(p) = p
      BY DEF Inv, Sound, RowsOK, ScheduleTypeOK, Participation
    <3> HIDE DEF W
    <3>3. \A p, k \in RowsFor(q.member, q.sched) : p = k
      BY DEF RowsFor, Inv, Sound, RowsOK, SameAzit
    <3>4. PICK x : \A p \in participation : p.member = q.member /\ p.sched = q.sched => W(p) = x
      BY <3>3 DEF RowsFor
    <3>5. ASSUME NEW s, NEW y \in Joined(s)', y \notin Joined(s)
          PROVE  q.status = "JOIN" /\ s = q.sched /\ y = x
      <4>1. PICK p \in participation : y = W(p) /\ y.sched = s /\ y.status = "JOIN"
        BY <3>1, <3>5 DEF Joined
      <4>2. p.member = q.member /\ p.sched = q.sched
        BY <3>2, <3>5, <4>1 DEF Joined
      <4> QED BY <3>2, <3>4, <4>1, <4>2
    <3> QED BY <3>5
  <2>2. CASE InsertParticipation(new)
    <3>1. new.sched = q.sched /\ new.status = q.status
      OBVIOUS
    <3>2. participation' \subseteq participation \union {new}
      BY <2>2 DEF InsertParticipation
    <3> HIDE DEF new
    <3>3. ASSUME NEW s, NEW y \in Joined(s)', y \notin Joined(s)
          PROVE  q.status = "JOIN" /\ s = q.sched /\ y = new
      BY <3>1, <3>2, <3>3 DEF Joined
    <3> QED BY <3>3
  <2> QED BY <2>1, <2>2 DEF WriteParticipation
<1>5. ASSUME NEW s \in DOMAIN schedule PROVE SeatsOK(s)'
  <2>1. SeatsOK(s) /\ s \in ScheduleId
    BY DEF Inv, Sound, RowsOK, ScheduleTypeOK
  <2>2. CASE q.status = "JOIN" /\ s = q.sched
    <3>1. r \in Validated(s)
      BY <1>1, <2>2 DEF Validated, SoundRequest, OnPath
    <3>2. Validated(s)' = Validated(s) \ {r}
      BY <1>1, Returned
    <3>3. Joined(s)' \subseteq Joined(s) \union {x}
      BY <1>4, <2>2
    <3> QED BY <1>1, <2>1, <3>1, <3>2, <3>3, SeatTaken
  <2>3. CASE ~ (q.status = "JOIN" /\ s = q.sched)
    <3>1. Joined(s)' \subseteq Joined(s)
      BY <1>4, <2>3
    <3>2. schedule'[s].peak \in Nat /\ schedule'[s].peak >= schedule[s].peak
      BY <1>1, Counters
    <3> QED BY <1>1, <1>3, <2>1, <3>1, <3>2, FewerSeats
  <2> QED BY <2>2, <2>3
<1> QED BY <1>1, <1>3, <1>5 DEF Inv

LEMMA NextInv == Inv /\ [Next]_vars => Inv'
BY LooksInv, CapacityInv, CreateInv, UpdateInv, DeleteInv, MembersInv, TickInv, ParticipationInv
   DEF Next, Step, Looks
-----------------------------------------------------------------------------
(* The theorems. *)

THEOREM Invariance == Spec => []Inv
BY InitInv, NextInv, PTL DEF Spec

\* Schedules, participations and requests have their types, for any number of requests.
THEOREM TypeCorrect == Spec => []TypeOK
<1>1. Inv => TypeOK
  BY DEF Inv, Sound, TableInv, RowsOK, ScheduleTypeOK, TypeOK
<1> QED BY <1>1, Invariance, PTL

\* azit-schedule-participation.service.ts: the member and the schedule of a participation
\* are of one azit, though they are looked up in different statements and members, azits
\* and schedules come and go in between.
THEOREM ParticipantsAreMembers == Spec => []SameAzit
<1>1. Inv => SameAzit
  BY DEF Inv, Sound, RowsOK
<1> QED BY <1>1, Invariance, PTL

\* checkScheduleCreator: nobody else becomes the creator of a schedule, and the creator
\* stays it whatever its participation is set to.
THEOREM CreatorsStay == Spec => []CreatorKept
<1>1. Inv => CreatorKept
  BY DEF Inv, Sound, RowsOK
<1> QED BY <1>1, Invariance, PTL

\* validateParticipation counts seats and inserts later: a schedule has at most one seat
\* too many for every request in flight besides the first, however many there are.
THEOREM SeatsAreBounded == Spec => []BoundedOversubscription
<1>1. Inv => BoundedOversubscription
  BY DEF Inv, SeatsOK, BoundedOversubscription
<1> QED BY <1>1, Invariance, PTL

\* updateSchedule and deleteSchedule: a schedule of a living azit changes only at the
\* hands of its creator, though the role was read an await before.
THEOREM CreatorsEdit == Spec => EditedByCreator
<1> DEFINE Editor(r, s) == /\ req[r].op \in {"update", "delete"} /\ req[r].pc = "write"
                           /\ req[r].sched = s /\ req[r].member = schedule[s].creator
<1>1. ASSUME Inv, [Next]_vars, NEW s \in DOMAIN schedule, schedule[s].azit \in azits',
             s \notin DOMAIN schedule' \/ schedule'[s] # schedule[s]
      PROVE  \E r \in Requests : Editor(r, s)
  <2>1. Sound /\ s # nextSchedule
    BY <1>1, Counters DEF Inv
  <2>2. ASSUME NEW r \in Requests, Looks(r) \/ CheckCapacity(r) \/ WriteParticipation(r) PROVE FALSE
    BY <1>1, <2>1, <2>2, LooksLocal DEF CheckCapacity, WriteParticipation, Reads, tables
  <2>3. ASSUME NEW r \in Requests, CreateSchedule(r) PROVE FALSE
    BY <1>1, <2>1, <2>3 DEF CreateSchedule
  <2>4. ASSUME NEW r \in Requests, UpdateSchedule(r) PROVE Editor(r, s)
    <3>1. req[r].op = "update" /\ req[r].pc = "write" /\ req[r].sched = s
      BY <1>1, <2>4 DEF UpdateSchedule, At
    <3> QED BY <2>1, <3>1, Moves DEF SoundRequest, EditsOwn, Edits
  <2>5. ASSUME NEW r \in Requests, DeleteSchedule(r) PROVE Editor(r, s)
    <3>1. req[r].op = "delete" /\ req[r].pc = "write" /\ req[r].sched = s
      BY <1>1, <2>5 DEF DeleteSchedule, At, EraseSchedules
    <3> QED BY <2>1, <3>1, Moves DEF SoundRequest, EditsOwn, Edits
  <2>6. ~ (MembersChange \/ Tick \/ UNCHANGED vars)
    BY <1>1 DEF MembersChange, Tick, vars, tables, EraseSchedules, DeleteAzit
  <2> QED BY <1>1, <2>2, <2>3, <2>4, <2>5, <2>6 DEF Next, Step, Looks
<1>2. Inv /\ [Next]_vars =>
        [\A s \in DOMAIN schedule :
           schedule[s].azit \in azits' /\ (s \notin DOMAIN schedule' \/ schedule'[s] # schedule[s]) =>
             \E r \in Requests : /\ req[r].op \in {"update", "delete"} /\ req[r].pc = "write"
                                 /\ req[r].sched = s
                                 /\ req[r].member = schedule[s].creator]_vars
  BY <1>1
<1> QED BY <1>2, Invariance, PTL DEF Spec, EditedByCreator
-----------------------------------------------------------------------------
(* Requests that do not overlap. *)

OneAtATime == \A r, s \in Requests : r = s

\* The schedule an edit has read is as it was read.
CopyCurrent(q) ==
  Edits(q) /\ q.pc # "schedule" /\ q.sched \in DOMAIN schedule => q.copy = schedule[q.sched]

Serial == TimesOrdered /\ \A r \in Requests : CopyCurrent(req[r])

LEMMA MergedTimes ==
  ASSUME NEW old \in Schedule, ValidTimes(old), NEW max \in Capacities \union {None},
         NEW dto \in [recruit: Time \union {None}, start: Time \union {None}, end: Time \union {None}],
         TimesAccepted(dto, Merged(old, max, dto))
  PROVE  ValidTimes(Merged(old, max, dto))
<1>1. PICK n : n = Merged(old, max, dto)
  OBVIOUS
<1>2. CASE \E f \in DOMAIN dto : dto[f] # None
  BY <1>1, <1>2 DEF TimesAccepted
<1>3. CASE \A f \in DOMAIN dto : dto[f] = None
  <2>1. dto.recruit = None /\ dto.start = None /\ dto.end = None
    BY <1>3
  <2>2. n.recruit = old.recruit /\ n.start = old.start /\ n.end = old.end
    BY <1>1, <2>1 DEF Merged, Or, Schedule
  <2> QED BY <1>1, <2>2 DEF ValidTimes
<1> QED BY <1>2, <1>3

\* A step of the one request, which moves to q.
LEMMA MovesSerial ==
  ASSUME OneAtATime, Sound, TimesOrdered', NEW r \in Requests, NEW q, Become(r, q), CopyCurrent(q)'
  PROVE  Serial'
<1>1. ASSUME NEW s \in Requests PROVE CopyCurrent(req[s])'
  <2>1. req'[s] = q
    BY DEF OneAtATime, Sound, Become
  <2> QED BY <2>1 DEF CopyCurrent, Edits
<1> QED BY <1>1 DEF Serial

LEMMA ReturnSerial ==
  ASSUME OneAtATime, Sound, TimesOrdered', NEW r \in Requests, Return(r)
  PROVE  Serial'
<1>1. CopyCurrent(Idle)'
  BY DEF CopyCurrent, Edits, Idle
<1> QED BY <1>1, MovesSerial DEF Return

LEMMA LooksSerial ==
  ASSUME OneAtATime, Sound, Serial, NEW r \in Requests, Looks(r) \/ CheckCapacity(r)
  PROVE  Serial'
<1>p. PICK p : p = req[r]
  OBVIOUS
<1>q. p \in Request /\ OnPath(p) /\ CopyCurrent(p)
  BY <1>p DEF Sound, SoundRequest, Serial
<1>0. UNCHANGED schedule /\ TimesOrdered'
  <2>1. Reads
    BY DEF Looks, CheckCapacity, FindAzit, FindMember, FindSchedule, StartCreate, CreateRejected,
           StartEdit, CheckCreator, EditRejected, StartParticipation, CheckExists, FindParticipation
  <2> QED BY <2>1 DEF Reads, tables, Serial, TimesOrdered
<1>1. SUFFICES ASSUME ~ Return(r)
               PROVE  \E q : Become(r, q) /\ CopyCurrent(q)
  <2>1. ASSUME NEW q, Become(r, q), CopyCurrent(q) PROVE Serial'
    <3>1. CopyCurrent(q)'
      BY <1>0, <2>1 DEF CopyCurrent
    <3> QED BY <1>0, <2>1, <3>1, MovesSerial
  <2> QED BY <1>0, <2>1, ReturnSerial
\* Requests that are not edits, and edits that begin.
<1>2. ASSUME NEW q, Become(r, q), ~ Edits(q) \/ q.pc = "schedule"
      PROVE  \E k : Become(r, k) /\ CopyCurrent(k)
  BY <1>2 DEF CopyCurrent
<1>3. ASSUME NEW pc \in Pcs, Goto(r, pc), ~ Edits(p)
      PROVE  \E k : Become(r, k) /\ CopyCurrent(k)
  <2> DEFINE q == [p EXCEPT !.pc = pc]
  <2>1. Become(r, q) /\ ~ Edits(q)
    BY <1>p, <1>q, <1>3 DEF Goto, Edits, Request
  <2> HIDE DEF q
  <2> QED BY <1>2, <2>1
<1>4. CASE FindAzit(r)
  <2>1. Goto(r, "member") /\ ~ Edits(p)
    BY <1>p, <1>q, <1>1, <1>4 DEF FindAzit, OnPath, Edits
  <2> QED BY <1>3, <2>1 DEF Pcs
<1>5. CASE FindMember(r)
  <2>1. PICK m \in azitUser : Become(r, [p EXCEPT !.member = m.id, !.pc = AfterMember(p.op)])
    BY <1>p, <1>1, <1>5 DEF FindMember
  <2> DEFINE q == [p EXCEPT !.member = m.id, !.pc = AfterMember(p.op)]
  <2>2. Become(r, q) /\ q.op = p.op /\ q.sched = p.sched /\ q.copy = p.copy /\ p.pc = "member"
    BY <1>p, <1>q, <1>5, <2>1 DEF Request, FindMember
  <2> HIDE DEF q
  <2>3. CopyCurrent(q)
    BY <1>q, <2>2 DEF CopyCurrent, Edits
  <2> QED BY <2>2, <2>3
<1>6. CASE FindSchedule(r)
  <2> DEFINE q == [p EXCEPT !.copy = schedule[p.sched], !.pc = AfterSchedule(p)]
  <2>1. Become(r, q) /\ q.sched = p.sched /\ q.copy = schedule[p.sched]
    BY <1>p, <1>q, <1>1, <1>6 DEF FindSchedule, Request
  <2> HIDE DEF q
  <2>2. CopyCurrent(q)
    BY <2>1 DEF CopyCurrent
  <2> QED BY <2>1, <2>2
<1>7. CASE CheckCreator(r)
  <2> DEFINE q == [p EXCEPT !.pc = "write"]
  <2>1. /\ Become(r, q) /\ q.op = p.op /\ q.sched = p.sched /\ q.copy = p.copy /\ p.pc = "creator"
    BY <1>p, <1>q, <1>1, <1>7 DEF CheckCreator, Goto, Request
  <2> HIDE DEF q
  <2>2. CopyCurrent(q)
    BY <1>q, <2>1 DEF CopyCurrent, Edits
  <2> QED BY <2>1, <2>2
<1>8. CASE CheckCapacity(r) \/ CheckExists(r)
  <2>1. p.pc \in {"count", "exists"} /\ \E pc \in Pcs : Goto(r, pc)
    BY <1>p, <1>1, <1>8 DEF CheckCapacity, CheckExists, Pcs
  <2> QED BY <1>q, <1>3, <2>1 DEF OnPath, Edits
<1>9. CASE FindParticipation(r)
  <2>1. PICK f : f = (RowsFor(p.member, p.sched) # {})
    OBVIOUS
  <2> DEFINE q == [p EXCEPT !.found = f, !.pc = "write"]
  <2>2. Become(r, q) /\ q.op = p.op /\ ~ Edits(p)
    BY <1>p, <1>q, <1>9, <2>1 DEF FindParticipation, Request, OnPath, Edits
  <2> HIDE DEF q
  <2> QED BY <1>2, <2>2 DEF Edits
<1>10. CASE StartCreate(r)
  <2>1. PICK u \in Users, a \in AzitId : Become(r, [Idle EXCEPT !.op = "create", !.pc = "azit", !.user = u, !.azit = a])
    BY <1>10 DEF StartCreate, Begin
  <2> DEFINE q == [Idle EXCEPT !.op = "create", !.pc = "azit", !.user = u, !.azit = a]
  <2>2. Become(r, q) /\ ~ Edits(q)
    BY <2>1 DEF Idle, Edits
  <2> HIDE DEF q
  <2> QED BY <1>2, <2>2
<1>11. CASE StartEdit(r)
  <2>1. PICK op \in {"update", "delete"}, u \in Users, a \in AzitId, s \in ScheduleId :
          Become(r, [Idle EXCEPT !.op = op, !.pc = "schedule", !.user = u, !.azit = a, !.sched = s])
    BY <1>11 DEF StartEdit, Begin
  <2> DEFINE q == [Idle EXCEPT !.op = op, !.pc = "schedule", !.user = u, !.azit = a, !.sched = s]
  <2>2. Become(r, q) /\ q.pc = "schedule"
    BY <2>1 DEF Idle
  <2> HIDE DEF q
  <2> QED BY <1>2, <2>2
<1>12. CASE StartParticipation(r)
  <2>1. PICK op \in {"setStatus", "cancel"}, u \in Users, a \in AzitId, s \in ScheduleId,
             st \in Settable \union {"CANCELLED"} :
          Become(r, [Idle EXCEPT !.op = op, !.pc = "azit", !.user = u, !.azit = a,
                                 !.sched = s, !.status = st])
    BY <1>12 DEF StartParticipation, Begin
  <2> DEFINE q == [Idle EXCEPT !.op = op, !.pc = "azit", !.user = u, !.azit = a,
                               !.sched = s, !.status = st]
  <2>2. Become(r, q) /\ ~ Edits(q)
    BY <2>1 DEF Idle, Edits
  <2> HIDE DEF q
  <2> QED BY <1>2, <2>2
<1> QED BY <1>1, <1>4, <1>5, <1>6, <1>7, <1>8, <1>9, <1>10, <1>11, <1>12
        DEF Looks, CreateRejected, EditRejected

LEMMA WritesSerial ==
  ASSUME OneAtATime, Sound, Serial, NEW r \in Requests,
         CreateSchedule(r) \/ UpdateSchedule(r) \/ DeleteSchedule(r) \/ WriteParticipation(r)
  PROVE  Serial'
<1>1. Return(r)
  BY DEF CreateSchedule, UpdateSchedule, DeleteSchedule, WriteParticipation
<1>2. SUFFICES TimesOrdered'
  BY <1>1, ReturnSerial
<1>3. CASE CreateSchedule(r)
  <2>1. PICK recruit \in Time, start \in Time, end \in Time, max \in Capacities :
          LET new == [azit |-> req[r].azit, max |-> max, recruit |-> recruit, start |-> start,
                      end |-> end, creator |-> req[r].member, peak |-> max] IN
          /\ ValidTimes(new)
          /\ schedule' = [s \in DOMAIN schedule \union {nextSchedule} |->
                            IF s = nextSchedule THEN new ELSE schedule[s]]
    BY <1>3 DEF CreateSchedule
  <2> DEFINE new == [azit |-> req[r].azit, max |-> max, recruit |-> recruit, start |-> start,
                     end |-> end, creator |-> req[r].member, peak |-> max]
  <2>2. /\ ValidTimes(new)
        /\ \A s \in DOMAIN schedule' : \/ s \in DOMAIN schedule /\ schedule'[s] = schedule[s]
                                       \/ schedule'[s] = new
    BY <2>1
  <2> HIDE DEF new
  <2> QED BY <2>2 DEF Serial, TimesOrdered, ValidTimes
<1>4. CASE UpdateSchedule(r)
  <2>1. PICK max \in Capacities \union {None},
             dto \in [recruit: Time \union {None}, start: Time \union {None}, end: Time \union {None}] :
          /\ TimesAccepted(dto, Merged(req[r].copy, max, dto))
          /\ schedule' = [s \in DOMAIN schedule |->
                            IF s = req[r].sched THEN Merged(schedule[s], max, dto) ELSE schedule[s]]
    BY <1>4 DEF UpdateSchedule
  <2>2. ASSUME NEW s \in DOMAIN schedule, s = req[r].sched
        PROVE  ValidTimes(Merged(schedule[s], max, dto))
    <3>1. schedule[s] = req[r].copy
      BY <1>4, <2>2 DEF UpdateSchedule, At, Serial, CopyCurrent, Edits
    <3>2. schedule[s] \in Schedule /\ ValidTimes(schedule[s])
      BY DEF Sound, RowsOK, ScheduleTypeOK, Serial, TimesOrdered
    <3>3. TimesAccepted(dto, Merged(schedule[s], max, dto))
      BY <2>1, <3>1
    <3> QED BY <2>1, <3>2, <3>3, MergedTimes
  <2>3. ASSUME NEW s \in DOMAIN schedule' PROVE ValidTimes(schedule[s])'
    <3>1. s \in DOMAIN schedule /\
          schedule'[s] = IF s = req[r].sched THEN Merged(schedule[s], max, dto) ELSE schedule[s]
      BY <2>1
    <3> QED BY <2>2, <3>1 DEF Serial, TimesOrdered, ValidTimes
  <2> QED BY <2>3 DEF TimesOrdered
<1>5. CASE DeleteSchedule(r)
  BY <1>5 DEF DeleteSchedule, EraseSchedules, Serial, TimesOrdered, ValidTimes
<1>6. CASE WriteParticipation(r)
  BY <1>6 DEF WriteParticipation, Serial, TimesOrdered, ValidTimes
<1> QED BY <1>3, <1>4, <1>5, <1>6

LEMMA RestSerial ==
  ASSUME Sound, Serial, MembersChange \/ Tick \/ UNCHANGED vars
  PROVE  Serial'
<1>1. /\ req' = req
      /\ DOMAIN schedule' \subseteq DOMAIN schedule
      /\ \A s \in DOMAIN schedule' : schedule'[s] = schedule[s]
  BY DEF MembersChange, EraseSchedules, Tick, vars, tables
<1>2. TimesOrdered'
  BY <1>1 DEF Serial, TimesOrdered, ValidTimes
<1>3. \A r \in Requests : CopyCurrent(req[r])'
  BY <1>1 DEF Serial, CopyCurrent, Edits
<1> QED BY <1>2, <1>3 DEF Serial

LEMMA NextSerial == OneAtATime /\ Inv /\ Serial /\ [Next]_vars => Serial'
<1> SUFFICES ASSUME OneAtATime, Inv, Serial, [Next]_vars PROVE Serial'
  OBVIOUS
<1> QED BY LooksSerial, WritesSerial, RestSerial DEF Inv, Next, Step, Looks

LEMMA InitSerial == Init => Serial
<1> SUFFICES ASSUME Init PROVE Serial
  OBVIOUS
<1> QED BY DEF Init, Serial, TimesOrdered, CopyCurrent, Edits, Idle

\* azit.validator.ts:269 and :276, "the game must start before it ends, recruitment must
\* end before the game starts": with one request at a time the times are in order, for an
\* update that names some of them and leaves the others as it read them.
THEOREM TimesOrderedWhenSerial == ASSUME OneAtATime PROVE Spec => []TimesOrdered
<1>1. Serial => TimesOrdered
  BY DEF Serial
<1> QED BY <1>1, InitSerial, NextSerial, Invariance, PTL DEF Spec
=============================================================================

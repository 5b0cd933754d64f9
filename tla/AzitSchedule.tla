---------------------------- MODULE AzitSchedule ----------------------------
(***************************************************************************)
(* AzitScheduleService (create, update, delete) and                        *)
(* AzitScheduleParticipationService (participate, cancel, change status).  *)
(*                                                                         *)
(* Requests interleave at every awaited statement, as in AzitMembership;   *)
(* the azits and their members change underneath them by the steps of      *)
(* MemberTable, which is all that the other services promise.              *)
(***************************************************************************)
EXTENDS MemberTable

CONSTANTS
  Requests,     \* concurrent requests in flight
  MaxSchedule,  \* bound: azit_schedule ids handed out
  MaxTime,      \* bound: the clock and the times of a schedule
  Capacities,   \* values of max_participants (dto: an integer, at least 2)
  Settable,     \* bound: the statuses requests ask for (the dto allows every Status)
  None          \* absent value

ASSUME ScheduleAssumption ==
  /\ IsFiniteSet(Requests)
  /\ MaxSchedule \in Nat /\ MaxTime \in Nat
  /\ Capacities \subseteq Nat \ {0, 1}
  /\ Settable \subseteq {"PENDING", "DECLINE", "CANCELLED", "JOIN"}
  /\ None \notin Users /\ None \notin Nat

VARIABLES
  schedule,       \* rows of azit_schedule: a function on the ids that exist
  participation,  \* rows of azit_schedule_participation
  nextSchedule,   \* AUTO_INCREMENT counter of azit_schedule
  now,            \* the clock
  req             \* local state of every request

tables == <<schedule, participation, nextSchedule>>
vars   == <<tableVars, tables, now, req>>

ScheduleId == 1..MaxSchedule
Time       == 0..MaxTime
Status     == {"PENDING", "DECLINE", "CANCELLED", "JOIN"}
\* creator and peak are ghosts: the member that created the schedule, and the
\* largest max_participants it ever had.
Schedule == [azit: AzitId, max: Capacities, recruit: Time, start: Time, end: Time,
             creator: MemberId, peak: Capacities]
Participation == [member: MemberId, sched: ScheduleId,
                  role: {"CREATOR", "PARTICIPANT"}, status: Status]

Ops == {"idle", "create", "update", "delete", "cancel", "setStatus"}
Pcs == {"idle", "azit", "member", "schedule", "creator", "count", "exists", "find", "write"}
Request ==
  [op: Ops, pc: Pcs,
   user: Users \union {None},
   azit: AzitId \union {None},
   sched: ScheduleId \union {None},
   status: Status \union {None},      \* the status to set
   member: MemberId \union {None},    \* id of the caller's member row
   copy: Schedule \union {None},      \* schedule as read by findScheduleById
   found: BOOLEAN]                    \* findParticipation returned a row

Idle == [op |-> "idle", pc |-> "idle", user |-> None, azit |-> None, sched |-> None,
         status |-> None, member |-> None, copy |-> None, found |-> FALSE]

TypeOK ==
  /\ TableTypeOK
  /\ DOMAIN schedule \subseteq ScheduleId
  /\ \A s \in DOMAIN schedule : schedule[s] \in Schedule
  /\ participation \subseteq Participation
  /\ nextSchedule \in 1..MaxSchedule + 1
  /\ now \in Time
  /\ req \in [Requests -> Request]

Init ==
  /\ TableInit
  /\ schedule = [s \in {} |-> None]
  /\ participation = {}
  /\ nextSchedule = 1
  /\ now = 0
  /\ req = [r \in Requests |-> Idle]
-----------------------------------------------------------------------------
At(r, op, pc) == req[r].op = op /\ req[r].pc = pc
Become(r, q)  == req' = [req EXCEPT ![r] = q]
Goto(r, pc)   == Become(r, [req[r] EXCEPT !.pc = pc])
Return(r)     == Become(r, Idle)
Begin(r, q)   == req[r].pc = "idle" /\ Become(r, q)

Reads == UNCHANGED <<tableVars, tables, now>>

\* countParticipations: only JOIN rows take a seat.
Joined(s)     == {p \in participation : p.sched = s /\ p.status = "JOIN"}
RowsFor(m, s) == {p \in participation : p.member = m /\ p.sched = s}
IsJoined(q)   == \E p \in Joined(q.sched) : p.member = q.member

\* validateScheduleTimes.
ValidTimes(t) == t.start < t.end /\ t.recruit < t.start

\* INSERT of a participation: composite primary key, foreign keys to azit_user and
\* azit_schedule.  A violation is an exception and inserts nothing.
InsertParticipation(p) ==
  participation' =
    IF RowsFor(p.member, p.sched) = {} /\ p.sched \in DOMAIN schedule
       /\ \E m \in azitUser : m.id = p.member
    THEN participation \union {p} ELSE participation

\* Mutant of SetStatus: the wrong column is written.
SetRole(m, s, status) ==
  participation' = {IF p.member = m /\ p.sched = s THEN [p EXCEPT !.role = status] ELSE p :
                      p \in participation}

\* updateParticipationStatus: an exception, and no change, when the row is gone.
SetStatus(m, s, status) ==
  participation' = {IF p.member = m /\ p.sched = s THEN [p EXCEPT !.status = status] ELSE p :
                      p \in participation}
-----------------------------------------------------------------------------
(* Lookups shared by the operations. *)

\* checkAzitExists.
FindAzit(r) ==
  /\ req[r].pc = "azit"
  /\ IF req[r].azit \in azits THEN Goto(r, "member") ELSE Return(r)
  /\ Reads

\* checkAzitMemberExists: any row of the user in the azit (findFirst, no ORDER BY).
\* The operations differ in what comes next.
AfterMember(op) ==
  CASE op = "create" -> "write"
    [] op \in {"update", "delete"} -> "creator"
    [] op \in {"cancel", "setStatus"} -> "schedule"

FindMember(r) ==
  LET q == req[r]
      Found == {m \in azitUser : m.user = q.user /\ m.azit = q.azit} IN
  /\ q.pc = "member"
  /\ \/ \E m \in Found : Become(r, [q EXCEPT !.member = m.id, !.pc = AfterMember(q.op)])
     \/ Found = {} /\ Return(r)
  /\ Reads

\* checkScheduleAndInAzit; for a JOIN the deadline of validateParticipation is
\* compared with the clock before the next await.
Closed(q, s)      == q.op = "setStatus" /\ q.status = "JOIN" /\ schedule[s].recruit < now
AfterSchedule(q)  ==
  CASE q.op \in {"update", "delete"} -> "member"
    [] q.op = "cancel" -> "exists"
    [] q.op = "setStatus" -> IF q.status = "JOIN" THEN "count" ELSE "find"

\* Mutant of FindSchedule: the azit of the schedule is not compared.
FindScheduleAnywhere(r) ==
  LET q == req[r] IN
  /\ q.pc = "schedule"
  /\ IF q.sched \in DOMAIN schedule /\ ~Closed(q, q.sched)
     THEN Become(r, [q EXCEPT !.copy = schedule[q.sched], !.pc = AfterSchedule(q)])
     ELSE Return(r)
  /\ Reads

FindSchedule(r) ==
  LET q == req[r] IN
  /\ q.pc = "schedule"
  /\ IF /\ q.sched \in DOMAIN schedule
        /\ schedule[q.sched].azit = q.azit
        /\ ~Closed(q, q.sched)
     THEN Become(r, [q EXCEPT !.copy = schedule[q.sched], !.pc = AfterSchedule(q)])
     ELSE Return(r)
  /\ Reads
-----------------------------------------------------------------------------
(* POST /azits/{id}/schedules: createSchedule.  One transaction inserts the *)
(* schedule and the CREATOR participation, or nothing.                      *)

StartCreate(r) ==
  /\ \E u \in Users, a \in AzitId :
       Begin(r, [Idle EXCEPT !.op = "create", !.pc = "azit", !.user = u, !.azit = a])
  /\ Reads

CreateSchedule(r) ==
  LET q == req[r] IN
  /\ At(r, "create", "write")
  /\ nextSchedule <= MaxSchedule
  /\ \E recruit, start, end \in Time, max \in Capacities :
       LET new == [azit |-> q.azit, max |-> max, recruit |-> recruit, start |-> start,
                   end |-> end, creator |-> q.member, peak |-> max] IN
       /\ ValidTimes(new)
       /\ schedule' = [s \in DOMAIN schedule \union {nextSchedule} |->
                         IF s = nextSchedule THEN new ELSE schedule[s]]
  /\ participation' = participation \union
       {[member |-> q.member, sched |-> nextSchedule, role |-> "CREATOR", status |-> "JOIN"]}
  /\ nextSchedule' = nextSchedule + 1
  /\ q.azit \in azits
  /\ \E m \in azitUser : m.id = q.member
  /\ Return(r)
  /\ UNCHANGED <<tableVars, now>>

\* Invalid times, or a foreign key that no longer holds: the azit or the caller's
\* membership went away.
CreateRejected(r) ==
  /\ At(r, "create", "write")
  /\ Return(r)
  /\ Reads
-----------------------------------------------------------------------------
(* PATCH and DELETE /azits/{id}/schedules/{id}: updateSchedule, deleteSchedule *)

StartEdit(r) ==
  /\ \E op \in {"update", "delete"}, u \in Users, a \in AzitId, s \in ScheduleId :
       Begin(r, [Idle EXCEPT !.op = op, !.pc = "schedule", !.user = u, !.azit = a, !.sched = s])
  /\ Reads

\* Mutant of CheckCreator: any participant may edit.
CheckParticipant(r) ==
  /\ req[r].pc = "creator"
  /\ IF RowsFor(req[r].member, req[r].sched) # {} THEN Goto(r, "write") ELSE Return(r)
  /\ Reads

\* checkScheduleCreator: a CREATOR row, whatever its status.
CheckCreator(r) ==
  /\ req[r].pc = "creator"
  /\ IF \E p \in RowsFor(req[r].member, req[r].sched) : p.role = "CREATOR"
     THEN Goto(r, "write") ELSE Return(r)
  /\ Reads

\* The times are validated if the dto names one of them.
TimesAccepted(dto, merged) == (\E f \in DOMAIN dto : dto[f] # None) => ValidTimes(merged)

\* The dto names any of the columns, and only those are written.
Or(new, old) == IF new = None THEN old ELSE new
Merged(old, max, dto) ==
  [old EXCEPT !.recruit = Or(dto.recruit, @), !.start = Or(dto.start, @), !.end = Or(dto.end, @),
              !.max = Or(max, @), !.peak = IF max # None /\ max > @ THEN max ELSE @]

\* A partial update: the times are validated against the copy read first.
UpdateSchedule(r) ==
  LET q == req[r]
      MaybeTime == Time \union {None} IN
  /\ At(r, "update", "write")
  /\ \E max \in Capacities \union {None},
        dto \in [recruit: MaybeTime, start: MaybeTime, end: MaybeTime] :
       /\ TimesAccepted(dto, Merged(q.copy, max, dto))
       /\ schedule' = [s \in DOMAIN schedule |->
                         IF s = q.sched THEN Merged(schedule[s], max, dto) ELSE schedule[s]]
  /\ Return(r)
  /\ UNCHANGED <<tableVars, participation, nextSchedule, now>>

\* ON DELETE CASCADE takes the participations along.
EraseSchedules(S) ==
  /\ schedule' = [s \in DOMAIN schedule \ S |-> schedule[s]]
  /\ participation' = {p \in participation : p.sched \notin S}
  /\ nextSchedule' = nextSchedule

DeleteSchedule(r) ==
  /\ At(r, "delete", "write")
  /\ EraseSchedules({req[r].sched})
  /\ Return(r)
  /\ UNCHANGED <<tableVars, now>>

\* Feedback.schedule is ON DELETE RESTRICT; feedback rows are not modelled, so the
\* statement may also fail.  An update with invalid times is refused likewise.
EditRejected(r) ==
  /\ req[r].op \in {"update", "delete"} /\ req[r].pc = "write"
  /\ Return(r)
  /\ Reads
-----------------------------------------------------------------------------
(* POST, DELETE and PATCH .../participants: participateSchedule (which is    *)
(* setStatus with JOIN), cancelParticipation, updateParticipationStatus.     *)

StartParticipation(r) ==
  /\ \E u \in Users, a \in AzitId, s \in ScheduleId :
       \/ \E st \in Settable :
            Begin(r, [Idle EXCEPT !.op = "setStatus", !.pc = "azit", !.user = u, !.azit = a,
                                  !.sched = s, !.status = st])
       \/ Begin(r, [Idle EXCEPT !.op = "cancel", !.pc = "azit", !.user = u, !.azit = a,
                                !.sched = s, !.status = "CANCELLED"])
  /\ Reads

\* Mutant of CheckCapacity: off by one.
CheckCapacityLoose(r) ==
  /\ req[r].pc = "count"
  /\ IF Cardinality(Joined(req[r].sched)) > req[r].copy.max
     THEN Return(r) ELSE Goto(r, "exists")
  /\ Reads

\* validateParticipation: the seats are counted now, the limit was read before.
CheckCapacity(r) ==
  /\ req[r].pc = "count"
  /\ IF Cardinality(Joined(req[r].sched)) >= req[r].copy.max
     THEN Return(r) ELSE Goto(r, "exists")
  /\ Reads

\* checkParticipationExists: a JOIN must not be repeated, a cancellation needs one.
CheckExists(r) ==
  LET q == req[r] IN
  /\ q.pc = "exists"
  /\ IF IsJoined(q) # (q.op = "cancel") THEN Return(r)
     ELSE Goto(r, IF q.op = "cancel" THEN "write" ELSE "find")
  /\ Reads

FindParticipation(r) ==
  LET q == req[r] IN
  /\ q.pc = "find"
  /\ Become(r, [q EXCEPT !.found = (RowsFor(q.member, q.sched) # {}), !.pc = "write"])
  /\ Reads

\* Mutant of WriteParticipation: the row is replaced instead of updated.
ReplaceParticipation(r) ==
  LET q == req[r] IN
  /\ q.op \in {"setStatus", "cancel"} /\ q.pc = "write"
  /\ q.sched \in DOMAIN schedule /\ \E m \in azitUser : m.id = q.member
  /\ participation' = (participation \ RowsFor(q.member, q.sched)) \union
       {[member |-> q.member, sched |-> q.sched, role |-> "PARTICIPANT", status |-> q.status]}
  /\ Return(r)
  /\ UNCHANGED <<tableVars, schedule, nextSchedule, now>>

WriteParticipation(r) ==
  LET q == req[r] IN
  /\ q.op \in {"setStatus", "cancel"} /\ q.pc = "write"
  /\ IF q.found \/ q.op = "cancel"
     THEN SetStatus(q.member, q.sched, q.status)
     ELSE InsertParticipation([member |-> q.member, sched |-> q.sched,
                               role |-> "PARTICIPANT", status |-> q.status])
  /\ Return(r)
  /\ UNCHANGED <<tableVars, schedule, nextSchedule, now>>
-----------------------------------------------------------------------------
(* The rest of the system. *)

\* Members and azits come and go; foreign keys cascade.
MembersChange ==
  /\ \/ /\ \/ \E u \in Users : CreateAzit(u)
           \/ \E u \in Users, a \in azits : AddMember(u, a)
        /\ UNCHANGED tables
     \/ \E m \in azitUser :
          /\ RemoveMember(m)
          /\ participation' = {p \in participation : p.member # m.id}
          /\ UNCHANGED <<schedule, nextSchedule>>
     \/ \E a \in azits :
          /\ DeleteAzit(a)
          /\ EraseSchedules({s \in DOMAIN schedule : schedule[s].azit = a})
  /\ UNCHANGED <<now, req>>

Tick ==
  /\ now < MaxTime
  /\ now' = now + 1
  /\ UNCHANGED <<tableVars, tables, req>>

Step(r) ==
  \/ FindAzit(r) \/ FindMember(r) \/ FindSchedule(r)
  \/ StartCreate(r) \/ CreateSchedule(r) \/ CreateRejected(r)
  \/ StartEdit(r) \/ CheckCreator(r) \/ UpdateSchedule(r) \/ DeleteSchedule(r) \/ EditRejected(r)
  \/ StartParticipation(r) \/ CheckCapacity(r) \/ CheckExists(r) \/ FindParticipation(r)
  \/ WriteParticipation(r)

Next == (\E r \in Requests : Step(r)) \/ MembersChange \/ Tick

Spec == Init /\ [][Next]_vars
-----------------------------------------------------------------------------
(* Properties. *)

\* A participation joins a member and a schedule of the same azit (both were looked
\* up in the azit of the path, in different statements), refers to rows that exist,
\* and is the only one of its member in the schedule.
SameAzit ==
  \A p \in participation :
    /\ p.sched \in DOMAIN schedule
    /\ \E m \in azitUser : m.id = p.member /\ m.azit = schedule[p.sched].azit
    /\ RowsFor(p.member, p.sched) = {p}

\* A schedule has no CREATOR row but its creator's, and has that one for as long as
\* the creator is a member: only then can it still be changed or deleted.
CreatorKept ==
  \A s \in DOMAIN schedule :
    \A m \in azitUser :
      (\E p \in RowsFor(m.id, s) : p.role = "CREATOR") <=> m.id = schedule[s].creator

\* A schedule of a living azit changes or goes only by an update or a deletion on
\* behalf of the member that created it, even if the role was read before.
EditedByCreator ==
  [][\A s \in DOMAIN schedule :
       schedule[s].azit \in azits' /\ (s \notin DOMAIN schedule' \/ schedule'[s] # schedule[s]) =>
         \E r \in Requests : /\ req[r].op \in {"update", "delete"} /\ req[r].pc = "write"
                             /\ req[r].sched = s
                             /\ req[r].member = schedule[s].creator]_vars

\* Requests that counted the seats of s and found one free, but have not sat down.
Validated(s) ==
  {r \in Requests : /\ req[r].op = "setStatus" /\ req[r].status = "JOIN" /\ req[r].sched = s
                    /\ req[r].pc \in {"exists", "find", "write"}}

\* Check-then-act lets overlapping requests oversubscribe a schedule, by at most one
\* seat per request that can be in flight besides the first.
BoundedOversubscription ==
  \A s \in DOMAIN schedule :
    Cardinality(Joined(s)) + Cardinality(Validated(s))
      <= schedule[s].peak + Cardinality(Requests) - 1

\* azit.validator.ts:269 and :276 "the game must start before it ends, recruitment
\* must end before the game starts".  True when requests do not overlap.
TimesOrdered == \A s \in DOMAIN schedule : ValidTimes(schedule[s])
=============================================================================

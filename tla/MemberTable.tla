----------------------------- MODULE MemberTable -----------------------------
(***************************************************************************)
(* Abstract specification of the tables azits and azit_user, shared by the *)
(* azit, party, chat, schedule and highlight services: which rows may      *)
(* appear and disappear, whatever requests are in flight.  Its promises:   *)
(*                                                                         *)
(*   - an azit is born together with its HOST row, in one transaction;     *)
(*   - every later row of that azit is a MEMBER row, never one of the      *)
(*     host's own user;                                                    *)
(*   - a HOST row goes away only with the azit.                            *)
(*                                                                         *)
(* AzitMembership, the model of the services, implements it; AzitSchedule  *)
(* and PartyApplication take it as the environment they run in.            *)
(***************************************************************************)
EXTENDS Naturals, FiniteSets

CONSTANTS
  Users,     \* the registered users
  MaxAzit,   \* bound: azit ids handed out by AUTO_INCREMENT
  MaxMember  \* bound: azit_user ids handed out by AUTO_INCREMENT

ASSUME MemberTableAssumption ==
  /\ MaxAzit \in Nat
  /\ MaxMember \in Nat

VARIABLES
  azits,      \* ids of the rows of table azits
  azitUser,   \* rows of table azit_user
  nextAzit,   \* AUTO_INCREMENT counter of azits: ids are never reused
  nextMember  \* AUTO_INCREMENT counter of azit_user

tableVars == <<azits, azitUser, nextAzit, nextMember>>

AzitId   == 1..MaxAzit
MemberId == 1..MaxMember
Role     == {"HOST", "MEMBER"}
Member   == [id: MemberId, user: Users, azit: AzitId, role: Role]

Hosts(h, a) == h.azit = a /\ h.role = "HOST"
NewMember(u, a, role) == [id |-> nextMember, user |-> u, azit |-> a, role |-> role]

TableTypeOK ==
  /\ azits \subseteq AzitId
  /\ azitUser \subseteq Member
  /\ nextAzit \in 1..MaxAzit + 1
  /\ nextMember \in 1..MaxMember + 1

TableInit ==
  /\ azits = {}
  /\ azitUser = {}
  /\ nextAzit = 1
  /\ nextMember = 1

-----------------------------------------------------------------------------
(* The four changes the tables may undergo, each one SQL transaction.      *)

CreateAzit(u) ==
  /\ nextAzit <= MaxAzit
  /\ nextMember <= MaxMember
  /\ azits' = azits \union {nextAzit}
  /\ azitUser' = azitUser \union {NewMember(u, nextAzit, "HOST")}
  /\ nextAzit' = nextAzit + 1
  /\ nextMember' = nextMember + 1

AddMember(u, a) ==
  /\ nextMember <= MaxMember
  /\ a \in azits
  /\ \A h \in azitUser : Hosts(h, a) => h.user # u
  /\ azitUser' = azitUser \union {NewMember(u, a, "MEMBER")}
  /\ nextMember' = nextMember + 1
  /\ UNCHANGED <<azits, nextAzit>>

RemoveMember(m) ==
  /\ m \in azitUser
  /\ m.role = "MEMBER"
  /\ azitUser' = azitUser \ {m}
  /\ UNCHANGED <<azits, nextAzit, nextMember>>

\* ON DELETE CASCADE takes the rows of azit_user along.
DeleteAzit(a) ==
  /\ a \in azits
  /\ azits' = azits \ {a}
  /\ azitUser' = {m \in azitUser : m.azit # a}
  /\ UNCHANGED <<nextAzit, nextMember>>

TableNext ==
  \/ \E u \in Users : CreateAzit(u)
  \/ \E u \in Users, a \in azits : AddMember(u, a)
  \/ \E m \in azitUser : RemoveMember(m)
  \/ \E a \in azits : DeleteAzit(a)

TableSpec == TableInit /\ [][TableNext]_tableVars

-----------------------------------------------------------------------------
\* Ids identify rows, and were handed out before.
IdsFresh ==
  /\ \A a \in azits : a < nextAzit
  /\ \A m \in azitUser : m.id < nextMember
  /\ \A m, n \in azitUser : m.id = n.id => m = n

\* Foreign key azit_user.azit_id -> azits.id.
MembersReferToAzits == \A m \in azitUser : m.azit \in azits

\* "There is always exactly one host" (azit-member.service.ts:183, the comment
\* that justifies why a host may not remove itself): every azit has exactly one
\* HOST row, at all times and under every interleaving of requests.
OneHost ==
  \A a \in azits : \E h \in azitUser :
    Hosts(h, a) /\ \A k \in azitUser : Hosts(k, a) => k = h

\* The host of an azit holds no second membership row in it, so a lookup of the
\* host's membership (findFirst, no ORDER BY) can only return the HOST row.
HostHasOneRow ==
  \A h, m \in azitUser : Hosts(h, m.azit) /\ m.user = h.user => m = h
-----------------------------------------------------------------------------
\* The inductive invariant.  One host per azit survives a removal because only
\* MEMBER rows are removed, and an insertion because a fresh id is neither an
\* existing azit's nor an existing row's (IdsFresh).
TableInv ==
  /\ TableTypeOK
  /\ IdsFresh
  /\ MembersReferToAzits
  /\ OneHost
  /\ HostHasOneRow
=============================================================================

------------------------ MODULE AzitMembershipProofs ------------------------
(***************************************************************************)
(* The azit services implement MemberTable, and keep exactly one host per  *)
(* azit, for any number of users, requests, azits, rows and files.         *)
(*                                                                         *)
(* Every step of a request is split in two: what it does to the tables is  *)
(* a step of MemberTable or nothing, and what it does to the request is a  *)
(* move to a local state that is sound (SoundRequest) with respect to the  *)
(* tables as they are now.  SoundRequest says what a request may still     *)
(* rely on although it read it earlier; MemberTable steps by anybody else  *)
(* never falsify it.                                                       *)
(*                                                                         *)
(* With one request at a time more is true: what the request has read is   *)
(* still so when it writes (Current), unless the azit went with its last   *)
(* party post, and what is promised of names, members and icons holds.     *)
(***************************************************************************)
EXTENDS AzitMembership, TLAPS

Adds(q)    == q.op \in {"addAzitMember", "handleApplication"}
Removes(q) == q.op = "removeAzitMember"
Edits(q)   == q.op \in {"updateAzit", "deleteAzit"}

\* The azit was found by an earlier step: its id will not be handed out again.
AzitSeen(q) ==
  (Adds(q) \/ Removes(q)) /\ q.pc # "azit" => q.azit \in AzitId /\ q.azit < nextAzit

\* A request about to insert a row is not about to give the host a second one.
TargetNotHost(q) ==
  Adds(q) => /\ q.target \in Users
             /\ q.pc = "write" =>
                  \A h \in azitUser : Hosts(h, q.azit) => h.user # q.target

\* The row to remove, as read earlier, is the only one its id can name; if it is
\* the host's, it is still there as long as the azit is.
TargetRow(q) ==
  Removes(q) /\ q.pc \in {"requester", "write"} =>
    /\ q.row \in Member
    /\ q.row.id = q.target /\ q.row.azit = q.azit /\ q.row.id < nextMember
    /\ \A m \in azitUser : m.id = q.row.id => m = q.row
    /\ q.row.role = "HOST" /\ q.azit \in azits => q.row \in azitUser

\* A removal that passed its checks is not about to remove the host.
TargetRemovable(q) ==
  Removes(q) /\ q.pc = "write" /\ q.row \in azitUser => q.row.role = "MEMBER"

\* The caller of a removal that passed its checks is its target's user or the host,
\* and still is as long as the azit lives.
RemoverEntitled(q) ==
  Removes(q) /\ q.pc = "write" /\ q.azit \in azits =>
    \/ q.user = q.row.user
    \/ \E h \in azitUser : Hosts(h, q.azit) /\ h.user = q.user

\* What the remaining requests carry into the row they write.
CopyRead(q) == Edits(q) /\ q.pc # "azit" => q.copy \in Azit /\ q.azit \in AzitId
Creator(q)  == q.op = "createAzit" => q.user \in Users /\ q.name \in Names

SoundRequest(q) ==
  /\ AzitSeen(q) /\ TargetNotHost(q) /\ TargetRow(q) /\ TargetRemovable(q)
  /\ RemoverEntitled(q) /\ CopyRead(q) /\ Creator(q)

Inv ==
  /\ TypeOK
  /\ TableInv
  /\ \A r \in Requests : SoundRequest(req[r])
-----------------------------------------------------------------------------
\* The invariant of the tables holds initially and is kept by every step of MemberTable.
LEMMA TableInitInv == TableInit => TableInv
BY MemberTableAssumption
   DEF TableInit, TableInv, TableTypeOK, IdsFresh, MembersReferToAzits, OneHost, HostHasOneRow

LEMMA TableNextInv == TableInv /\ [TableNext]_tableVars => TableInv'
<1> SUFFICES ASSUME TableInv, [TableNext]_tableVars PROVE TableInv'
  OBVIOUS
<1> USE MemberTableAssumption
<1> USE DEF TableInv, TableTypeOK, IdsFresh, MembersReferToAzits, OneHost, HostHasOneRow,
            Member, AzitId, MemberId, Role, Hosts
<1>1. ASSUME NEW u \in Users, CreateAzit(u) PROVE TableInv'
  <2> DEFINE new == NewMember(u, nextAzit, "HOST")
  <2>1. azitUser' = azitUser \union {new} /\ azits' = azits \union {nextAzit}
    BY <1>1 DEF CreateAzit
  <2>2. new \in Member /\ Hosts(new, nextAzit) /\ new.id = nextMember
    BY <1>1 DEF CreateAzit, NewMember
  <2>3. (TableTypeOK /\ IdsFresh /\ MembersReferToAzits)'
    BY <1>1, <2>1, <2>2 DEF CreateAzit
  <2>4. OneHost'
    BY <2>1, <2>2
  <2>5. HostHasOneRow'
    BY <2>1, <2>2
  <2> QED BY <2>3, <2>4, <2>5
<1>2. ASSUME NEW u \in Users, NEW a \in azits, AddMember(u, a) PROVE TableInv'
  <2> DEFINE new == NewMember(u, a, "MEMBER")
  <2>1. azitUser' = azitUser \union {new} /\ azits' = azits
    BY <1>2 DEF AddMember
  <2>2. new \in Member /\ new.role = "MEMBER" /\ new.id = nextMember /\ new.user = u /\ new.azit = a
    BY <1>2 DEF AddMember, NewMember
  <2>3. (TableTypeOK /\ IdsFresh /\ MembersReferToAzits)'
    BY <1>2, <2>1, <2>2 DEF AddMember
  <2>4. OneHost'
    BY <2>1, <2>2
  <2>5. HostHasOneRow'
    BY <1>2, <2>1, <2>2 DEF AddMember
  <2> QED BY <2>3, <2>4, <2>5
<1>3. ASSUME NEW m \in azitUser, RemoveMember(m) PROVE TableInv'
  BY <1>3 DEF RemoveMember
<1>4. ASSUME NEW a \in azits, DeleteAzit(a) PROVE TableInv'
  <2>1. (TableTypeOK /\ IdsFresh /\ MembersReferToAzits)'
    BY <1>4 DEF DeleteAzit
  <2>2. (OneHost /\ HostHasOneRow)'
    BY <1>4 DEF DeleteAzit
  <2> QED BY <2>1, <2>2
<1>5. CASE UNCHANGED tableVars
  BY <1>5 DEF tableVars
<1> QED BY <1>1, <1>2, <1>3, <1>4, <1>5 DEF TableNext

\* Every behaviour of the abstract table satisfies its invariant.
THEOREM TableInvariant == TableSpec => []TableInv
BY TableInitInv, TableNextInv, PTL DEF TableSpec

\* azit-member.service.ts:183, "there is always exactly one host": a consequence of
\* the table's promises alone, for any number of azits and members.
THEOREM TableOneHost == TableSpec => [](OneHost /\ HostHasOneRow)
BY TableInvariant, PTL DEF TableInv

LEMMA IdleSound == Idle \in Request /\ SoundRequest(Idle)
BY DEF Idle, Request, Ops, Pcs, SoundRequest, AzitSeen, TargetNotHost, TargetRow,
       TargetRemovable, RemoverEntitled, CopyRead, Creator, Adds, Removes, Edits

LEMMA InitInv == Init => Inv
<1> SUFFICES ASSUME Init PROVE Inv
  OBVIOUS
<1>1. TableInv
  BY TableInitInv DEF Init
<1>2. \A r \in Requests : req[r] = Idle
  BY DEF Init
<1>3. TypeOK
  <2>1. info \in [azits -> Azit]
    BY DEF Init, TableInit
  <2>2. req \in [Requests -> Request]
    BY IdleSound DEF Init
  <2> QED BY <1>1, <2>1, <2>2, MembershipAssumption DEF Init, TypeOK, TableInv
<1> QED BY <1>1, <1>2, <1>3, IdleSound DEF Inv

\* A sound local state stays sound under every step of the tables: host rows stay
\* as long as their azit, ids are not reused, and insertions never name a host.
LEMMA SoundStable ==
  ASSUME NEW q, SoundRequest(q), TableInv, [TableNext]_tableVars
  PROVE  SoundRequest(q)'
<1> USE MemberTableAssumption
<1>1. CASE UNCHANGED tableVars
  BY <1>1 DEF tableVars, SoundRequest, AzitSeen, TargetNotHost, TargetRow,
       TargetRemovable, RemoverEntitled, CopyRead, Creator
<1>2. CASE TableNext
  <2> USE DEF SoundRequest, TableInv, TableTypeOK, IdsFresh, Member, AzitId, MemberId, Hosts
  <2>1. ASSUME NEW u \in Users, CreateAzit(u) PROVE SoundRequest(q)'
    <3>0. RemoverEntitled(q)'
      BY <2>1 DEF CreateAzit, NewMember, AzitSeen, RemoverEntitled
    <3>1. (AzitSeen(q) /\ TargetNotHost(q) /\ CopyRead(q) /\ Creator(q))'
      BY <2>1 DEF CreateAzit, NewMember, AzitSeen, TargetNotHost, CopyRead, Creator
    <3>2. TargetRow(q)'
      BY <2>1 DEF CreateAzit, NewMember, AzitSeen, TargetRow
    <3>3. TargetRemovable(q)'
      BY <2>1 DEF CreateAzit, NewMember, AzitSeen, TargetRemovable, TargetRow
    <3> QED BY <3>0, <3>1, <3>2, <3>3
  <2>2. ASSUME NEW u \in Users, NEW a \in azits, AddMember(u, a) PROVE SoundRequest(q)'
    <3>0. RemoverEntitled(q)'
      BY <2>2 DEF AddMember, NewMember, RemoverEntitled
    <3>1. (AzitSeen(q) /\ TargetNotHost(q) /\ CopyRead(q) /\ Creator(q))'
      BY <2>2 DEF AddMember, NewMember, AzitSeen, TargetNotHost, CopyRead, Creator
    <3>2. TargetRow(q)'
      BY <2>2 DEF AddMember, NewMember, AzitSeen, TargetRow
    <3>3. TargetRemovable(q)'
      BY <2>2 DEF AddMember, NewMember, AzitSeen, TargetRemovable, TargetRow
    <3> QED BY <3>0, <3>1, <3>2, <3>3
  <2>3. ASSUME NEW m \in azitUser, RemoveMember(m) PROVE SoundRequest(q)'
    BY <2>3 DEF RemoveMember, AzitSeen, TargetNotHost, TargetRow, TargetRemovable,
                RemoverEntitled, CopyRead, Creator
  <2>4. ASSUME NEW a \in azits, DeleteAzit(a) PROVE SoundRequest(q)'
    BY <2>4 DEF DeleteAzit, AzitSeen, TargetNotHost, TargetRow, TargetRemovable,
                RemoverEntitled, CopyRead, Creator
  <2> QED BY <1>2, <2>1, <2>2, <2>3, <2>4 DEF TableNext
<1> QED BY <1>1, <1>2
-----------------------------------------------------------------------------
(* The local half of every step: a move to a sound local state. *)

Local(r) == \E q \in Request : SoundRequest(q) /\ Become(r, q)

\* The columns of the other tables, and S3.
DataOK ==
  /\ info \in [azits -> Azit]
  /\ posts \subseteq azits
  /\ files \subseteq FileId
  /\ nextFile \in 1..MaxFile + 1
  /\ iconLost \subseteq AzitId

\* What every step of a request r does.
Good(r) == [TableNext]_tableVars /\ DataOK' /\ Local(r)

LEMMA ReturnLocal == ASSUME NEW r, Return(r) PROVE Local(r)
BY IdleSound DEF Return, Local

LEMMA QuietGood ==
  ASSUME NEW r, Inv, Local(r), UNCHANGED <<rows, posts, s3>> PROVE Good(r)
<1>1. UNCHANGED <<tableVars, azits, info, posts, files, nextFile, iconLost>>
  BY DEF rows, s3, tableVars
<1>2. DataOK'
  BY <1>1 DEF Inv, TypeOK, DataOK
<1> QED BY <1>1, <1>2 DEF Good

\* Moves that change the url, the row or the position of a request.
LEMMA RequestUpdate ==
  ASSUME NEW q \in Request, NEW p \in Pcs, NEW u \in FileId \union {None}
  PROVE  /\ [q EXCEPT !.url = u, !.pc = p] \in Request
         /\ [q EXCEPT !.url = u, !.row = None, !.pc = p] \in Request
BY DEF Request

\* Requests of the services that do not write azit_user.
LEMMA EditSound ==
  ASSUME NEW q \in Request, q.op \in {"idle", "createAzit", "updateAzit", "deleteAzit"},
         CopyRead(q), Creator(q)
  PROVE  SoundRequest(q)
BY DEF SoundRequest, AzitSeen, TargetNotHost, TargetRow, TargetRemovable,
       RemoverEntitled, Adds, Removes

LEMMA StartGood ==
  ASSUME Inv, NEW r \in Requests,
         \/ StartCreateAzit(r) \/ StartUpdateAzit(r) \/ StartDeleteAzit(r)
         \/ StartAddMember(r) \/ StartRemoveMember(r) \/ StartAcceptApplicant(r)
  PROVE  Good(r)
<1> USE DEF Request, Ops, Pcs, Idle
<1>1. CASE StartCreateAzit(r)
  <2>1. PICK u \in Users, n \in Names, i \in {"keep", "file"} :
          Become(r, [Idle EXCEPT !.op = "createAzit", !.pc = "names",
                                 !.user = u, !.name = n, !.icon = i])
    BY <1>1 DEF StartCreateAzit, Begin
  <2> DEFINE q == [Idle EXCEPT !.op = "createAzit", !.pc = "names",
                               !.user = u, !.name = n, !.icon = i]
  <2>2. q \in Request /\ q.op = "createAzit" /\ q.user = u /\ q.name = n
    OBVIOUS
  <2>3. SoundRequest(q)
    BY <2>2, EditSound DEF CopyRead, Creator, Edits
  <2> QED BY <1>1, <2>1, <2>2, <2>3, QuietGood DEF Local, StartCreateAzit
<1>2. CASE StartUpdateAzit(r)
  <2>1. PICK u \in Users, a \in AzitId, n \in Names \union {None}, i \in {"keep", "delete", "file"} :
          Become(r, [Idle EXCEPT !.op = "updateAzit", !.pc = "azit", !.user = u,
                                 !.azit = a, !.name = n, !.icon = i])
    BY <1>2 DEF StartUpdateAzit, Begin
  <2> DEFINE q == [Idle EXCEPT !.op = "updateAzit", !.pc = "azit", !.user = u,
                               !.azit = a, !.name = n, !.icon = i]
  <2>2. q \in Request /\ q.op = "updateAzit" /\ q.pc = "azit"
    OBVIOUS
  <2>3. SoundRequest(q)
    BY <2>2, EditSound DEF CopyRead, Creator, Edits
  <2> QED BY <1>2, <2>1, <2>2, <2>3, QuietGood DEF Local, StartUpdateAzit
<1>3. CASE StartDeleteAzit(r)
  <2>1. PICK u \in Users, a \in AzitId :
          Become(r, [Idle EXCEPT !.op = "deleteAzit", !.pc = "azit", !.user = u, !.azit = a])
    BY <1>3 DEF StartDeleteAzit, Begin
  <2> DEFINE q == [Idle EXCEPT !.op = "deleteAzit", !.pc = "azit", !.user = u, !.azit = a]
  <2>2. q \in Request /\ q.op = "deleteAzit" /\ q.pc = "azit"
    OBVIOUS
  <2>3. SoundRequest(q)
    BY <2>2, EditSound DEF CopyRead, Creator, Edits
  <2> QED BY <1>3, <2>1, <2>2, <2>3, QuietGood DEF Local, StartDeleteAzit
<1>4. CASE StartAddMember(r)
  <2>1. PICK u \in Users, t \in Users, a \in AzitId :
          Become(r, [Idle EXCEPT !.op = "addAzitMember", !.pc = "azit", !.user = u,
                                 !.azit = a, !.target = t])
    BY <1>4 DEF StartAddMember, Begin
  <2> DEFINE q == [Idle EXCEPT !.op = "addAzitMember", !.pc = "azit", !.user = u,
                               !.azit = a, !.target = t]
  <2>2. q \in Request /\ q.op = "addAzitMember" /\ q.pc = "azit" /\ q.target = t
    OBVIOUS
  <2>3. SoundRequest(q)
    BY <2>2 DEF SoundRequest, AzitSeen, TargetNotHost, TargetRow, TargetRemovable,
                RemoverEntitled, CopyRead, Creator, Adds, Removes, Edits
  <2> QED BY <1>4, <2>1, <2>2, <2>3, QuietGood DEF Local, StartAddMember
<1>5. CASE StartRemoveMember(r)
  <2>1. PICK u \in Users, a \in AzitId, m \in MemberId :
          Become(r, [Idle EXCEPT !.op = "removeAzitMember", !.pc = "azit", !.user = u,
                                 !.azit = a, !.target = m])
    BY <1>5 DEF StartRemoveMember, Begin
  <2> DEFINE q == [Idle EXCEPT !.op = "removeAzitMember", !.pc = "azit", !.user = u,
                               !.azit = a, !.target = m]
  <2>2. q \in Request /\ q.op = "removeAzitMember" /\ q.pc = "azit"
    OBVIOUS
  <2>3. SoundRequest(q)
    BY <2>2 DEF SoundRequest, AzitSeen, TargetNotHost, TargetRow, TargetRemovable,
                RemoverEntitled, CopyRead, Creator, Adds, Removes, Edits
  <2> QED BY <1>5, <2>1, <2>2, <2>3, QuietGood DEF Local, StartRemoveMember
<1>6. CASE StartAcceptApplicant(r)
  <2>1. PICK a \in posts, t \in Users :
          Become(r, [Idle EXCEPT !.op = "handleApplication", !.pc = "existing",
                                 !.azit = a, !.target = t])
    BY <1>6 DEF StartAcceptApplicant, Begin
  <2>2. a \in AzitId /\ a < nextAzit
    BY DEF Inv, TypeOK, TableInv, TableTypeOK, IdsFresh
  <2> DEFINE q == [Idle EXCEPT !.op = "handleApplication", !.pc = "existing",
                               !.azit = a, !.target = t]
  <2>3. q \in Request /\ q.op = "handleApplication" /\ q.pc = "existing" /\ q.target = t /\ q.azit = a
    BY <2>2
  <2>4. SoundRequest(q)
    BY <2>2, <2>3 DEF SoundRequest, AzitSeen, TargetNotHost, TargetRow, TargetRemovable,
                RemoverEntitled, CopyRead, Creator, Adds, Removes, Edits
  <2> QED BY <1>6, <2>1, <2>3, <2>4, QuietGood DEF Local, StartAcceptApplicant
<1> QED BY <1>1, <1>2, <1>3, <1>4, <1>5, <1>6

\* Steps of createAzit, updateAzit and deleteAzit before their last statement.
LEMMA EditGood ==
  ASSUME Inv, NEW r \in Requests,
         \/ CreateCheckName(r) \/ UpdateCheckHost(r) \/ UpdateCheckName(r) \/ DeleteCheckHost(r)
         \/ \E op \in {"updateAzit", "deleteAzit"} : FindAzit(r, op, "member") \/ CheckMember(r, op)
  PROVE  Good(r)
<1> DEFINE q == req[r]
<1>q. q \in Request /\ SoundRequest(q) /\ CopyRead(q) /\ Creator(q)
  BY DEF Inv, TypeOK, SoundRequest
<1>d. info \in [azits -> Azit] /\ azitUser \subseteq Member /\ azits \subseteq AzitId
  BY DEF Inv, TypeOK, TableTypeOK
<1> USE DEF At, Goto
<1>1. CASE CreateCheckName(r)
  <2>1. SUFFICES ASSUME NEW p \in {"upload", "write"}, Goto(r, p) PROVE Local(r)
    BY <1>1, ReturnLocal, QuietGood DEF CreateCheckName
  <2>2. [q EXCEPT !.pc = p] \in Request
    BY <1>q, <2>1 DEF Request, Pcs
  <2>3. SoundRequest([q EXCEPT !.pc = p])
    BY <1>q, <1>1, <2>2, EditSound DEF CreateCheckName, CopyRead, Creator, Edits, Request
  <2> QED BY <2>1, <2>2, <2>3 DEF Local
<1>2. CASE UpdateCheckHost(r)
  <2> DEFINE n == [q EXCEPT !.url = KeptUrl(q), !.row = None,
                            !.pc = IF q.name # None THEN "names" ELSE AfterNames(q)]
  <2>1. SUFFICES ASSUME Become(r, n) PROVE Local(r)
    BY <1>2, ReturnLocal, QuietGood DEF UpdateCheckHost
  <2>2. q.op = "updateAzit" /\ q.copy \in Azit /\ q.azit \in AzitId
    BY <1>2, <1>q DEF UpdateCheckHost, CopyRead, Edits
  <2>a. AfterNames(q) \in Pcs /\ KeptUrl(q) \in FileId \union {None}
    BY <2>2 DEF AfterNames, KeptUrl, Pcs, Azit
  <2>d. "names" \in Pcs
    BY DEF Pcs
  <2>b. n \in Request
    BY <1>q, <2>a, RequestUpdate, <2>d
  <2>3. n.op = q.op /\ n.copy = q.copy /\ n.azit = q.azit
    BY <1>q DEF Request
  <2>4. SoundRequest(n)
    BY <2>b, <2>2, <2>3, EditSound DEF CopyRead, Creator, Edits
  <2> QED BY <2>1, <2>b, <2>4 DEF Local
<1>3. CASE UpdateCheckName(r)
  <2>0. AfterNames(q) \in Pcs
    BY DEF AfterNames, Pcs
  <2>1. SUFFICES ASSUME NEW p \in Pcs, Goto(r, p) PROVE Local(r)
    BY <1>3, <2>0, ReturnLocal, QuietGood DEF UpdateCheckName
  <2>2. [q EXCEPT !.pc = p] \in Request
    BY <1>q DEF Request
  <2>3. SoundRequest([q EXCEPT !.pc = p])
    BY <1>q, <1>3, <2>2, EditSound DEF UpdateCheckName, CopyRead, Creator, Edits, Request
  <2> QED BY <2>1, <2>2, <2>3 DEF Local
<1>4. CASE DeleteCheckHost(r)
  <2>1. SUFFICES ASSUME NEW p \in {"deleteIcon", "write"},
                        Become(r, [q EXCEPT !.row = None, !.pc = p]) PROVE Local(r)
    BY <1>4, ReturnLocal, QuietGood DEF DeleteCheckHost
  <2> DEFINE n == [q EXCEPT !.row = None, !.pc = p]
  <2>2. n \in Request /\ n.op = q.op /\ n.copy = q.copy /\ n.azit = q.azit
    BY <1>q, <2>1 DEF Request, Pcs
  <2>3. q.op = "deleteAzit" /\ q.copy \in Azit /\ q.azit \in AzitId
    BY <1>4, <1>q DEF DeleteCheckHost, CopyRead, Edits
  <2>4. SoundRequest(n)
    BY <2>2, <2>3, EditSound DEF CopyRead, Creator, Edits
  <2> QED BY <2>1, <2>2, <2>4 DEF Local
<1>5. ASSUME NEW op \in {"updateAzit", "deleteAzit"}, FindAzit(r, op, "member") PROVE Good(r)
  <2> DEFINE n == [q EXCEPT !.copy = info[q.azit], !.pc = "member"]
  <2>1. SUFFICES ASSUME q.azit \in azits, Become(r, n) PROVE Local(r)
    BY <1>5, ReturnLocal, QuietGood DEF FindAzit
  <2>2. n \in Request /\ n.op = q.op /\ n.copy \in Azit /\ n.azit = q.azit
    BY <1>q, <1>d, <2>1 DEF Request, Pcs
  <2>3. SoundRequest(n)
    BY <1>5, <1>d, <2>1, <2>2, EditSound DEF FindAzit, CopyRead, Creator, Edits
  <2> QED BY <2>1, <2>2, <2>3 DEF Local
<1>6. ASSUME NEW op \in {"updateAzit", "deleteAzit"}, CheckMember(r, op) PROVE Good(r)
  <2>1. SUFFICES ASSUME NEW m \in azitUser, Become(r, [q EXCEPT !.row = m, !.pc = "host"])
                 PROVE  Local(r)
    BY <1>6, ReturnLocal, QuietGood DEF CheckMember, Caller, RowsOf
  <2> DEFINE n == [q EXCEPT !.row = m, !.pc = "host"]
  <2>2. n \in Request /\ n.op = q.op /\ n.copy = q.copy /\ n.azit = q.azit
    BY <1>q, <1>d, <2>1 DEF Request, Pcs
  <2>3. SoundRequest(n)
    BY <1>6, <1>q, <2>2, EditSound DEF CheckMember, CopyRead, Creator, Edits
  <2> QED BY <2>1, <2>2, <2>3 DEF Local
<1> QED BY <1>1, <1>2, <1>3, <1>4, <1>5, <1>6

\* Uploads, icon deletions, and the statements that write azits.
LEMMA AzitWriteGood ==
  ASSUME Inv, NEW r \in Requests,
         \/ CreateWrite(r) \/ UpdateWrite(r) \/ DeleteWrite(r)
         \/ \E op \in {"createAzit", "updateAzit"} : Upload(r, op) \/ UploadFails(r, op)
         \/ \E op \in {"updateAzit", "deleteAzit"} : DeleteIcon(r, op)
  PROVE  Good(r)
<1> DEFINE q == req[r]
<1>q. q \in Request /\ SoundRequest(q) /\ CopyRead(q) /\ Creator(q)
  BY DEF Inv, TypeOK, SoundRequest
<1>d. TypeOK /\ DataOK /\ TableInv
  BY DEF Inv, TypeOK, DataOK
<1> USE MembershipAssumption, MemberTableAssumption DEF At, Goto
<1>1. CASE CreateWrite(r)
  <2>1. q.user \in Users /\ q.name \in Names /\ q.url \in FileId \union {None}
    BY <1>1, <1>q DEF CreateWrite, Creator, Request
  <2>2. CreateAzit(q.user)
    BY <1>1, <2>1 DEF CreateWrite, CreateAzit
  <2>3. DataOK'
    BY <1>1, <1>d, <2>1 DEF CreateWrite, DataOK, s3, Azit, TypeOK, TableTypeOK, AzitId
  <2> QED BY <1>1, <2>1, <2>2, <2>3, ReturnLocal DEF Good, TableNext, CreateWrite
<1>2. CASE UpdateWrite(r)
  <2>1. q.op = "updateAzit" /\ q.copy \in Azit /\ q.url \in FileId \union {None}
        /\ q.name \in Names \union {None}
    BY <1>2, <1>q DEF UpdateWrite, CopyRead, Edits, Request
  <2>2. DataOK'
    BY <1>2, <1>d, <2>1 DEF UpdateWrite, DataOK, Azit, tableVars
  <2> QED BY <1>2, <2>2, ReturnLocal DEF Good, UpdateWrite
<1>3. CASE DeleteWrite(r)
  <2>1. q.azit \in azits => q.azit \in AzitId
    BY <1>d DEF TypeOK, TableTypeOK
  <2>2. CASE q.azit \in azits /\ UNCHANGED rows
    <3>1. DataOK'
      BY <1>3, <1>d, <2>1, <2>2 DEF DeleteWrite, EraseAzit, DataOK, rows, tableVars
    <3> QED BY <1>3, <2>2, <3>1, ReturnLocal DEF Good, DeleteWrite, rows
  <2>3. CASE ~ Referenced(q.azit) /\ EraseAzit(q.azit) /\ iconLost' = iconLost \ {q.azit}
    <3>1. DataOK'
      BY <1>3, <1>d, <2>3 DEF DeleteWrite, DataOK, EraseAzit, Referenced
    <3>2. q.azit \in azits => DeleteAzit(q.azit)
      BY <2>3 DEF EraseAzit, DeleteAzit
    <3>3. q.azit \notin azits => UNCHANGED tableVars
      BY <1>d, <2>3 DEF EraseAzit, tableVars, TableInv, MembersReferToAzits
    <3> QED BY <1>3, <3>1, <3>2, <3>3, ReturnLocal DEF Good, DeleteWrite, TableNext
  <2> QED BY <1>3, <2>2, <2>3 DEF DeleteWrite
<1>4. ASSUME NEW op \in {"createAzit", "updateAzit"}, Upload(r, op) PROVE Good(r)
  <2> DEFINE n == [q EXCEPT !.url = nextFile, !.pc = "write"]
  <2>1. nextFile \in FileId /\ nextFile + 1 \in 1..MaxFile + 1
    BY <1>4, <1>d DEF Upload, FileId, DataOK
  <2>a. n \in Request
    BY <1>q, <2>1, RequestUpdate DEF Pcs
  <2>2. n.op = q.op /\ n.copy = q.copy /\ n.azit = q.azit /\ n.user = q.user /\ n.name = q.name
    BY <1>q DEF Request
  <2>3. SoundRequest(n)
    BY <1>4, <1>q, <2>a, <2>2, EditSound DEF Upload, CopyRead, Creator, Edits
  <2>4. UNCHANGED <<tableVars, azits, info, posts>>
    BY <1>4 DEF Upload, rows, tableVars
  <2>5. DataOK'
    BY <1>4, <1>d, <2>1, <2>4 DEF DataOK, Upload
  <2> QED BY <1>4, <2>a, <2>3, <2>4, <2>5 DEF Good, Local, Upload
<1>5. ASSUME NEW op \in {"createAzit", "updateAzit"}, UploadFails(r, op) PROVE Good(r)
  <2>1. UNCHANGED <<tableVars, azits, info, posts>>
    BY <1>5 DEF UploadFails, rows, tableVars
  <2>2. op = "updateAzit" => q.azit \in AzitId
    BY <1>5, <1>q DEF UploadFails, CopyRead, Edits
  <2>3. DataOK'
    BY <1>5, <1>d, <2>1, <2>2 DEF UploadFails, DataOK
  <2> QED BY <1>5, <2>1, <2>3, ReturnLocal DEF Good, UploadFails
<1>6. ASSUME NEW op \in {"updateAzit", "deleteAzit"}, DeleteIcon(r, op) PROVE Good(r)
  <2>1. SUFFICES ASSUME NEW p \in {"upload", "write"}, Goto(r, p) PROVE Local(r)
    <3>1. UNCHANGED <<tableVars, azits, info, posts>>
      BY <1>6 DEF DeleteIcon, rows, tableVars
    <3>2. DataOK'
      BY <1>6, <1>d, <3>1 DEF DataOK, DeleteIcon
    <3>3. \E p \in {"upload", "write"} : Goto(r, p)
      BY <1>6 DEF DeleteIcon
    <3> QED BY <3>1, <3>2, <3>3 DEF Good
  <2> DEFINE n == [q EXCEPT !.pc = p]
  <2>2. n \in Request /\ n.op = q.op /\ n.copy = q.copy /\ n.azit = q.azit
    BY <1>q, <2>1 DEF Request, Pcs
  <2>3. SoundRequest(n)
    BY <1>6, <1>q, <2>2, EditSound DEF DeleteIcon, CopyRead, Creator, Edits
  <2> QED BY <2>1, <2>2, <2>3 DEF Local
<1> QED BY <1>1, <1>2, <1>3, <1>4, <1>5, <1>6

\* addAzitMember and handleApplication: the row they insert is never a second row
\* of the host, because the host's row was there when "existing" looked.
LEMMA AddGood ==
  ASSUME Inv, NEW r \in Requests,
         \/ FindAzit(r, "addAzitMember", "requester") \/ AddCheckRequester(r)
         \/ \E op \in {"addAzitMember", "handleApplication"} : CheckExisting(r, op) \/ AddWrite(r, op)
  PROVE  Good(r)
<1> DEFINE q == req[r]
<1>q. q \in Request /\ SoundRequest(q) /\ AzitSeen(q) /\ TargetNotHost(q)
  BY DEF Inv, TypeOK, SoundRequest
<1>d. TypeOK /\ DataOK /\ TableInv
  BY DEF Inv, TypeOK, DataOK
<1>s. ASSUME NEW n \in Request, Adds(n), AzitSeen(n), TargetNotHost(n) PROVE SoundRequest(n)
  BY <1>s DEF SoundRequest, TargetRow, TargetRemovable, RemoverEntitled, CopyRead, Creator, Adds, Removes, Edits
<1> USE DEF At, Goto
<1>1. CASE FindAzit(r, "addAzitMember", "requester")
  <2> DEFINE n == [q EXCEPT !.copy = info[q.azit], !.pc = "requester"]
  <2>1. SUFFICES ASSUME q.azit \in azits, Become(r, n) PROVE Local(r)
    BY <1>1, ReturnLocal, QuietGood DEF FindAzit
  <2>2. info[q.azit] \in Azit /\ q.azit \in AzitId /\ q.azit < nextAzit
    BY <1>d, <2>1 DEF TypeOK, TableInv, TableTypeOK, IdsFresh
  <2>3. n \in Request /\ n.op = q.op /\ n.azit = q.azit /\ n.target = q.target /\ n.pc = "requester"
    BY <1>q, <2>2 DEF Request, Pcs
  <2>4. SoundRequest(n)
    BY <1>1, <1>q, <1>s, <2>2, <2>3 DEF FindAzit, Adds, AzitSeen, TargetNotHost
  <2> QED BY <2>1, <2>3, <2>4 DEF Local
<1>2. CASE AddCheckRequester(r)
  <2> DEFINE n == [q EXCEPT !.pc = "existing"]
  <2>1. SUFFICES ASSUME Become(r, n) PROVE Local(r)
    BY <1>2, ReturnLocal, QuietGood DEF AddCheckRequester
  <2>2. n \in Request /\ n.op = q.op /\ n.azit = q.azit /\ n.target = q.target /\ n.pc = "existing"
    BY <1>q DEF Request, Pcs
  <2>3. SoundRequest(n)
    BY <1>2, <1>q, <1>s, <2>2 DEF AddCheckRequester, Adds, AzitSeen, TargetNotHost
  <2> QED BY <2>1, <2>2, <2>3 DEF Local
<1>3. ASSUME NEW op \in {"addAzitMember", "handleApplication"}, CheckExisting(r, op) PROVE Good(r)
  <2> DEFINE n == [q EXCEPT !.pc = "write"]
  <2>1. SUFFICES ASSUME RowsOf(q.target, q.azit) = {}, Become(r, n) PROVE Local(r)
    BY <1>3, ReturnLocal, QuietGood DEF CheckExisting
  <2>2. n \in Request /\ n.op = q.op /\ n.azit = q.azit /\ n.target = q.target /\ n.pc = "write"
    BY <1>q DEF Request, Pcs
  <2>3. \A h \in azitUser : Hosts(h, q.azit) => h.user # q.target
    BY <2>1 DEF RowsOf, Hosts
  <2>4. SoundRequest(n)
    BY <1>3, <1>q, <1>s, <2>2, <2>3 DEF CheckExisting, Adds, AzitSeen, TargetNotHost
  <2> QED BY <2>1, <2>2, <2>4 DEF Local
<1>4. ASSUME NEW op \in {"addAzitMember", "handleApplication"}, AddWrite(r, op) PROVE Good(r)
  <2>1. q.target \in Users /\ \A h \in azitUser : Hosts(h, q.azit) => h.user # q.target
    BY <1>4, <1>q DEF AddWrite, TargetNotHost, Adds
  <2>2. CASE InsertMember(q.target, q.azit, "MEMBER")
    <3>1. AddMember(q.target, q.azit) /\ q.azit \in azits
      BY <2>1, <2>2 DEF InsertMember, AddMember
    <3>2. DataOK'
      BY <1>4, <1>d, <2>2 DEF AddWrite, InsertMember, DataOK, s3
    <3> QED BY <1>4, <2>1, <3>1, <3>2, ReturnLocal DEF Good, TableNext, AddWrite
  <2>3. CASE UNCHANGED rows
    BY <1>4, <2>3, ReturnLocal, QuietGood DEF AddWrite
  <2> QED BY <1>4, <2>2, <2>3 DEF AddWrite
<1> QED BY <1>1, <1>2, <1>3, <1>4

\* removeAzitMember: the row it deletes is never the host's.
LEMMA RemoveGood ==
  ASSUME Inv, NEW r \in Requests,
         \/ FindAzit(r, "removeAzitMember", "target") \/ RemoveFindTarget(r)
         \/ RemoveCheckRequester(r) \/ RemoveWrite(r)
  PROVE  Good(r)
<1> DEFINE q == req[r]
<1>q. q \in Request /\ AzitSeen(q) /\ TargetRow(q) /\ TargetRemovable(q)
  BY DEF Inv, TypeOK, SoundRequest
<1>d. TypeOK /\ DataOK /\ TableInv
  BY DEF Inv, TypeOK, DataOK
<1>s. ASSUME NEW n \in Request, Removes(n), AzitSeen(n), TargetRow(n), TargetRemovable(n),
             RemoverEntitled(n)
      PROVE  SoundRequest(n)
  BY <1>s DEF SoundRequest, TargetNotHost, CopyRead, Creator, Adds, Removes, Edits
<1> USE DEF At, Goto
<1>1. CASE FindAzit(r, "removeAzitMember", "target")
  <2> DEFINE n == [q EXCEPT !.copy = info[q.azit], !.pc = "target"]
  <2>1. SUFFICES ASSUME q.azit \in azits, Become(r, n) PROVE Local(r)
    BY <1>1, ReturnLocal, QuietGood DEF FindAzit
  <2>2. info[q.azit] \in Azit /\ q.azit \in AzitId /\ q.azit < nextAzit
    BY <1>d, <2>1 DEF TypeOK, TableInv, TableTypeOK, IdsFresh
  <2>3. n \in Request /\ n.op = q.op /\ n.azit = q.azit /\ n.pc = "target"
    BY <1>q, <2>2 DEF Request, Pcs
  <2>4. SoundRequest(n)
    BY <1>1, <1>s, <2>2, <2>3 DEF FindAzit, Removes, AzitSeen, TargetRow, TargetRemovable,
                                 RemoverEntitled
  <2> QED BY <2>1, <2>3, <2>4 DEF Local
<1>2. CASE RemoveFindTarget(r)
  <2>1. SUFFICES ASSUME NEW m \in azitUser, m.id = q.target, m.azit = q.azit,
                        Become(r, [q EXCEPT !.row = m, !.pc = "requester"])
                 PROVE  Local(r)
    BY <1>2, ReturnLocal, QuietGood DEF RemoveFindTarget
  <2> DEFINE n == [q EXCEPT !.row = m, !.pc = "requester"]
  <2>2. m \in Member
    BY <1>d, <2>1 DEF TypeOK, TableTypeOK
  <2>3. n \in Request /\ n.op = q.op /\ n.azit = q.azit /\ n.target = q.target
        /\ n.row = m /\ n.pc = "requester"
    BY <1>q, <2>2 DEF Request, Pcs
  <2>4. TargetRow(n)
    BY <1>d, <2>1, <2>2, <2>3 DEF TargetRow, TableInv, IdsFresh
  <2>5. SoundRequest(n)
    BY <1>2, <1>q, <1>s, <2>3, <2>4 DEF RemoveFindTarget, Removes, AzitSeen,
                                            TargetRemovable, RemoverEntitled
  <2> QED BY <2>1, <2>3, <2>5 DEF Local
<1>3. CASE RemoveCheckRequester(r)
  <2>1. SUFFICES ASSUME NEW m \in Caller(r), MayRemove(q, m),
                        Become(r, [q EXCEPT !.pc = "write"])
                 PROVE  Local(r)
    BY <1>3, ReturnLocal, QuietGood DEF RemoveCheckRequester
  <2> DEFINE n == [q EXCEPT !.pc = "write"]
  <2>2. n \in Request /\ n.op = q.op /\ n.azit = q.azit /\ n.target = q.target
        /\ n.row = q.row /\ n.user = q.user /\ n.pc = "write"
    BY <1>q DEF Request, Pcs
  <2>3. m \in azitUser /\ m.user = q.user /\ m.azit = q.azit
    BY <2>1 DEF Caller, RowsOf
  <2>4. q.op = "removeAzitMember" /\ q.pc = "requester"
    BY <1>3 DEF RemoveCheckRequester
  <2>5. q.row \in Member /\ q.row.azit = q.azit /\ m.azit \in azits
    BY <1>q, <1>d, <2>3, <2>4 DEF TargetRow, Removes, TableInv, MembersReferToAzits
  <2>6. ASSUME q.row \in azitUser, q.row.role = "HOST" PROVE FALSE
    <3>1. CASE q.row.user = q.user
      <4>1. m = q.row
        BY <1>d, <2>3, <2>5, <2>6, <3>1 DEF TableInv, HostHasOneRow, Hosts
      <4> QED BY <2>1, <2>6, <3>1, <4>1 DEF MayRemove
    <3>2. CASE q.row.user # q.user
      <4>1. m.role = "HOST"
        BY <2>1, <3>2 DEF MayRemove
      <4>2. m = q.row
        BY <1>d, <2>3, <2>5, <2>6, <4>1 DEF TableInv, OneHost, Hosts
      <4> QED BY <2>3, <3>2, <4>2
    <3> QED BY <3>1, <3>2
  <2>7. TargetRow(n) /\ TargetRemovable(n)
    BY <1>q, <2>2, <2>4, <2>5, <2>6 DEF TargetRow, TargetRemovable, Removes, Member, Role
  <2>8. RemoverEntitled(n)
    BY <2>1, <2>2, <2>3 DEF RemoverEntitled, MayRemove, Hosts
  <2>9. SoundRequest(n)
    BY <1>q, <1>s, <2>2, <2>4, <2>7, <2>8 DEF Removes, AzitSeen
  <2> QED BY <2>1, <2>2, <2>9 DEF Local
<1>4. CASE RemoveWrite(r)
  <2>1. q.row \in Member /\ q.row.id = q.target /\ \A m \in azitUser : m.id = q.row.id => m = q.row
    BY <1>4, <1>q DEF RemoveWrite, TargetRow, Removes
  <2>2. DataOK'
    BY <1>4, <1>d DEF RemoveWrite, DataOK, s3
  <2>3. CASE q.row \in azitUser
    <3>1. q.row.role = "MEMBER"
      BY <1>4, <1>q, <2>3 DEF RemoveWrite, TargetRemovable, Removes
    <3>2. azitUser' = azitUser \ {q.row}
      BY <1>4, <2>1 DEF RemoveWrite
    <3>3. RemoveMember(q.row)
      BY <1>4, <2>3, <3>1, <3>2 DEF RemoveWrite, RemoveMember
    <3> QED BY <1>4, <2>2, <2>3, <3>3, ReturnLocal DEF Good, TableNext, RemoveWrite
  <2>4. CASE q.row \notin azitUser
    <3>1. azitUser' = azitUser
      BY <1>4, <2>1, <2>4 DEF RemoveWrite
    <3> QED BY <1>4, <2>2, <3>1, ReturnLocal DEF Good, RemoveWrite, tableVars
  <2> QED BY <2>3, <2>4
<1> QED BY <1>1, <1>2, <1>3, <1>4
-----------------------------------------------------------------------------
(* The theorems. *)

LEMMA StepGood == ASSUME Inv, NEW r \in Requests, Step(r) PROVE Good(r)
BY StartGood, EditGood, AzitWriteGood, AddGood, RemoveGood DEF Step

\* The tables after an abstract step, together with the other columns.
LEMMA TypeFromParts ==
  ASSUME TableInv', DataOK', (req \in [Requests -> Request])' PROVE TypeOK'
BY DEF TypeOK, TableInv, DataOK

LEMMA NextInv == Inv /\ [Next]_vars => Inv' /\ [TableNext]_tableVars
<1> SUFFICES ASSUME Inv, [Next]_vars PROVE Inv' /\ [TableNext]_tableVars
  OBVIOUS
<1>t. TypeOK /\ DataOK /\ TableInv /\ req \in [Requests -> Request]
      /\ \A r \in Requests : SoundRequest(req[r])
  BY DEF Inv, TypeOK, DataOK
<1>1. ASSUME NEW r \in Requests, Good(r) PROVE Inv' /\ [TableNext]_tableVars
  <2>1. PICK q \in Request : SoundRequest(q) /\ Become(r, q)
    BY <1>1 DEF Good, Local
  <2>2. TableInv' /\ DataOK' /\ [TableNext]_tableVars
    BY <1>1, <1>t, TableNextInv DEF Good
  <2>3. req' \in [Requests -> Request]
    BY <1>t, <2>1 DEF Become
  <2>4. ASSUME NEW s \in Requests PROVE SoundRequest(req[s])'
    <3>1. PICK p : SoundRequest(p) /\ req'[s] = p
      BY <1>t, <2>1 DEF Become
    <3>2. SoundRequest(p)'
      BY <1>t, <2>2, <3>1, SoundStable
    <3> QED BY <3>1, <3>2 DEF SoundRequest, AzitSeen, TargetNotHost, TargetRow,
                             TargetRemovable, RemoverEntitled, CopyRead, Creator, Adds, Removes, Edits
  <2> QED BY <2>2, <2>3, <2>4, TypeFromParts DEF Inv
\* Steps that only change tables, and steps that only change requests to Idle.
<1>2. ASSUME [TableNext]_tableVars, DataOK',
             req' \in [Requests -> Request],
             \A s \in Requests : req'[s] = req[s] \/ req'[s] = Idle
      PROVE  Inv' /\ [TableNext]_tableVars
  <2>1. TableInv'
    BY <1>2, <1>t, TableNextInv
  <2>2. ASSUME NEW s \in Requests PROVE SoundRequest(req[s])'
    <3>1. PICK p : SoundRequest(p) /\ req'[s] = p
      BY <1>t, <1>2, IdleSound
    <3>2. SoundRequest(p)'
      BY <1>t, <1>2, <3>1, SoundStable
    <3> QED BY <3>1, <3>2 DEF SoundRequest, AzitSeen, TargetNotHost, TargetRow,
                             TargetRemovable, RemoverEntitled, CopyRead, Creator, Adds, Removes, Edits
  <2> QED BY <1>2, <2>1, <2>2, TypeFromParts DEF Inv
<1>3. CASE CreateParty \/ LoseLastPost
  <2>1. UNCHANGED tableVars /\ req' = req
    BY <1>3 DEF CreateParty, LoseLastPost, rows
  <2>2. DataOK'
    BY <1>3, <1>t DEF CreateParty, LoseLastPost, DataOK, rows, s3, tableVars
  <2> QED BY <1>2, <1>t, <2>1, <2>2
<1>4. CASE DeleteLastParty
  <2>1. PICK a \in posts : posts' = posts \ {a} /\ EraseAzit(a) /\ iconLost' = iconLost \ {a}
    BY <1>4 DEF DeleteLastParty
  <2>2. a \in azits /\ DeleteAzit(a)
    BY <1>t, <2>1 DEF DataOK, EraseAzit, DeleteAzit
  <2>3. DataOK' /\ req' = req
    BY <1>4, <1>t, <2>1 DEF DeleteLastParty, DataOK, EraseAzit
  <2> QED BY <1>2, <1>t, <2>2, <2>3 DEF TableNext
<1>5. CASE Restart
  <2>1. UNCHANGED tableVars /\ \A s \in Requests : req'[s] = Idle
    BY <1>5 DEF Restart, rows
  <2>2. req' \in [Requests -> Request]
    BY <1>5, IdleSound DEF Restart
  <2>3. DataOK'
    BY <1>5, <1>t DEF Restart, DataOK, rows, tableVars, TypeOK, TableTypeOK
  <2> QED BY <1>2, <2>1, <2>2, <2>3
<1>6. CASE UNCHANGED vars
  <2>1. DataOK' /\ UNCHANGED tableVars /\ req' = req
    BY <1>6, <1>t DEF vars, rows, s3, tableVars, DataOK
  <2> QED BY <1>2, <1>t, <2>1
<1> QED BY <1>1, <1>3, <1>4, <1>5, <1>6, StepGood DEF Next

THEOREM Invariance == Spec => []Inv
BY InitInv, NextInv, PTL DEF Spec

\* The type invariant.
THEOREM TypeCorrect == Spec => []TypeOK
BY Invariance, PTL DEF Inv

\* azit-member.service.ts:183 "there is always exactly one host": whatever requests
\* interleave, every azit has exactly one HOST row, and removeAzitMember, which
\* decides on rows read two statements earlier, never deletes it.
THEOREM ExactlyOneHost == Spec => [](OneHost /\ HostHasOneRow)
BY Invariance, PTL DEF Inv, TableInv

\* The services implement the abstract member table: each step is a step of
\* MemberTable or leaves it alone.
THEOREM Refinement == Spec => ImplementsTable
<1>1. Init => TableInit
  BY DEF Init
<1>2. Inv /\ [Next]_vars => [TableNext]_tableVars
  BY NextInv
<1> QED BY <1>1, <1>2, Invariance, PTL DEF Spec, ImplementsTable, TableSpec

\* Only RemoveWrite takes a row of an azit that lives on.
LEMMA OnlyRemoveWriteRemoves ==
  ASSUME Next, NEW m \in azitUser, m \notin azitUser', m.azit \in azits',
         azitUser \subseteq Member
  PROVE  \E r \in Requests : RemoveWrite(r)
<1>1. CASE CreateParty \/ LoseLastPost \/ DeleteLastParty \/ Restart
  BY <1>1 DEF CreateParty, LoseLastPost, DeleteLastParty, Restart, EraseAzit, rows, tableVars
<1>2. ASSUME NEW r \in Requests, Step(r), ~RemoveWrite(r) PROVE FALSE
  BY <1>2 DEF Step, StartCreateAzit, CreateCheckName, CreateWrite, Upload, UploadFails,
     StartUpdateAzit, UpdateCheckHost, UpdateCheckName, UpdateWrite, StartDeleteAzit,
     DeleteCheckHost, DeleteWrite, FindAzit, CheckMember, DeleteIcon, StartAddMember,
     AddCheckRequester, StartRemoveMember, RemoveFindTarget, RemoveCheckRequester,
     StartAcceptApplicant, CheckExisting, AddWrite, InsertMember, EraseAzit, rows, tableVars
<1> QED BY <1>1, <1>2 DEF Next

\* Removals are authorized by what is true when the row goes, not only by what was
\* true when the caller's role was read.
THEOREM RemovalsAuthorized == Spec => RemovalAuthorized
<1>1. ASSUME Inv, [Next]_vars, NEW m \in azitUser \ azitUser', m.azit \in azits'
      PROVE  EntitledRemoval(m)
  <2>1. azitUser \subseteq Member /\ m.azit \in azits
    BY <1>1 DEF Inv, TypeOK, TableTypeOK, TableInv, MembersReferToAzits
  <2>2. PICK r \in Requests : RemoveWrite(r)
    BY <1>1, <2>1, OnlyRemoveWriteRemoves DEF vars, rows, tableVars
  <2>3. TargetRow(req[r]) /\ RemoverEntitled(req[r])
    BY <1>1 DEF Inv, SoundRequest
  <2>4. req[r].op = "removeAzitMember" /\ req[r].pc = "write" /\ m.id = req[r].target
    BY <1>1, <2>2 DEF RemoveWrite, At
  <2>5. req[r].row.id = req[r].target /\ req[r].row = m /\ m.azit = req[r].azit
    BY <2>3, <2>4 DEF TargetRow, Removes
  <2> QED BY <2>1, <2>3, <2>4, <2>5 DEF RemoverEntitled, Removes, At, EntitledRemoval
<1>2. Inv /\ [Next]_vars =>
        [\A m \in azitUser \ azitUser' : m.azit \in azits' => EntitledRemoval(m)]_vars
  BY <1>1
<1> QED BY <1>2, Invariance, PTL DEF Spec, RemovalAuthorized
-----------------------------------------------------------------------------
(* Requests that do not overlap. *)

OneAtATime == \A r, s \in Requests : r = s

\* A request that replaces or removes the icon of its azit.
Replaces(q) ==
  /\ (q.op = "updateAzit" /\ q.icon # "keep") \/ q.op = "deleteAzit"
  /\ q.pc \in {"upload", "write"}

\* What an edit has read is as it was read, but for an azit that went with its last post.
CopyCurrent(q) ==
  Edits(q) /\ q.pc # "azit" =>
    /\ q.azit \in azits => info[q.azit] = q.copy
    /\ \A b \in azits : q.copy.icon # None /\ info[b].icon = q.copy.icon => b = q.azit
RowCurrent(q) ==
  Edits(q) /\ q.pc = "host" =>
    /\ q.row \in Member /\ q.row.user = q.user /\ q.row.azit = q.azit /\ q.row.id < nextMember
    /\ \A m \in azitUser : m.id = q.row.id => m = q.row
HostEdits(q) ==
  q.op = "updateAzit" /\ q.pc \in {"names", "deleteIcon", "upload", "write"} /\ q.azit \in azits =>
    \E h \in azitUser : Hosts(h, q.azit) /\ h.user = q.user

\* The name is not that of another azit of the caller.
NameFree(q) ==
  /\ q.op = "createAzit" /\ q.pc \in {"upload", "write"} => ~ NameTaken(q, None)
  /\ /\ q.op = "updateAzit" /\ q.pc \in {"deleteIcon", "upload", "write"} /\ q.name # None
     => ~ NameTaken(q, q.copy.name)

\* The url to store is the one there was, or that of a file uploaded for it.
Uploaded(f) == f \in files /\ \A b \in azits : info[b].icon # f
UrlOK(q) ==
  /\ q.op = "updateAzit" /\ q.pc \in {"names", "deleteIcon", "upload", "write"} =>
       /\ q.icon = "keep" => q.url = q.copy.icon /\ q.pc \in {"names", "write"}
       /\ q.icon # "keep" /\ q.pc # "write" => q.url = None
       /\ q.icon # "keep" /\ q.pc = "write" => q.url = None \/ Uploaded(q.url)
  /\ q.op = "createAzit" => q.url = None \/ Uploaded(q.url)

NotYetMember(q) == Adds(q) /\ q.pc = "write" => RowsOf(q.target, q.azit) = {}

Current(q) ==
  /\ CopyCurrent(q) /\ RowCurrent(q) /\ HostEdits(q) /\ NameFree(q) /\ UrlOK(q) /\ NotYetMember(q)

\* Every file is the icon of one azit, and was uploaded before.
IconsDistinct ==
  /\ \A f \in files : f < nextFile
  /\ \A a \in azits : info[a].icon # None => info[a].icon < nextFile
  /\ \A a, b \in azits : info[a].icon # None /\ info[a].icon = info[b].icon => a = b
IconKept ==
  \A a \in azits : \/ info[a].icon \in files \union {None}
                   \/ a \in iconLost
                   \/ \E r \in Requests : req[r].azit = a /\ Replaces(req[r])

Serial ==
  /\ MembershipUnique /\ HostNamesDistinct /\ IconsDistinct /\ IconKept
  /\ \A r \in Requests : Current(req[r])

LEMMA NoName == ASSUME NEW q, NEW x PROVE NameTaken(q, x) <=>
  q.name # x /\ \E m \in azitUser : m.user = q.user /\ info[m.azit].name = q.name
BY DEF NameTaken

LEMMA IdleCurrent == Current(Idle) /\ Current(Idle)'
BY DEF Idle, Current, CopyCurrent, RowCurrent, HostEdits, NameFree, UrlOK, NotYetMember,
       Edits, Adds

\* What a request may rely on depends on the tables and the files only.
LEMMA CurrentSame ==
  ASSUME NEW q, Current(q), UNCHANGED <<rows, s3>>
  PROVE  Current(q)'
<1>1. UNCHANGED <<azits, azitUser, nextAzit, nextMember, info, files>>
  BY DEF rows, tableVars, s3
<1> QED BY <1>1 DEF Current, CopyCurrent, RowCurrent, HostEdits, NameFree, UrlOK, NotYetMember,
                    Uploaded, NameTaken, RowsOf, Hosts, Member, MemberId, AzitId

\* An azit that goes takes nothing along that a request relies on.
LEMMA CurrentErased ==
  ASSUME NEW q, Current(q), NEW a \in azits, EraseAzit(a), UNCHANGED files,
         \A m \in azitUser : m.azit \in azits
  PROVE  Current(q)'
<1>1. /\ azits' \subseteq azits /\ azitUser' \subseteq azitUser /\ UNCHANGED nextMember
      /\ \A b \in azits' : info'[b] = info[b]
      /\ \A m \in azitUser : m.azit \in azits' => m \in azitUser'
      /\ \A m \in azitUser' : m.azit \in azits'
  BY DEF EraseAzit
<1>2. (CopyCurrent(q) /\ RowCurrent(q))'
  BY <1>1 DEF Current, CopyCurrent, RowCurrent
<1>3. HostEdits(q)'
  BY <1>1 DEF Current, HostEdits, Hosts
<1>4. NameFree(q)'
  BY <1>1 DEF Current, NameFree, NameTaken
<1>5. (UrlOK(q) /\ NotYetMember(q))'
  BY <1>1 DEF Current, UrlOK, Uploaded, NotYetMember, RowsOf
<1> QED BY <1>2, <1>3, <1>4, <1>5 DEF Current

LEMMA RequestCurrent ==
  ASSUME NEW s \in Requests, NEW q, req'[s] = q, Current(q)'
  PROVE  Current(req[s])'
BY DEF Current, CopyCurrent, RowCurrent, HostEdits, NameFree, UrlOK, NotYetMember,
       Uploaded, NameTaken, RowsOf

\* The one request there is moves.
LEMMA OneMoves ==
  ASSUME OneAtATime, TypeOK, NEW r \in Requests, NEW q, Become(r, q)
  PROVE  /\ \A s \in Requests : s = r
         /\ req'[r] = q
         /\ Current(q)' => \A s \in Requests : Current(req[s])'
<1>1. req'[r] = q /\ \A s \in Requests : s = r
  BY DEF OneAtATime, TypeOK, Become
<1>2. ASSUME Current(q)', NEW s \in Requests PROVE Current(req[s])'
  BY <1>1, <1>2, RequestCurrent
<1> QED BY <1>1, <1>2

\* A step that only reads, by a request that does not replace an icon yet.
LEMMA ReadsSerial ==
  ASSUME OneAtATime, TypeOK, Serial, NEW r \in Requests, NEW q, Become(r, q), Current(q),
         ~ Replaces(req[r]), UNCHANGED <<rows, posts, s3>>
  PROVE  Serial'
<1>1. UNCHANGED <<azits, azitUser, info, files, nextFile, iconLost>>
  BY DEF rows, tableVars, s3
<1>2. Current(q)'
  BY CurrentSame
<1>3. (MembershipUnique /\ HostNamesDistinct /\ IconsDistinct)'
  BY <1>1 DEF Serial, MembershipUnique, HostNamesDistinct, IconsDistinct
<1>4. IconKept'
  BY <1>1, OneMoves DEF Serial, IconKept
<1> QED BY <1>2, <1>3, <1>4, OneMoves DEF Serial

\* Requests that begin, and those that end without a write.
LEMMA StartSerial ==
  ASSUME OneAtATime, Inv, Serial, NEW r \in Requests,
         \/ StartCreateAzit(r) \/ StartUpdateAzit(r) \/ StartDeleteAzit(r)
         \/ StartAddMember(r) \/ StartRemoveMember(r) \/ StartAcceptApplicant(r)
  PROVE  Serial'
<1>1. PICK q : /\ Become(r, q) /\ q.url = None
               /\ Edits(q) => q.pc = "azit"
               /\ q.op = "createAzit" => q.pc = "names"
               /\ Adds(q) => q.pc # "write"
  <2> USE DEF Begin, Edits, Adds
  <2>1. CASE StartCreateAzit(r)
    <3>1. PICK u \in Users, n \in Names, i \in {"keep", "file"} :
            Become(r, [Idle EXCEPT !.op = "createAzit", !.pc = "names",
                                 !.user = u, !.name = n, !.icon = i])
      BY <2>1 DEF StartCreateAzit
    <3> DEFINE q == [Idle EXCEPT !.op = "createAzit", !.pc = "names",
                                 !.user = u, !.name = n, !.icon = i]
    <3>2. q.op = "createAzit" /\ q.pc = "names" /\ q.url = None /\ Become(r, q)
      BY <3>1 DEF Idle
    <3> HIDE DEF q
    <3> QED BY <3>2
  <2>2. CASE StartUpdateAzit(r)
    <3>1. PICK u \in Users, a \in AzitId, n \in Names \union {None}, i \in {"keep", "delete", "file"} :
            Become(r, [Idle EXCEPT !.op = "updateAzit", !.pc = "azit", !.user = u,
                                 !.azit = a, !.name = n, !.icon = i])
      BY <2>2 DEF StartUpdateAzit
    <3> DEFINE q == [Idle EXCEPT !.op = "updateAzit", !.pc = "azit", !.user = u,
                                 !.azit = a, !.name = n, !.icon = i]
    <3>2. q.op = "updateAzit" /\ q.pc = "azit" /\ q.url = None /\ Become(r, q)
      BY <3>1 DEF Idle
    <3> HIDE DEF q
    <3> QED BY <3>2
  <2>3. CASE StartDeleteAzit(r)
    <3>1. PICK u \in Users, a \in AzitId :
            Become(r, [Idle EXCEPT !.op = "deleteAzit", !.pc = "azit", !.user = u, !.azit = a])
      BY <2>3 DEF StartDeleteAzit
    <3> DEFINE q == [Idle EXCEPT !.op = "deleteAzit", !.pc = "azit", !.user = u, !.azit = a]
    <3>2. q.op = "deleteAzit" /\ q.pc = "azit" /\ q.url = None /\ Become(r, q)
      BY <3>1 DEF Idle
    <3> HIDE DEF q
    <3> QED BY <3>2
  <2>4. CASE StartAddMember(r)
    <3>1. PICK u \in Users, t \in Users, a \in AzitId :
            Become(r, [Idle EXCEPT !.op = "addAzitMember", !.pc = "azit", !.user = u,
                                 !.azit = a, !.target = t])
      BY <2>4 DEF StartAddMember
    <3> DEFINE q == [Idle EXCEPT !.op = "addAzitMember", !.pc = "azit", !.user = u,
                                 !.azit = a, !.target = t]
    <3>2. q.op = "addAzitMember" /\ q.pc = "azit" /\ q.url = None /\ Become(r, q)
      BY <3>1 DEF Idle
    <3> HIDE DEF q
    <3> QED BY <3>2
  <2>5. CASE StartRemoveMember(r)
    <3>1. PICK u \in Users, a \in AzitId, m \in MemberId :
            Become(r, [Idle EXCEPT !.op = "removeAzitMember", !.pc = "azit", !.user = u,
                                 !.azit = a, !.target = m])
      BY <2>5 DEF StartRemoveMember
    <3> DEFINE q == [Idle EXCEPT !.op = "removeAzitMember", !.pc = "azit", !.user = u,
                                 !.azit = a, !.target = m]
    <3>2. q.op = "removeAzitMember" /\ q.pc = "azit" /\ q.url = None /\ Become(r, q)
      BY <3>1 DEF Idle
    <3> HIDE DEF q
    <3> QED BY <3>2
  <2>6. CASE StartAcceptApplicant(r)
    <3>1. PICK a \in posts, t \in Users :
            Become(r, [Idle EXCEPT !.op = "handleApplication", !.pc = "existing",
                                 !.azit = a, !.target = t])
      BY <2>6 DEF StartAcceptApplicant
    <3> DEFINE q == [Idle EXCEPT !.op = "handleApplication", !.pc = "existing",
                                 !.azit = a, !.target = t]
    <3>2. q.op = "handleApplication" /\ q.pc = "existing" /\ q.url = None /\ Become(r, q)
      BY <3>1 DEF Idle
    <3> HIDE DEF q
    <3> QED BY <3>2
  <2> QED BY <2>1, <2>2, <2>3, <2>4, <2>5, <2>6
<1>2. UNCHANGED <<rows, posts, s3>> /\ req[r].pc = "idle"
  BY DEF StartCreateAzit, StartUpdateAzit, StartDeleteAzit, StartAddMember, StartRemoveMember,
         StartAcceptApplicant, Begin
<1>3. Current(q)
  BY <1>1 DEF Current, CopyCurrent, RowCurrent, HostEdits, NameFree, UrlOK, NotYetMember, Edits
<1>4. ~ Replaces(req[r])
  BY <1>2 DEF Replaces
<1> QED BY <1>1, <1>2, <1>3, <1>4, ReadsSerial DEF Inv

LEMMA ReturnSerial ==
  ASSUME OneAtATime, TypeOK, Serial, NEW r \in Requests, Return(r),
         ~ Replaces(req[r]), UNCHANGED <<rows, posts, s3>>
  PROVE  Serial'
BY IdleCurrent, ReadsSerial DEF Return

\* Requests that do not edit an azit.
LEMMA MembersCurrent ==
  ASSUME NEW q, q.op \notin {"createAzit", "updateAzit", "deleteAzit"}, NotYetMember(q)
  PROVE  Current(q)
BY DEF Current, CopyCurrent, RowCurrent, HostEdits, NameFree, UrlOK, Edits

LEMMA EditLooks ==
  ASSUME OneAtATime, Inv, Serial, NEW r \in Requests,
         \/ CreateCheckName(r) \/ UpdateCheckHost(r) \/ UpdateCheckName(r) \/ DeleteCheckHost(r)
         \/ \E op \in {"updateAzit", "deleteAzit"} : FindAzit(r, op, "member") \/ CheckMember(r, op)
  PROVE  Serial'
<1>p. PICK p : p = req[r]
  OBVIOUS
<1>q. p \in Request /\ Current(p) /\ Creator(p) /\ CopyRead(p)
  BY <1>p DEF Inv, TypeOK, Serial, SoundRequest
<1>t. TypeOK /\ TableInv
  BY DEF Inv
<1>0. UNCHANGED <<rows, posts, s3>> /\ ~ Replaces(req[r])
  BY DEF CreateCheckName, UpdateCheckHost, UpdateCheckName, DeleteCheckHost, FindAzit, CheckMember,
         Replaces, At
<1>1. SUFFICES ASSUME ~ Return(r)
               PROVE  \E q : Become(r, q) /\ Current(q)
  BY <1>0, <1>t, ReturnSerial, ReadsSerial
<1>2. CASE CreateCheckName(r)
  <2>1. PICK pc \in {"upload", "write"} : Become(r, [p EXCEPT !.pc = pc])
    BY <1>1, <1>2, <1>p DEF CreateCheckName, Goto
  <2> DEFINE q == [p EXCEPT !.pc = pc]
  <2>2. /\ q.op = "createAzit" /\ q.url = p.url /\ q.name = p.name /\ q.user = p.user
        /\ p.op = "createAzit" /\ ~ NameTaken(p, None) /\ Become(r, q)
    BY <1>1, <1>2, <1>p, <1>q, <2>1 DEF CreateCheckName, At, Request
  <2> HIDE DEF q
  <2>3. Current(q)
    BY <1>q, <2>2 DEF Current, CopyCurrent, RowCurrent, HostEdits, NameFree, NameTaken, UrlOK,
                      NotYetMember, Edits, Adds
  <2> QED BY <2>2, <2>3
<1>3. CASE UpdateCheckHost(r)
  <2> DEFINE q == [p EXCEPT !.url = KeptUrl(p), !.row = None,
                            !.pc = IF p.name # None THEN "names" ELSE AfterNames(p)]
  <2>1. /\ p.op = "updateAzit" /\ p.pc = "host" /\ IsHost(p.row) /\ Become(r, q)
        /\ p.icon \in {"keep", "delete", "file"} /\ p.copy \in Azit
    BY <1>1, <1>3, <1>p, <1>q DEF UpdateCheckHost, At, Request, CopyRead, Edits
  <2>2. q.op = p.op /\ q.user = p.user /\ q.azit = p.azit /\ q.name = p.name /\ q.icon = p.icon
        /\ q.copy = p.copy /\ q.url = KeptUrl(p)
        /\ q.pc = IF p.name # None THEN "names" ELSE AfterNames(p)
    BY <1>q DEF Request
  <2> HIDE DEF q
  <2>3. /\ AfterNames(p) \in {"deleteIcon", "upload", "write"}
        /\ p.icon = "keep" => AfterNames(p) = "write"
        /\ p.icon = "keep" => KeptUrl(p) = p.copy.icon
        /\ p.icon # "keep" => KeptUrl(p) = None
    BY <2>1 DEF AfterNames, KeptUrl
  <2>4. \E h \in azitUser : Hosts(h, q.azit) /\ h.user = q.user
    <3>1. PICK h \in azitUser : h.id = p.row.id /\ h.role = "HOST"
      BY <2>1 DEF IsHost
    <3>2. h = p.row /\ p.row.user = p.user /\ p.row.azit = p.azit
      BY <1>q, <2>1, <3>1 DEF Current, RowCurrent, Edits
    <3> QED BY <2>2, <3>1, <3>2 DEF Hosts
  <2>5. CopyCurrent(q) /\ RowCurrent(q) /\ HostEdits(q) /\ NotYetMember(q)
    BY <1>q, <2>1, <2>2, <2>3, <2>4 DEF Current, CopyCurrent, RowCurrent, HostEdits, NotYetMember,
                                        Edits, Adds
  <2>6. NameFree(q) /\ UrlOK(q)
    BY <2>1, <2>2, <2>3 DEF NameFree, UrlOK
  <2> QED BY <2>1, <2>5, <2>6 DEF Current
<1>4. CASE UpdateCheckName(r)
  <2> DEFINE q == [p EXCEPT !.pc = AfterNames(p)]
  <2>1. /\ p.op = "updateAzit" /\ p.pc = "names" /\ ~ NameTaken(p, p.copy.name) /\ Become(r, q)
        /\ p.icon \in {"keep", "delete", "file"}
    BY <1>1, <1>4, <1>p, <1>q DEF UpdateCheckName, Goto, At, Request
  <2>2. q.op = p.op /\ q.user = p.user /\ q.azit = p.azit /\ q.name = p.name /\ q.icon = p.icon
        /\ q.copy = p.copy /\ q.url = p.url /\ q.pc = AfterNames(p)
    BY <1>q DEF Request
  <2> HIDE DEF q
  <2>3. /\ AfterNames(p) \in {"deleteIcon", "upload", "write"}
        /\ p.icon = "keep" => AfterNames(p) = "write"
    BY <2>1 DEF AfterNames
  <2>4. CopyCurrent(q) /\ RowCurrent(q) /\ HostEdits(q) /\ NotYetMember(q)
    BY <1>q, <2>1, <2>2, <2>3 DEF Current, CopyCurrent, RowCurrent, HostEdits, NotYetMember,
                                  Edits, Adds
  <2>5. NameFree(q) /\ UrlOK(q)
    BY <1>q, <2>1, <2>2, <2>3 DEF Current, NameFree, NameTaken, UrlOK
  <2> QED BY <2>1, <2>4, <2>5 DEF Current
<1>5. CASE DeleteCheckHost(r)
  <2>1. PICK pc \in {"deleteIcon", "write"} : Become(r, [p EXCEPT !.row = None, !.pc = pc])
    BY <1>1, <1>5, <1>p DEF DeleteCheckHost
  <2> DEFINE q == [p EXCEPT !.row = None, !.pc = pc]
  <2>2. /\ q.op = "deleteAzit" /\ q.azit = p.azit /\ q.copy = p.copy /\ q.pc \in {"deleteIcon", "write"}
        /\ p.op = "deleteAzit" /\ p.pc = "host" /\ Become(r, q)
    BY <1>5, <1>p, <1>q, <2>1 DEF DeleteCheckHost, At, Request
  <2> HIDE DEF q
  <2>3. Current(q)
    BY <1>q, <2>2 DEF Current, CopyCurrent, RowCurrent, HostEdits, NameFree, UrlOK,
                      NotYetMember, Edits, Adds
  <2> QED BY <2>2, <2>3
<1>6. ASSUME NEW op \in {"updateAzit", "deleteAzit"}, FindAzit(r, op, "member")
      PROVE  \E q : Become(r, q) /\ Current(q)
  <2> DEFINE q == [p EXCEPT !.copy = info[p.azit], !.pc = "member"]
  <2>1. /\ p.op = op /\ p.azit \in azits /\ Become(r, q)
    BY <1>1, <1>6, <1>p DEF FindAzit, At
  <2>2. q.op = op /\ q.azit = p.azit /\ q.copy = info[p.azit] /\ q.pc = "member"
    BY <1>q, <2>1 DEF Request
  <2> HIDE DEF q
  <2>3. CopyCurrent(q)
    BY <2>1, <2>2 DEF CopyCurrent, Serial, IconsDistinct
  <2>4. Current(q)
    BY <2>2, <2>3 DEF Current, RowCurrent, HostEdits, NameFree, UrlOK, NotYetMember, Edits, Adds
  <2> QED BY <2>1, <2>4
<1>7. ASSUME NEW op \in {"updateAzit", "deleteAzit"}, CheckMember(r, op)
      PROVE  \E q : Become(r, q) /\ Current(q)
  <2>1. PICK m \in azitUser : /\ m.user = p.user /\ m.azit = p.azit
                              /\ Become(r, [p EXCEPT !.row = m, !.pc = "host"])
    BY <1>1, <1>7, <1>p DEF CheckMember, Caller, RowsOf
  <2> DEFINE q == [p EXCEPT !.row = m, !.pc = "host"]
  <2>2. /\ q.op = op /\ q.azit = p.azit /\ q.user = p.user /\ q.copy = p.copy /\ q.row = m
        /\ q.pc = "host" /\ Become(r, q) /\ p.op = op /\ p.pc = "member"
    BY <1>7, <1>p, <1>q, <2>1 DEF CheckMember, At, Request
  <2> HIDE DEF q
  <2>3. RowCurrent(q)
    BY <1>t, <2>1, <2>2 DEF RowCurrent, TypeOK, TableInv, TableTypeOK, IdsFresh
  <2>4. Current(q)
    BY <1>q, <2>2, <2>3 DEF Current, CopyCurrent, HostEdits, NameFree, UrlOK, NotYetMember,
                            Edits, Adds
  <2> QED BY <2>2, <2>4
<1> QED BY <1>2, <1>3, <1>4, <1>5, <1>6, <1>7

LEMMA MemberLooks ==
  ASSUME OneAtATime, Inv, Serial, NEW r \in Requests,
         \/ FindAzit(r, "addAzitMember", "requester") \/ FindAzit(r, "removeAzitMember", "target")
         \/ AddCheckRequester(r) \/ RemoveFindTarget(r) \/ RemoveCheckRequester(r)
         \/ \E op \in {"addAzitMember", "handleApplication"} : CheckExisting(r, op)
  PROVE  Serial'
<1>p. PICK p : p = req[r]
  OBVIOUS
<1>q. p \in Request /\ TypeOK
  BY <1>p DEF Inv, TypeOK
<1>0. UNCHANGED <<rows, posts, s3>> /\ ~ Replaces(req[r])
  BY DEF FindAzit, AddCheckRequester, RemoveFindTarget, RemoveCheckRequester, CheckExisting,
         Replaces, At
<1>1. SUFFICES ASSUME ~ Return(r)
               PROVE  \E q : Become(r, q) /\ Current(q)
  BY <1>0, <1>q, ReturnSerial, ReadsSerial
<1>2. ASSUME NEW op \in {"addAzitMember", "removeAzitMember"}, NEW pc \in {"requester", "target"},
             FindAzit(r, op, pc)
      PROVE  \E q : Become(r, q) /\ Current(q)
  <2> DEFINE q == [p EXCEPT !.copy = info[p.azit], !.pc = pc]
  <2>1. q.op = op /\ q.pc = pc /\ Become(r, q)
    BY <1>1, <1>2, <1>p, <1>q DEF FindAzit, At, Request
  <2> HIDE DEF q
  <2> QED BY <2>1, MembersCurrent DEF NotYetMember
<1>3. CASE AddCheckRequester(r)
  <2> DEFINE q == [p EXCEPT !.pc = "existing"]
  <2>1. q.op = "addAzitMember" /\ q.pc = "existing" /\ Become(r, q)
    BY <1>1, <1>3, <1>p, <1>q DEF AddCheckRequester, Goto, At, Request
  <2> HIDE DEF q
  <2> QED BY <2>1, MembersCurrent DEF NotYetMember
<1>4. CASE RemoveFindTarget(r)
  <2>1. PICK m : Become(r, [p EXCEPT !.row = m, !.pc = "requester"])
    BY <1>1, <1>4, <1>p DEF RemoveFindTarget
  <2> DEFINE q == [p EXCEPT !.row = m, !.pc = "requester"]
  <2>2. q.op = "removeAzitMember" /\ q.pc = "requester" /\ Become(r, q)
    BY <1>4, <1>p, <1>q, <2>1 DEF RemoveFindTarget, At, Request
  <2> HIDE DEF q
  <2> QED BY <2>2, MembersCurrent DEF NotYetMember
<1>5. CASE RemoveCheckRequester(r)
  <2> DEFINE q == [p EXCEPT !.pc = "write"]
  <2>1. q.op = "removeAzitMember" /\ Become(r, q)
    BY <1>1, <1>5, <1>p, <1>q DEF RemoveCheckRequester, Goto, At, Request
  <2> HIDE DEF q
  <2> QED BY <2>1, MembersCurrent DEF NotYetMember, Adds
<1>6. ASSUME NEW op \in {"addAzitMember", "handleApplication"}, CheckExisting(r, op)
      PROVE  \E q : Become(r, q) /\ Current(q)
  <2> DEFINE q == [p EXCEPT !.pc = "write"]
  <2>1. /\ q.op = op /\ q.target = p.target /\ q.azit = p.azit /\ Become(r, q)
        /\ RowsOf(p.target, p.azit) = {}
    BY <1>1, <1>6, <1>p, <1>q DEF CheckExisting, Goto, At, Request
  <2> HIDE DEF q
  <2> QED BY <2>1, MembersCurrent DEF NotYetMember
<1> QED BY <1>2, <1>3, <1>4, <1>5, <1>6

\* An icon step: files change, and no azit.
LEMMA IconSerial ==
  ASSUME OneAtATime, Inv, Serial, NEW r \in Requests,
         \/ \E op \in {"createAzit", "updateAzit"} : Upload(r, op) \/ UploadFails(r, op)
         \/ \E op \in {"updateAzit", "deleteAzit"} : DeleteIcon(r, op)
  PROVE  Serial'
<1>p. PICK p : p = req[r]
  OBVIOUS
<1>q. p \in Request /\ Current(p) /\ CopyRead(p)
  BY <1>p DEF Inv, TypeOK, Serial, SoundRequest
<1>t. TypeOK /\ nextFile \in Nat /\ files \subseteq Nat /\ None \notin Nat
      /\ \A b \in azits : info[b] \in Azit
  BY MembershipAssumption DEF Inv, TypeOK, FileId
<1>n. \A b \in azits : info[b].icon # None => info[b].icon \in Nat
  BY <1>t DEF Azit, FileId
<1>o. PICK op \in {"createAzit", "updateAzit", "deleteAzit"} :
        \/ op # "deleteAzit" /\ (Upload(r, op) \/ UploadFails(r, op))
        \/ op # "createAzit" /\ DeleteIcon(r, op)
  OBVIOUS
<1>u. UNCHANGED <<azits, azitUser, info, nextAzit, nextMember>> /\ p.op = op
  BY <1>p, <1>o DEF Upload, UploadFails, DeleteIcon, rows, tableVars, At
<1>m. (MembershipUnique /\ HostNamesDistinct)'
  BY <1>u DEF Serial, MembershipUnique, HostNamesDistinct
<1>k. \A s \in Requests : s = r
  BY DEF OneAtATime
\* What a request keeps that goes on from an icon step.
<1>c. ASSUME NEW q, q.op = op, q.user = p.user, q.azit = p.azit, q.name = p.name,
             q.icon = p.icon, q.copy = p.copy, q.pc \in {"upload", "write"},
             p.pc \in {"deleteIcon", "upload"}, UrlOK(q)'
      PROVE  Current(q)'
  <2>1. (CopyCurrent(q) /\ RowCurrent(q) /\ HostEdits(q) /\ NotYetMember(q))'
    BY <1>q, <1>u, <1>c DEF Current, CopyCurrent, RowCurrent, HostEdits, NotYetMember, Edits, Adds
  <2>2. NameFree(q)'
    <3>1. \A x : NameTaken(q, x)' <=> NameTaken(p, x)
      BY <1>u, <1>c DEF NameTaken
    <3>2. op = "createAzit" => p.pc = "upload"
      BY <1>p, <1>o, <1>c DEF Upload, UploadFails, At
    <3> QED BY <1>q, <1>u, <1>c, <3>1, <3>2 DEF Current, NameFree
  <2> QED BY <1>c, <2>1, <2>2 DEF Current
<1>1. CASE Upload(r, op)
  <2>0. PICK f : f = nextFile
    OBVIOUS
  <2> DEFINE q == [p EXCEPT !.url = f, !.pc = "write"]
  <2>1. /\ files' = files \union {nextFile} /\ nextFile' = nextFile + 1 /\ iconLost' = iconLost
        /\ p.pc = "upload" /\ Become(r, q)
    BY <1>1, <1>p, <2>0 DEF Upload, At
  <2>2. q.op = op /\ q.user = p.user /\ q.azit = p.azit /\ q.name = p.name
        /\ q.icon = p.icon /\ q.copy = p.copy /\ q.pc = "write" /\ q.url = f
    BY <1>q, <1>u DEF Request
  <2> HIDE DEF q
  <2>3. IconsDistinct'
    <3>1. \A k \in Nat : k < nextFile => k < nextFile'
      BY <1>t, <2>1
    <3>2. \A k \in files' : k < nextFile'
      BY <1>t, <2>1, <3>1 DEF Serial, IconsDistinct
    <3>3. \A b \in azits : info[b].icon # None => info[b].icon < nextFile'
      BY <1>n, <3>1 DEF Serial, IconsDistinct
    <3> QED BY <1>u, <3>2, <3>3 DEF Serial, IconsDistinct
  <2>4. \A b \in azits : info[b].icon # nextFile
    BY <1>t, <1>n DEF Serial, IconsDistinct
  <2>5. UrlOK(q)'
    <3>1. Uploaded(f)'
      BY <1>u, <2>0, <2>1, <2>4 DEF Uploaded
    <3>2. op = "updateAzit" => p.icon # "keep"
      BY <1>q, <1>u, <2>1 DEF Current, UrlOK
    <3> QED BY <2>2, <3>1, <3>2 DEF UrlOK
  <2>6. Current(q)'
    BY <1>c, <2>1, <2>2, <2>5
  <2>7. IconKept'
    <3>1. Replaces(p) => Replaces(q)
      BY <1>u, <2>2 DEF Replaces
    <3>2. req'[r] = q
      BY <1>t, <2>1, OneMoves
    <3> QED BY <1>k, <1>p, <1>u, <2>1, <2>2, <3>1, <3>2 DEF Serial, IconKept
  <2> QED BY <1>m, <1>t, <2>1, <2>3, <2>6, <2>7, OneMoves DEF Serial
<1>2. CASE UploadFails(r, op)
  <2>1. /\ p.pc = "upload" /\ Become(r, Idle) /\ UNCHANGED <<files, nextFile>>
        /\ iconLost' = IF op = "updateAzit" /\ p.copy.icon \notin files \union {None}
                       THEN iconLost \union {p.azit} ELSE iconLost
        /\ op # "deleteAzit"
    BY <1>2, <1>p, <1>o, <1>u DEF UploadFails, DeleteIcon, At, Return
  <2>2. IconsDistinct'
    BY <1>u, <2>1 DEF Serial, IconsDistinct
  <2>3. ASSUME NEW a \in azits, a = p.azit, Replaces(p), info[a].icon \notin files \union {None}
        PROVE  a \in iconLost'
    <3>1. op = "updateAzit"
      BY <1>u, <2>1, <2>3 DEF Replaces
    <3>2. p.copy = info[a]
      BY <1>q, <1>u, <2>1, <2>3, <3>1 DEF Current, CopyCurrent, Edits
    <3> QED BY <2>1, <2>3, <3>1, <3>2
  <2>4. IconKept'
    BY <1>k, <1>p, <1>u, <2>1, <2>3 DEF Serial, IconKept
  <2> QED BY <1>m, <1>t, <2>1, <2>2, <2>4, IdleCurrent, OneMoves DEF Serial
<1>3. CASE op # "createAzit" /\ DeleteIcon(r, op)
  <2>1. PICK pc \in {"upload", "write"} : Become(r, [p EXCEPT !.pc = pc])
    BY <1>3, <1>p DEF DeleteIcon, Goto
  <2> DEFINE q == [p EXCEPT !.pc = pc]
  <2>2. /\ files' \in {files, files \ {p.copy.icon}} /\ UNCHANGED <<nextFile, iconLost>>
        /\ p.pc = "deleteIcon" /\ Become(r, q)
    BY <1>3, <1>p, <2>1 DEF DeleteIcon, At
  <2>3. q.op = op /\ q.user = p.user /\ q.azit = p.azit /\ q.name = p.name
        /\ q.icon = p.icon /\ q.copy = p.copy /\ q.pc = pc /\ q.url = p.url
    BY <1>q, <1>u DEF Request
  <2> HIDE DEF q
  <2>4. IconsDistinct'
    BY <1>u, <2>2 DEF Serial, IconsDistinct
  <2>5. op = "updateAzit" => p.icon # "keep" /\ p.url = None
    BY <1>q, <1>u, <2>2 DEF Current, UrlOK
  <2>6. UrlOK(q)'
    BY <1>3, <2>3, <2>5 DEF UrlOK
  <2>7. Current(q)'
    BY <1>c, <2>2, <2>3, <2>6
  <2>8. \A b \in azits : p.copy.icon # None /\ info[b].icon = p.copy.icon => b = p.azit
    BY <1>3, <1>q, <1>u, <2>2 DEF Current, CopyCurrent, Edits
  <2>9. Replaces(q) /\ ~ Replaces(p)
    BY <1>3, <1>u, <2>2, <2>3, <2>5 DEF Replaces
  <2>10. IconKept'
    <3>1. req'[r] = q
      BY <1>t, <2>2, OneMoves
    <3>2. Replaces(req'[r]) /\ req'[r].azit = p.azit
      BY <2>3, <2>9, <3>1
    <3>3. PICK h : h = req'[r]
      OBVIOUS
    <3> QED BY <1>k, <1>p, <1>u, <2>2, <2>8, <2>9, <3>2 DEF Serial, IconKept, Replaces
  <2> QED BY <1>m, <1>t, <2>2, <2>4, <2>7, <2>10, OneMoves DEF Serial
<1> QED BY <1>1, <1>2, <1>3, <1>o

LEMMA EndsCurrent ==
  ASSUME OneAtATime, TypeOK, NEW r \in Requests, Return(r)
  PROVE  \A s \in Requests : Current(req[s])'
BY IdleCurrent, OneMoves DEF Return

\* Who holds which azit under which name, and which icon, when an azit goes.
LEMMA ErasedSerial ==
  ASSUME Serial, NEW a, EraseAzit(a), iconLost' = iconLost \ {a}, UNCHANGED <<files, nextFile>>,
         \A m \in azitUser : m.azit \in azits
  PROVE  /\ (MembershipUnique /\ HostNamesDistinct /\ IconsDistinct)'
         /\ \A b \in azits' : \/ info'[b].icon \in files' \union {None}
                              \/ b \in iconLost'
                              \/ \E r \in Requests : req[r].azit = b /\ Replaces(req[r])
<1>1. /\ azits' = azits \ {a} /\ azitUser' = {m \in azitUser : m.azit # a}
      /\ \A b \in azits' : info'[b] = info[b]
  BY DEF EraseAzit
<1>2. (MembershipUnique /\ HostNamesDistinct)'
  BY <1>1 DEF Serial, MembershipUnique, HostNamesDistinct
<1>3. IconsDistinct'
  BY <1>1 DEF Serial, IconsDistinct
<1> QED BY <1>1, <1>2, <1>3 DEF Serial, IconKept

LEMMA CreateSerial ==
  ASSUME OneAtATime, Inv, Serial, NEW r \in Requests, CreateWrite(r)
  PROVE  Serial'
<1>p. PICK p : p = req[r]
  OBVIOUS
<1>q. /\ p \in Request /\ Current(p) /\ p.name \in Names /\ p.name # None
      /\ p.op = "createAzit" /\ p.pc = "write"
  BY <1>p, MembershipAssumption DEF Inv, TypeOK, Serial, SoundRequest, Creator, CreateWrite, At
<1>t. /\ TypeOK /\ nextAzit \notin azits /\ \A m \in azitUser : m.azit \in azits
      /\ nextFile \in Nat
  <2>1. \A a \in azits : a < nextAzit /\ a \in Nat
    BY DEF Inv, TypeOK, TableTypeOK, TableInv, IdsFresh, AzitId
  <2> QED BY <2>1, MembershipAssumption DEF Inv, TypeOK, TableTypeOK, TableInv,
                 MembersReferToAzits, AzitId
<1>1. PICK a, n : a = nextAzit /\ n = NewMember(p.user, nextAzit, "HOST")
  OBVIOUS
<1>2. /\ azits' = azits \union {a} /\ azitUser' = azitUser \union {n}
      /\ UNCHANGED <<files, nextFile, iconLost>> /\ Return(r)
      /\ info'[a].name = p.name /\ info'[a].icon = p.url
      /\ \A b \in azits : info'[b] = info[b]
  BY <1>p, <1>t, <1>1 DEF CreateWrite, s3
<1>3. n.user = p.user /\ n.azit = a /\ a \notin azits
  BY <1>t, <1>1 DEF NewMember
<1>4. MembershipUnique'
  BY <1>2, <1>3, <1>t DEF Serial, MembershipUnique
<1>5. \A m \in azitUser : m.user = p.user => info[m.azit].name # p.name
  BY <1>q, NoName DEF Current, NameFree
<1>6. HostNamesDistinct'
  BY <1>2, <1>3, <1>5, <1>t DEF Serial, HostNamesDistinct
<1>7. p.url = None \/ Uploaded(p.url)
  BY <1>q DEF Current, UrlOK
<1>8. IconsDistinct'
  BY <1>2, <1>7 DEF Serial, IconsDistinct, Uploaded
<1>9. IconKept'
  <2>1. \A s \in Requests : ~ Replaces(req[s])
    BY <1>p, <1>q DEF OneAtATime, Replaces
  <2> QED BY <1>2, <1>7, <2>1 DEF Serial, IconKept, Uploaded
<1> QED BY <1>2, <1>4, <1>6, <1>8, <1>9, <1>t, EndsCurrent DEF Serial

LEMMA UpdateSerial ==
  ASSUME OneAtATime, Inv, Serial, NEW r \in Requests, UpdateWrite(r)
  PROVE  Serial'
<1>p. PICK p : p = req[r]
  OBVIOUS
<1>q. p \in Request /\ Current(p) /\ p.op = "updateAzit" /\ p.pc = "write"
  BY <1>p DEF Inv, TypeOK, Serial, UpdateWrite, At
<1>t. TypeOK /\ OneHost /\ \A m \in azitUser : m.azit \in azits
  BY DEF Inv, TableInv, MembersReferToAzits
<1>1. PICK x : x = IF p.name # None THEN p.name ELSE p.copy.name
  OBVIOUS
<1>2. /\ UNCHANGED <<azits, azitUser, files, nextFile>> /\ Return(r)
      /\ \A b \in azits : b # p.azit => info'[b] = info[b]
      /\ p.azit \in azits => info'[p.azit].name = x /\ info'[p.azit].icon = p.url
      /\ iconLost' = IF p.url \in files \union {None} THEN iconLost \ {p.azit} ELSE iconLost
  BY <1>p, <1>1 DEF UpdateWrite, tableVars
<1>3. p.azit \in azits => info[p.azit] = p.copy
  BY <1>q DEF Current, CopyCurrent, Edits
<1>4. MembershipUnique'
  BY <1>2 DEF Serial, MembershipUnique
\* The azit that changes and another one that its host has.
<1>5. ASSUME NEW m \in azitUser, NEW n \in azitUser, m.role = "HOST", n.role = "HOST",
             m.user = n.user, m.azit = p.azit, n.azit # p.azit, info[n.azit].name = x
      PROVE  FALSE
  <2>1. PICK h \in azitUser : Hosts(h, p.azit) /\ h.user = p.user
    BY <1>5, <1>q, <1>t DEF Current, HostEdits
  <2>2. m = h
    BY <1>5, <1>t, <2>1 DEF OneHost, Hosts
  <2>3. info[p.azit].name = x
    <3>1. CASE p.name = None
      BY <1>1, <1>3, <1>5, <1>t, <3>1
    <3>2. CASE p.name # None
      <4>1. ~ NameTaken(p, p.copy.name)
        BY <1>q, <3>2 DEF Current, NameFree
      <4> QED BY <1>1, <1>3, <1>5, <1>t, <2>1, <2>2, <3>2, <4>1, NoName
    <3> QED BY <3>1, <3>2
  <2> QED BY <1>5, <2>3 DEF Serial, HostNamesDistinct
<1>6. HostNamesDistinct'
  BY <1>2, <1>5, <1>t DEF Serial, HostNamesDistinct
<1>7. \/ p.url = None \/ Uploaded(p.url)
      \/ p.icon = "keep" /\ (p.azit \in azits => p.url = info[p.azit].icon)
  BY <1>3, <1>q DEF Current, UrlOK, Request
<1>8. IconsDistinct'
  <2>1. \A a \in azits : info'[a].icon # None => info'[a].icon < nextFile
    BY <1>2, <1>7 DEF Serial, IconsDistinct, Uploaded
  <2>2. \A a, b \in azits : info'[a].icon # None /\ info'[a].icon = info'[b].icon => a = b
    BY <1>2, <1>7 DEF Serial, IconsDistinct, Uploaded
  <2> QED BY <1>2, <2>1, <2>2 DEF Serial, IconsDistinct
<1>9. IconKept'
  <2>1. \A s \in Requests : s = r
    BY DEF OneAtATime
  <2>2. Replaces(p) => p.icon # "keep"
    BY <1>q DEF Replaces
  <2> QED BY <1>2, <1>7, <1>p, <2>1, <2>2 DEF Serial, IconKept, Uploaded
<1> QED BY <1>2, <1>4, <1>6, <1>8, <1>9, <1>t, EndsCurrent DEF Serial

LEMMA DeleteSerial ==
  ASSUME OneAtATime, Inv, Serial, NEW r \in Requests, DeleteWrite(r)
  PROVE  Serial'
<1>p. PICK p : p = req[r]
  OBVIOUS
<1>q. Current(p) /\ p.op = "deleteAzit" /\ p.pc = "write"
  BY <1>p DEF Serial, DeleteWrite, At
<1>t. TypeOK /\ \A m \in azitUser : m.azit \in azits
  BY DEF Inv, TableInv, MembersReferToAzits
<1>1. p.azit \in azits => info[p.azit] = p.copy
  BY <1>q DEF Current, CopyCurrent, Edits
<1>2. Return(r) /\ UNCHANGED <<files, nextFile>> /\ \A s \in Requests : s = r
  BY DEF DeleteWrite, OneAtATime
<1>3. CASE /\ p.azit \in azits /\ UNCHANGED rows
           /\ iconLost' = IF p.copy.icon \in files \union {None}
                            THEN iconLost ELSE iconLost \union {p.azit}
  <2>1. UNCHANGED <<azits, azitUser, info>>
    BY <1>3 DEF rows, tableVars
  <2>2. (MembershipUnique /\ HostNamesDistinct /\ IconsDistinct)'
    BY <1>2, <2>1 DEF Serial, MembershipUnique, HostNamesDistinct, IconsDistinct
  <2>3. IconKept'
    BY <1>1, <1>2, <1>3, <1>p, <2>1 DEF Serial, IconKept
  <2> QED BY <1>2, <1>t, <2>2, <2>3, EndsCurrent DEF Serial
<1>4. CASE EraseAzit(p.azit) /\ iconLost' = iconLost \ {p.azit}
  <2>1. /\ (MembershipUnique /\ HostNamesDistinct /\ IconsDistinct)'
        /\ \A b \in azits' : \/ info'[b].icon \in files' \union {None}
                             \/ b \in iconLost'
                             \/ \E s \in Requests : req[s].azit = b /\ Replaces(req[s])
    BY <1>2, <1>4, <1>t, ErasedSerial
  <2>2. p.azit \notin azits'
    BY <1>4 DEF EraseAzit
  <2>3. IconKept'
    BY <1>2, <1>p, <2>1, <2>2 DEF IconKept
  <2> QED BY <1>2, <1>t, <2>1, <2>3, EndsCurrent DEF Serial
<1> QED BY <1>3, <1>4, <1>p DEF DeleteWrite

LEMMA MemberWriteSerial ==
  ASSUME OneAtATime, Inv, Serial, NEW r \in Requests,
         \/ \E op \in {"addAzitMember", "handleApplication"} : AddWrite(r, op)
         \/ RemoveWrite(r)
  PROVE  Serial'
<1>p. PICK p : p = req[r]
  OBVIOUS
<1>q. Current(p) /\ TypeOK /\ ~ Replaces(p)
  BY <1>p DEF Serial, Inv, AddWrite, RemoveWrite, Replaces, At
<1>1. Return(r) /\ UNCHANGED <<azits, info, files, nextFile, iconLost>>
  BY DEF AddWrite, InsertMember, RemoveWrite, s3, rows, tableVars
<1>2. MembershipUnique' /\ HostNamesDistinct'
  <2>1. ASSUME NEW op \in {"addAzitMember", "handleApplication"}, AddWrite(r, op),
               InsertMember(p.target, p.azit, "MEMBER")
        PROVE  MembershipUnique' /\ HostNamesDistinct'
    <3>1. PICK n : n = NewMember(p.target, p.azit, "MEMBER")
      OBVIOUS
    <3>2. /\ azitUser' = azitUser \union {n} /\ n.role = "MEMBER"
          /\ n.user = p.target /\ n.azit = p.azit
      BY <2>1, <3>1 DEF InsertMember, NewMember
    <3>3. RowsOf(p.target, p.azit) = {}
      BY <1>p, <1>q, <2>1 DEF Current, NotYetMember, Adds, AddWrite, At
    <3>4. MembershipUnique'
      BY <3>2, <3>3 DEF Serial, MembershipUnique, RowsOf
    <3>5. HostNamesDistinct'
      BY <1>1, <3>2 DEF Serial, HostNamesDistinct
    <3> QED BY <3>4, <3>5
  <2>2. CASE azitUser' \subseteq azitUser
    BY <1>1, <2>2 DEF Serial, MembershipUnique, HostNamesDistinct
  <2> QED BY <1>p, <2>1, <2>2 DEF AddWrite, RemoveWrite, rows, tableVars
<1>3. IconsDistinct'
  BY <1>1 DEF Serial, IconsDistinct
<1>4. IconKept'
  BY <1>1, <1>p, <1>q DEF Serial, IconKept, OneAtATime
<1> QED BY <1>1, <1>2, <1>3, <1>4, <1>q, EndsCurrent DEF Serial

\* The rest of the system, and steps that change nothing here.
LEMMA RestSerial ==
  ASSUME OneAtATime, Inv, Serial,
         CreateParty \/ LoseLastPost \/ DeleteLastParty \/ Restart \/ UNCHANGED vars
  PROVE  Serial'
<1>t. TypeOK /\ posts \subseteq azits /\ \A m \in azitUser : m.azit \in azits
  BY DEF Inv, TypeOK, TableInv, MembersReferToAzits
<1>1. ASSUME UNCHANGED <<rows, s3, req>> PROVE Serial'
  <2>1. UNCHANGED <<azits, azitUser, info, files, nextFile, iconLost>>
    BY <1>1 DEF rows, tableVars, s3
  <2>2. ASSUME NEW s \in Requests PROVE Current(req[s])'
    <3>1. PICK h : h = req[s]
      OBVIOUS
    <3>2. Current(h)'
      BY <1>1, <3>1, CurrentSame DEF Serial
    <3> QED BY <1>1, <3>1, <3>2, RequestCurrent
  <2>3. (MembershipUnique /\ HostNamesDistinct /\ IconsDistinct)'
    BY <2>1 DEF Serial, MembershipUnique, HostNamesDistinct, IconsDistinct
  <2>4. IconKept'
    BY <1>1, <2>1 DEF Serial, IconKept, Replaces
  <2> QED BY <2>2, <2>3, <2>4 DEF Serial
<1>2. CASE DeleteLastParty
  <2>1. PICK a \in azits : EraseAzit(a) /\ iconLost' = iconLost \ {a}
    BY <1>2, <1>t DEF DeleteLastParty
  <2>2. UNCHANGED <<files, nextFile, req>>
    BY <1>2 DEF DeleteLastParty
  <2>3. /\ (MembershipUnique /\ HostNamesDistinct /\ IconsDistinct)'
        /\ \A b \in azits' : \/ info'[b].icon \in files' \union {None}
                             \/ b \in iconLost'
                             \/ \E s \in Requests : req[s].azit = b /\ Replaces(req[s])
    BY <1>t, <2>1, <2>2, ErasedSerial
  <2>4. ASSUME NEW s \in Requests PROVE Current(req[s])'
    <3>1. PICK h : h = req[s]
      OBVIOUS
    <3>2. Current(h)'
      BY <1>t, <2>1, <2>2, <3>1, CurrentErased DEF Serial
    <3> QED BY <2>2, <3>1, <3>2, RequestCurrent
  <2>5. IconKept'
    BY <2>2, <2>3 DEF IconKept, Replaces
  <2> QED BY <2>3, <2>4, <2>5 DEF Serial
<1>3. CASE Restart
  <2>1. /\ UNCHANGED <<azits, azitUser, info, files, nextFile>> /\ \A s \in Requests : req'[s] = Idle
        /\ iconLost' = iconLost \union {a \in azits : info[a].icon \notin files \union {None}}
    BY <1>3 DEF Restart, rows, tableVars
  <2>2. \A s \in Requests : Current(req[s])'
    BY <2>1, IdleCurrent, RequestCurrent
  <2>3. (MembershipUnique /\ HostNamesDistinct /\ IconsDistinct)'
    BY <2>1 DEF Serial, MembershipUnique, HostNamesDistinct, IconsDistinct
  <2>4. IconKept'
    BY <2>1 DEF IconKept
  <2> QED BY <2>2, <2>3, <2>4 DEF Serial
<1> QED BY <1>1, <1>2, <1>3 DEF CreateParty, LoseLastPost, vars

LEMMA NextSerial == OneAtATime /\ Inv /\ Serial /\ [Next]_vars => Serial'
<1> SUFFICES ASSUME OneAtATime, Inv, Serial, [Next]_vars PROVE Serial'
  OBVIOUS
<1>1. ASSUME NEW r \in Requests, Step(r) PROVE Serial'
  BY <1>1, StartSerial, EditLooks, MemberLooks, IconSerial, CreateSerial, UpdateSerial,
     DeleteSerial, MemberWriteSerial DEF Step
<1> QED BY <1>1, RestSerial DEF Next

LEMMA InitSerial == Init => Serial
<1> SUFFICES ASSUME Init PROVE Serial
  OBVIOUS
<1>1. azits = {} /\ azitUser = {} /\ files = {} /\ \A s \in Requests : req[s] = Idle
  BY DEF Init, TableInit
<1>2. MembershipUnique /\ HostNamesDistinct /\ IconsDistinct /\ IconKept
  BY <1>1 DEF MembershipUnique, HostNamesDistinct, IconsDistinct, IconKept
<1> QED BY <1>1, <1>2, IdleCurrent DEF Serial

\* With one request at a time what it has read stays true, unless the azit goes.
THEOREM SerialInvariance == ASSUME OneAtATime PROVE Spec => [](Inv /\ Serial)
<1>1. Init => Inv /\ Serial
  BY InitInv, InitSerial
<1>2. Inv /\ Serial /\ [Next]_vars => (Inv /\ Serial)'
  BY NextInv, NextSerial
<1> QED BY <1>1, <1>2, PTL DEF Spec

\* azit-member.service.ts, addAzitMember, and handleApplication: with one request at a
\* time nobody is a member of an azit twice.
THEOREM MembersOnceWhenSerial == ASSUME OneAtATime PROVE Spec => []MembershipUnique
BY SerialInvariance, PTL DEF Serial

\* azit.validator.ts, checkAzitNameDuplicate: with one request at a time no user hosts two
\* azits of the same name, although an update may leave the name out.
THEOREM NamesDistinctWhenSerial == ASSUME OneAtATime PROVE Spec => []HostNamesDistinct
BY SerialInvariance, PTL DEF Serial

\* azit.service.ts, updateAzit and deleteAzit: with one request at a time the url of an azit
\* names a stored file, but while its icon is replaced and after a request that failed.
THEOREM IconsStoredWhenSerial == ASSUME OneAtATime PROVE Spec => []IconStored
<1>1. Serial => IconStored
  BY DEF Serial, IconKept, IconStored, Replaces
<1> QED BY <1>1, SerialInvariance, PTL

\* The name written back is the one the azit has.
LEMMA NameStays == OneAtATime /\ Inv /\ Serial /\ [Next]_vars => NameKept
<1> SUFFICES ASSUME Inv, Serial, [Next]_vars, NEW a \in azits \intersect azits',
                    info[a].name # info'[a].name
             PROVE  \E r \in Requests : /\ At(r, "updateAzit", "write")
                                        /\ req[r].azit = a
                                        /\ req[r].name = info'[a].name
  BY DEF NameKept
<1>1. PICK r \in Requests : UpdateWrite(r)
  <2>1. CASE CreateParty \/ LoseLastPost \/ DeleteLastParty \/ Restart \/ UNCHANGED vars
    BY <2>1 DEF CreateParty, LoseLastPost, DeleteLastParty, Restart, EraseAzit, rows, vars
  <2>2. ASSUME NEW r \in Requests, Step(r), ~ UpdateWrite(r) PROVE FALSE
    <3>1. CASE CreateWrite(r)
      <4>1. a # nextAzit
        BY DEF Inv, TableInv, IdsFresh, TypeOK, TableTypeOK, AzitId
      <4> QED BY <3>1, <4>1 DEF CreateWrite
    <3>2. CASE DeleteWrite(r)
      BY <3>2 DEF DeleteWrite, EraseAzit, rows
    <3>3. ASSUME ~ CreateWrite(r), ~ DeleteWrite(r) PROVE info' = info
      BY <2>2, <3>3 DEF Step, StartCreateAzit, CreateCheckName, Upload, UploadFails,
         StartUpdateAzit, UpdateCheckHost, UpdateCheckName, StartDeleteAzit,
         DeleteCheckHost, FindAzit, CheckMember, DeleteIcon, StartAddMember,
         AddCheckRequester, StartRemoveMember, RemoveFindTarget, RemoveCheckRequester,
         RemoveWrite, StartAcceptApplicant, CheckExisting, AddWrite, InsertMember, rows
    <3> QED BY <3>1, <3>2, <3>3
  <2> QED BY <2>1, <2>2 DEF Next
<1>2. Current(req[r]) /\ At(r, "updateAzit", "write")
  BY <1>1 DEF Serial, UpdateWrite
<1>3. a = req[r].azit
  BY <1>1 DEF UpdateWrite
<1>4. info[a] = req[r].copy
  BY <1>2, <1>3 DEF Current, CopyCurrent, Edits, At
<1> QED BY <1>1, <1>2, <1>3, <1>4 DEF UpdateWrite

\* azit.service.ts:121, "keep it if null": with one request at a time an update that leaves
\* the name out writes back the name the azit has.
THEOREM NamesKeptWhenSerial == ASSUME OneAtATime PROVE Spec => NameKeptIfNull
BY NameStays, SerialInvariance, PTL DEF Spec, NameKeptIfNull
=============================================================================

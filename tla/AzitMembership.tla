--------------------------- MODULE AzitMembership ---------------------------
(***************************************************************************)
(* The services that write tables azits and azit_user: AzitService         *)
(* (create, update, delete), AzitMemberService (add, remove) and the part  *)
(* of PartyInteractionService.handleApplication that admits an applicant.  *)
(*                                                                         *)
(* One Node process serves many HTTP requests.  A request runs until its   *)
(* next await, so every awaited statement (MySQL autocommit statement, one *)
(* $transaction, or S3 call) is one atomic action here, and the statements *)
(* of different requests interleave freely.  req[r] is the local state of  *)
(* request r: where it is (pc) and what it has read so far, which may be   *)
(* stale when it is used.  An early return and an exception (500) both end *)
(* the request; rows change only where a statement succeeds.               *)
(***************************************************************************)
EXTENDS MemberTable

CONSTANTS
  Requests,  \* concurrent requests in flight
  Names,     \* azit names
  MaxFile,   \* bound: icon files uploaded to S3
  None       \* absent value (null, undefined)

ASSUME MembershipAssumption ==
  /\ MaxFile \in Nat
  /\ None \notin Users /\ None \notin Names /\ None \notin Nat

\* The key columns of azits and azit_user are the variables of MemberTable.
VARIABLES
  info,       \* the other columns of azits: name and image_url of every azit
  posts,      \* azits some party post refers to (PartyPost.azit, ON DELETE RESTRICT)
  files,      \* icon files stored in S3
  nextFile,   \* names of uploaded files are fresh
  iconLost,   \* ghost: azits whose icon file was deleted by a request that then failed
  req         \* local state of every request

rows == <<tableVars, info>>
s3   == <<files, nextFile, iconLost>>
vars == <<rows, posts, s3, req>>

FileId   == 1..MaxFile
Azit     == [name: Names, icon: FileId \union {None}]
Ops      == {"idle", "createAzit", "updateAzit", "deleteAzit",
             "addAzitMember", "removeAzitMember", "handleApplication"}
Pcs      == {"idle", "names", "deleteIcon", "upload", "azit", "member", "host",
             "requester", "existing", "target", "write"}

Request ==
  [op: Ops, pc: Pcs,
   user: Users \union {None},               \* the caller (JWT subject)
   azit: AzitId \union {None},              \* path parameter azit_id
   target: Users \union MemberId \union {None}, \* dto.user_id, member_id or applicant
   name: Names \union {None},               \* dto.azit_name
   icon: {"keep", "delete", "file"},        \* is_delete_icon / multipart file
   copy: Azit \union {None},                \* azit as read by checkAzitExists
   row: Member \union {None},               \* member row read earlier
   url: FileId \union {None}]               \* imageUrl to store

Idle == [op |-> "idle", pc |-> "idle", user |-> None, azit |-> None, target |-> None,
         name |-> None, icon |-> "keep", copy |-> None, row |-> None, url |-> None]

TypeOK ==
  /\ TableTypeOK
  /\ info \in [azits -> Azit]
  /\ posts \subseteq azits
  /\ files \subseteq FileId
  /\ nextFile \in 1..MaxFile + 1
  /\ iconLost \subseteq AzitId
  /\ req \in [Requests -> Request]

Init ==
  /\ TableInit
  /\ info = [a \in {} |-> None]
  /\ posts = {}
  /\ files = {} /\ nextFile = 1 /\ iconLost = {}
  /\ req = [r \in Requests |-> Idle]

-----------------------------------------------------------------------------
At(r, op, pc) == req[r].op = op /\ req[r].pc = pc
Become(r, q)  == req' = [req EXCEPT ![r] = q]
Goto(r, pc)   == Become(r, [req[r] EXCEPT !.pc = pc])
Return(r)     == Become(r, Idle)
Begin(r, q)   == req[r].pc = "idle" /\ Become(r, q)

\* findAzitUserByUserIdAndAzitId is findFirst without ORDER BY: any of these rows.
RowsOf(u, a) == {m \in azitUser : m.user = u /\ m.azit = a}
Caller(r)    == RowsOf(req[r].user, req[r].azit)

\* checkAzitExists: the azit row is read once and used until the request ends.
FindAzit(r, op, next) ==
  /\ At(r, op, "azit")
  /\ \/ req[r].azit \in azits /\ Become(r, [req[r] EXCEPT !.copy = info[req[r].azit], !.pc = next])
     \/ req[r].azit \notin azits /\ Return(r)
  /\ UNCHANGED <<rows, posts, s3>>

\* checkAzitNameDuplicate: a name the caller's azits already have is refused,
\* except the name the azit has now.
NameTaken(q, exclude) ==
  q.name \in {info[m.azit].name : m \in {n \in azitUser : n.user = q.user}} \ {exclude}

\* Mutant of Referenced: party_posts has no foreign key to azits.
ReferencedNever(a) == FALSE

\* PartyPost.azit: an azit that posts refer to is not deleted.
Referenced(a) == a \in posts

\* AzitRepository.deleteAzit: refused while a party post refers to the azit;
\* otherwise the member rows go with it (ON DELETE CASCADE).
EraseAzit(a) ==
  /\ azits' = azits \ {a}
  /\ info' = [b \in azits \ {a} |-> info[b]]
  /\ azitUser' = {m \in azitUser : m.azit # a}
  /\ UNCHANGED <<nextAzit, nextMember>>

\* AzitUserRepository.createAzitUser, with the foreign key to azits.
InsertMember(u, a, ro) ==
  /\ nextMember <= MaxMember
  /\ a \in azits
  /\ azitUser' = azitUser \union {NewMember(u, a, ro)}
  /\ nextMember' = nextMember + 1
  /\ UNCHANGED <<azits, info, nextAzit>>
-----------------------------------------------------------------------------
(* POST /azits: AzitService.createAzit *)

StartCreateAzit(r) ==
  /\ \E u \in Users, n \in Names, i \in {"keep", "file"} :
       /\ i = "file" => nextFile <= MaxFile
       /\ Begin(r, [Idle EXCEPT !.op = "createAzit", !.pc = "names",
                                !.user = u, !.name = n, !.icon = i])
  /\ UNCHANGED <<rows, posts, s3>>

CreateCheckName(r) ==
  /\ At(r, "createAzit", "names")
  /\ IF NameTaken(req[r], None) THEN Return(r)
     ELSE Goto(r, IF req[r].icon = "file" THEN "upload" ELSE "write")
  /\ UNCHANGED <<rows, posts, s3>>

\* uploadFileToS3: a fresh key, or an error that ends the request.
Upload(r, op) ==
  /\ At(r, op, "upload")
  /\ nextFile <= MaxFile
  /\ files' = files \union {nextFile}
  /\ nextFile' = nextFile + 1
  /\ Become(r, [req[r] EXCEPT !.url = nextFile, !.pc = "write"])
  /\ UNCHANGED <<rows, posts, iconLost>>

UploadFails(r, op) ==
  /\ At(r, op, "upload")
  /\ iconLost' = IF op = "updateAzit" /\ req[r].copy.icon \notin files \union {None}
                 THEN iconLost \union {req[r].azit} ELSE iconLost
  /\ Return(r)
  /\ UNCHANGED <<rows, posts, files, nextFile>>

\* One transaction: the azit, its HOST row (and the default chat room).
CreateWrite(r) ==
  LET q == req[r] IN
  /\ At(r, "createAzit", "write")
  /\ nextAzit <= MaxAzit /\ nextMember <= MaxMember
  /\ azits' = azits \union {nextAzit}
  /\ info' = [a \in azits \union {nextAzit} |->
                IF a = nextAzit THEN [name |-> q.name, icon |-> q.url] ELSE info[a]]
  /\ azitUser' = azitUser \union {NewMember(q.user, nextAzit, "HOST")}
  /\ nextAzit' = nextAzit + 1
  /\ nextMember' = nextMember + 1
  /\ Return(r)
  /\ UNCHANGED <<posts, s3>>
-----------------------------------------------------------------------------
(* PATCH /azits/{id} and DELETE /azits/{id}: AzitService.updateAzit, deleteAzit *)

StartUpdateAzit(r) ==
  /\ \E u \in Users, a \in AzitId, n \in Names \union {None}, i \in {"keep", "delete", "file"} :
       /\ i = "file" => nextFile <= MaxFile
       /\ Begin(r, [Idle EXCEPT !.op = "updateAzit", !.pc = "azit", !.user = u,
                                !.azit = a, !.name = n, !.icon = i])
  /\ UNCHANGED <<rows, posts, s3>>

StartDeleteAzit(r) ==
  /\ \E u \in Users, a \in AzitId :
       Begin(r, [Idle EXCEPT !.op = "deleteAzit", !.pc = "azit", !.user = u, !.azit = a])
  /\ UNCHANGED <<rows, posts, s3>>

\* checkAzitMemberExists, then checkHost on the row found.
CheckMember(r, op) ==
  /\ At(r, op, "member")
  /\ \/ \E m \in Caller(r) : Become(r, [req[r] EXCEPT !.row = m, !.pc = "host"])
     \/ Caller(r) = {} /\ Return(r)
  /\ UNCHANGED <<rows, posts, s3>>

IsHost(m) == \E h \in azitUser : h.id = m.id /\ h.role = "HOST"

\* The icon step is taken only when there is a stored icon to remove.
AfterNames(q) ==
  CASE q.icon # "keep" /\ q.copy.icon # None -> "deleteIcon"
    [] q.icon = "file" /\ q.copy.icon = None -> "upload"
    [] OTHER -> "write"

\* Mutant of KeptUrl: is_delete_icon removes the file, and the url stays.
KeptUrlAlways(q) == q.copy.icon

\* imageUrl starts as the url read by checkAzitExists; is_delete_icon clears it.
KeptUrl(q) == IF q.icon = "keep" THEN q.copy.icon ELSE None

UpdateCheckHost(r) ==
  LET q == req[r] IN
  /\ At(r, "updateAzit", "host")
  /\ IF ~IsHost(q.row) THEN Return(r)
     ELSE Become(r, [q EXCEPT !.url = KeptUrl(q), !.row = None,
                              !.pc = IF q.name # None THEN "names" ELSE AfterNames(q)])
  /\ UNCHANGED <<rows, posts, s3>>

UpdateCheckName(r) ==
  /\ At(r, "updateAzit", "names")
  /\ IF NameTaken(req[r], req[r].copy.name) THEN Return(r) ELSE Goto(r, AfterNames(req[r]))
  /\ UNCHANGED <<rows, posts, s3>>

\* deleteFileFromS3: its failure is logged and ignored.
DeleteIcon(r, op) ==
  LET q == req[r] IN
  /\ At(r, op, "deleteIcon")
  /\ files' \in {files, files \ {q.copy.icon}}
  /\ Goto(r, IF q.icon = "file" THEN "upload" ELSE "write")
  /\ UNCHANGED <<rows, posts, nextFile, iconLost>>

\* Mutant of UpdateWrite: the statement has no WHERE clause.
UpdateWriteAll(r) ==
  LET q == req[r] IN
  /\ At(r, "updateAzit", "write")
  /\ info' = [a \in azits |-> [name |-> IF q.name # None THEN q.name ELSE q.copy.name,
                               icon |-> q.url]]
  /\ UNCHANGED <<tableVars, posts, s3>>
  /\ Return(r)

\* The whole row is written back: a name not in the dto is the name read before.
UpdateWrite(r) ==
  LET q == req[r] IN
  /\ At(r, "updateAzit", "write")
  /\ info' = [a \in azits |->
                IF a = q.azit
                THEN [name |-> IF q.name # None THEN q.name ELSE q.copy.name, icon |-> q.url]
                ELSE info[a]]
  /\ iconLost' = IF q.url \in files \union {None} THEN iconLost \ {q.azit} ELSE iconLost
  /\ Return(r)
  /\ UNCHANGED <<tableVars, posts, files, nextFile>>

DeleteCheckHost(r) ==
  LET q == req[r] IN
  /\ At(r, "deleteAzit", "host")
  /\ IF ~IsHost(q.row) THEN Return(r)
     ELSE Become(r, [q EXCEPT !.row = None,
                              !.pc = IF q.copy.icon # None THEN "deleteIcon" ELSE "write"])
  /\ UNCHANGED <<rows, posts, s3>>

\* Refused while a party post or (not modelled) feedback on a schedule refers to it.
DeleteWrite(r) ==
  LET q == req[r] IN
  /\ At(r, "deleteAzit", "write")
  /\ \/ /\ q.azit \in azits
        /\ iconLost' = IF q.copy.icon \in files \union {None}
                         THEN iconLost ELSE iconLost \union {q.azit}
        /\ UNCHANGED rows
     \/ /\ ~ Referenced(q.azit)
        /\ EraseAzit(q.azit)
        /\ iconLost' = iconLost \ {q.azit}
  /\ Return(r)
  /\ UNCHANGED <<posts, files, nextFile>>
-----------------------------------------------------------------------------
(* POST /azits/{id}/members, DELETE /azits/{id}/members/{member_id}:       *)
(* AzitMemberService.addAzitMember, removeAzitMember                       *)

StartAddMember(r) ==
  /\ \E u, t \in Users, a \in AzitId :
       Begin(r, [Idle EXCEPT !.op = "addAzitMember", !.pc = "azit", !.user = u,
                             !.azit = a, !.target = t])
  /\ UNCHANGED <<rows, posts, s3>>

AddCheckRequester(r) ==
  /\ At(r, "addAzitMember", "requester")
  /\ \/ \E m \in Caller(r) : m.role = "HOST" /\ Goto(r, "existing")
     \/ \E m \in Caller(r) : m.role # "HOST" /\ Return(r)
     \/ Caller(r) = {} /\ Return(r)
  /\ UNCHANGED <<rows, posts, s3>>

\* Mutant of CheckExisting: the check is missing.
CheckExistingNothing(r, op) ==
  /\ At(r, op, "existing")
  /\ Goto(r, "write")
  /\ UNCHANGED <<rows, posts, s3>>

\* "already a member": checked here, and not again by the insert (the table has
\* no unique key on user and azit).
CheckExisting(r, op) ==
  /\ At(r, op, "existing")
  /\ IF RowsOf(req[r].target, req[r].azit) # {} THEN Return(r) ELSE Goto(r, "write")
  /\ UNCHANGED <<rows, posts, s3>>

AddWrite(r, op) ==
  LET q == req[r] IN
  /\ At(r, op, "write")
  /\ \/ InsertMember(q.target, q.azit, "MEMBER")
     \/ q.azit \notin azits /\ UNCHANGED rows
  /\ Return(r)
  /\ UNCHANGED <<posts, s3>>

StartRemoveMember(r) ==
  /\ \E u \in Users, a \in AzitId, m \in MemberId :
       Begin(r, [Idle EXCEPT !.op = "removeAzitMember", !.pc = "azit", !.user = u,
                             !.azit = a, !.target = m])
  /\ UNCHANGED <<rows, posts, s3>>

RemoveFindTarget(r) ==
  LET q == req[r]
      Found == {m \in azitUser : m.id = q.target /\ m.azit = q.azit} IN
  /\ At(r, "removeAzitMember", "target")
  /\ \/ \E m \in Found : Become(r, [req[r] EXCEPT !.row = m, !.pc = "requester"])
     \/ Found = {} /\ Return(r)
  /\ UNCHANGED <<rows, posts, s3>>

\* Mutants of MayRemove: the host is not protected; only the host is protected.
MayRemoveHost(q, m)   == q.row.user = q.user \/ m.role = "HOST"
MayRemoveOthers(q, m) == ~(q.row.user = q.user /\ m.role = "HOST")

\* Exactly one of "the caller is the target" and "the caller is the host".
MayRemove(q, m) == (q.row.user = q.user) # (m.role = "HOST")

RemoveCheckRequester(r) ==
  /\ At(r, "removeAzitMember", "requester")
  /\ \/ \E m \in Caller(r) : MayRemove(req[r], m) /\ Goto(r, "write")
     \/ \E m \in Caller(r) : ~MayRemove(req[r], m) /\ Return(r)
     \/ Caller(r) = {} /\ Return(r)
  /\ UNCHANGED <<rows, posts, s3>>

RemoveWrite(r) ==
  /\ At(r, "removeAzitMember", "write")
  /\ azitUser' = {m \in azitUser : m.id # req[r].target}
  /\ Return(r)
  /\ UNCHANGED <<azits, info, nextAzit, nextMember, posts, s3>>
-----------------------------------------------------------------------------
(* The rest of the system. *)

\* handleApplication, from the moment the application is accepted: the azit of
\* the party post is read with the application, the membership comes later.
StartAcceptApplicant(r) ==
  /\ \E a \in posts, t \in Users :
       Begin(r, [Idle EXCEPT !.op = "handleApplication", !.pc = "existing",
                             !.azit = a, !.target = t])
  /\ UNCHANGED <<rows, posts, s3>>

CreateParty ==
  /\ \E a \in azits : posts' = posts \union {a}
  /\ UNCHANGED <<rows, s3, req>>

\* updateParty moves the last post to another azit, or two deleteParty transactions
\* delete the last two posts and each still counts the other's: the azit stays.
LoseLastPost ==
  /\ \E a \in posts : posts' = posts \ {a}
  /\ UNCHANGED <<rows, s3, req>>

\* deleteParty: the transaction drops the azit when its last post goes.
DeleteLastParty ==
  /\ \E a \in posts :
       /\ posts' = posts \ {a}
       /\ EraseAzit(a)
       /\ iconLost' = iconLost \ {a}
  /\ UNCHANGED <<files, nextFile, req>>

\* The Node process dies and is started again: requests vanish, rows stay.
Restart ==
  /\ req' = [r \in Requests |-> Idle]
  /\ iconLost' = iconLost \union {a \in azits : info[a].icon \notin files \union {None}}
  /\ UNCHANGED <<rows, posts, files, nextFile>>

Step(r) ==
  \/ StartCreateAzit(r) \/ CreateCheckName(r) \/ CreateWrite(r)
  \/ \E op \in {"createAzit", "updateAzit"} : Upload(r, op) \/ UploadFails(r, op)
  \/ StartUpdateAzit(r) \/ UpdateCheckHost(r) \/ UpdateCheckName(r) \/ UpdateWrite(r)
  \/ StartDeleteAzit(r) \/ DeleteCheckHost(r) \/ DeleteWrite(r)
  \/ \E op \in {"updateAzit", "deleteAzit"} :
       FindAzit(r, op, "member") \/ CheckMember(r, op) \/ DeleteIcon(r, op)
  \/ StartAddMember(r) \/ FindAzit(r, "addAzitMember", "requester") \/ AddCheckRequester(r)
  \/ StartRemoveMember(r) \/ FindAzit(r, "removeAzitMember", "target")
  \/ RemoveFindTarget(r) \/ RemoveCheckRequester(r) \/ RemoveWrite(r)
  \/ StartAcceptApplicant(r)
  \/ \E op \in {"addAzitMember", "handleApplication"} : CheckExisting(r, op) \/ AddWrite(r, op)

Next == (\E r \in Requests : Step(r)) \/ CreateParty \/ LoseLastPost \/ DeleteLastParty \/ Restart

Spec == Init /\ [][Next]_vars
-----------------------------------------------------------------------------
(* Properties. *)

\* The services implement the abstract tables: whatever the interleaving, an azit
\* is created with its host, later rows are members, and a row with role HOST is
\* removed only with its azit (TableNext is what the environment of the other
\* models does to these tables).
ImplementsTable == TableSpec

\* A membership disappears from a living azit only by a removal in flight whose
\* caller is that member itself, or is the host of the azit at that moment, even
\* though the caller's role was read in an earlier step.
EntitledRemoval(m) ==
  \E r \in Requests :
    /\ At(r, "removeAzitMember", "write")
    /\ req[r].target = m.id
    /\ \/ req[r].user = m.user
       \/ \E h \in azitUser : Hosts(h, m.azit) /\ h.user = req[r].user

RemovalAuthorized ==
  [][\A m \in azitUser \ azitUser' : m.azit \in azits' => EntitledRemoval(m)]_vars

\* The duplicate check of addAzitMember and handleApplication keeps one row per
\* user and azit, as long as requests do not overlap.
MembershipUnique ==
  \A m, n \in azitUser : m.user = n.user /\ m.azit = n.azit => m = n

\* checkAzitNameDuplicate, called by create and update: no user hosts two azits
\* of the same name, as long as requests do not overlap.
HostNamesDistinct ==
  \A m, n \in {h \in azitUser : h.role = "HOST"} :
    m.user = n.user /\ info[m.azit].name = info[n.azit].name => m.azit = n.azit

\* azit.service.ts:121 "keep it if null": an update whose dto has no name leaves
\* the name of the azit as it is.
NameKept ==
  \A a \in azits \intersect azits' : info[a].name # info'[a].name =>
    \E r \in Requests : /\ At(r, "updateAzit", "write")
                        /\ req[r].azit = a
                        /\ req[r].name = info'[a].name
NameKeptIfNull == [][NameKept]_vars

\* The icon url of an azit names a file that S3 holds, unless an update or a
\* deletion is on its way or one failed after deleting the file (iconLost).
IconStored ==
  \A a \in azits :
    \/ info[a].icon \in files \union {None}
    \/ a \in iconLost
    \/ \E r \in Requests : req[r].azit = a /\ req[r].pc \in {"upload", "write"}
=============================================================================

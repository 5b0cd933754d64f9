-------------------------- MODULE AttachmentsProofs --------------------------
(***************************************************************************)
(* What is shown can be fetched, and overlapping requests exceed the limit *)
(* of uploaded medias by one limit each at most, for any number of users,  *)
(* requests, items and files, whatever urls and orders bodies give.        *)
(*                                                                         *)
(* A file is uploaded for one item (OneItem) by one request (OwnUrls), and *)
(* unless a body takes its url to another item, the rows that show it are  *)
(* rows of that item: whoever deletes the file deletes it for an item that *)
(* goes (FilesThere).                                                      *)
(*                                                                         *)
(* Every request that has counted the medias of an item is counted as long *)
(* as it may still add to it (RoomLeft): with the files it brings, and     *)
(* with the orders it is about to take.                                    *)
(***************************************************************************)
EXTENDS Attachments, FiniteSetTheorems, WellFoundedInduction, TLAPS

\* The hypothesis of what follows: finitely many requests, and bounds that are numbers.
SoundConstants ==
  /\ IsFiniteSet(Requests) /\ MaxMedias \in Nat /\ MaxItem \in Nat /\ MaxFile \in Nat
  /\ Orders \subseteq Int /\ IsFiniteSet(Orders) /\ None \notin Nat /\ None \notin Users

\* What a request of Attachments may rely on.
SoundEdit(q) ==
  /\ q.op = "idle" => q = Idle
  /\ q.op = "create" => /\ q.pc \in {"upload", "insert"} /\ q.user \in Users /\ q.kind \in Kinds
                        /\ q.item = None
  /\ q.op = "append" => q.pc \in {"medias", "text", "upload", "append"}
  /\ q.op = "rewrite" => q.pc = "rewrite"
  /\ q.op = "replace" => q.pc \in {"upload", "clear", "refill"}
  /\ q.op = "erase" => q.pc \in {"files", "row"}
  /\ q.op = "delete" => q.pc = "row"
  /\ q.op = "withdraw" => q.pc \in {"clear", "row"}
  /\ q.op \notin {"idle", "create"} => q.item \in ItemId /\ q.item < nextItem
  /\ q.pc = "upload" => q.left > 0
  /\ q.pc \in {"medias", "text"} => q.urls = <<>>
  /\ q.left + Len(q.urls) <= MaxMedias
  /\ IsFiniteSet(q.copy) /\ \A m \in q.copy : m.item = q.item

AttachedRows ==
  /\ DOMAIN items \subseteq ItemId
  /\ \A i \in DOMAIN items : items[i] \in Item /\ i < nextItem
  /\ medias \subseteq Media /\ IsFiniteSet(medias)
  /\ \A m \in medias : m.item # None => m.item \in DOMAIN items
  /\ files \subseteq File /\ \A f \in files : f < nextFile
  /\ nextItem \in 1..MaxItem + 1 /\ nextFile \in 1..MaxFile + 1
  /\ torn \subseteq ItemId /\ strayed \subseteq File

SoundAttached ==
  AttachedRows /\ req \in [Requests -> Request] /\ \A r \in Requests : SoundEdit(req[r])

\* The rows that are there or were read, and may be written back.
Seen == medias \union UNION {req[r].copy : r \in Requests}

\* The deletion of an item has begun.
Going(i) ==
  \/ i \notin DOMAIN items \/ i \in torn
  \/ \E r \in Requests : req[r].op = "erase" /\ req[r].item = i

\* The files whose urls no body has taken elsewhere.
Kept == File \ strayed

\* Such a file is uploaded for one item, and is there until that item goes.
OneItem ==
  \A m, n \in Seen :
    m.url = n.url /\ m.url \in Kept /\ m.item # None /\ n.item # None => m.item = n.item
FilesThere ==
  \A m \in Seen :
    m.url < nextFile /\ (m.item # None /\ m.url \in Kept /\ m.url \notin files => Going(m.item))
\* The files a request has uploaded are nobody else's yet.
OwnUrls ==
  \A r \in Requests : \A k \in DOMAIN req[r].urls :
    /\ req[r].urls[k] < nextFile
    /\ req[r].urls[k] \in Kept =>
         req[r].urls[k] \in files /\ \A m \in Seen : m.url # req[r].urls[k]
    /\ \A s \in Requests : \A l \in DOMAIN req[s].urls :
         req[s].urls[l] = req[r].urls[k] => s = r

AttachedOK == SoundAttached /\ OneItem /\ FilesThere /\ OwnUrls

\* The orders of what a request is about to add.
First(r) == IF req[r].op = "append" THEN MaxOrder(req[r].copy) + 1 ELSE 0
Claiming(i, o) == {r \in Requests : AddsTo(r, i) /\ First(r) <= o /\ o < First(r) + Adding(r)}
Ordered(i, o) == {m \in Uploaded(i) : m.order = o}

RoomLeft(i) ==
  /\ Cardinality(Uploaded(i)) + Cardinality(Pending(i)) <= Cardinality(Requests) * MaxMedias
  /\ \A o \in Int : Cardinality(Ordered(i, o)) + Cardinality(Claiming(i, o)) <= Cardinality(Requests)
-----------------------------------------------------------------------------
LEMMA IdleEdit == ASSUME SoundConstants PROVE Idle \in Request /\ SoundEdit(Idle)
<1>1. <<>> \in Seq(File) /\ Len(<<>>) = 0
  OBVIOUS
<1> QED BY <1>1, FS_EmptySet DEF SoundConstants, Idle, Request, SoundEdit, Ops, Pcs

LEMMA EditUpdate ==
  ASSUME SoundConstants, SoundAttached, NEW r \in Requests, NEW q, Become(r, q)
  PROVE  /\ req'[r] = q
         /\ \A s \in Requests : s # r => req'[s] = req[s]
         /\ q \in Request => req' \in [Requests -> Request]
BY DEF SoundAttached, Become

\* The request that steps is replaced by a sound one.
LEMMA EditSound ==
  ASSUME SoundConstants, SoundAttached, NEW r \in Requests,
         NEW q \in Request, Become(r, q), SoundEdit(q),
         AttachedRows', nextItem' >= nextItem
  PROVE  SoundAttached'
<1>1. ASSUME NEW s \in Requests PROVE SoundEdit(req[s])'
  <2>1. req'[s] = q \/ req'[s] = req[s]
    BY EditUpdate
  <2>2. PICK p : p = req'[s]
    OBVIOUS
  <2>3. SoundEdit(p)
    BY <2>1, <2>2 DEF SoundAttached
  <2>4. p.op \notin {"idle", "create"} => p.item \in Nat
    BY <2>3 DEF SoundEdit, ItemId
  <2>5. nextItem \in Nat /\ nextItem' \in Nat
    BY DEF SoundConstants, SoundAttached, AttachedRows
  <2>6. SoundEdit(p)'
    BY <2>3, <2>4, <2>5 DEF SoundEdit
  <2> QED BY <2>2, <2>6
<1> QED BY <1>1, EditUpdate DEF SoundAttached

LEMMA SeenIs ==
  \A m : m \in Seen <=> m \in medias \/ \E r \in Requests : m \in req[r].copy
BY DEF Seen

\* The items of rows read are older than the next.
LEMMA SeenItems ==
  ASSUME SoundConstants, SoundAttached, NEW m \in Seen
  PROVE  m \in Media /\ (m.item # None => m.item \in ItemId /\ m.item < nextItem)
<1>1. CASE m \in medias
  BY <1>1 DEF SoundAttached, AttachedRows
<1>2. ASSUME NEW r \in Requests, m \in req[r].copy
      PROVE  m \in Media /\ (m.item # None => m.item \in ItemId /\ m.item < nextItem)
  <2>1. req[r] \in Request /\ SoundEdit(req[r])
    BY DEF SoundAttached
  <2>2. m \in Media /\ m.item = req[r].item
    BY <1>2, <2>1 DEF Request, SoundEdit
  <2>3. req[r].op = "idle" => req[r].item = None
    BY <2>1 DEF SoundEdit, Idle
  <2> QED BY <2>1, <2>2, <2>3 DEF SoundEdit
<1> QED BY <1>1, <1>2, SeenIs

\* What rows show stays so when no url of a kept file is new.
LEMMA NothingNew ==
  ASSUME SoundConstants, AttachedOK, SoundAttached', strayed \subseteq strayed',
         \A m \in Seen' :
           /\ m.url < nextFile
           /\ m.url \in Kept' => \E n \in Seen : n.url = m.url /\ (n.item = m.item \/ m.item = None),
         files' = files, nextFile' = nextFile,
         \A r \in Requests : req'[r].urls \in {<<>>, req[r].urls},
         \A i \in ItemId : i < nextItem /\ Going(i) => Going(i)'
  PROVE  AttachedOK'
<1>0. Kept' \subseteq Kept
  BY DEF Kept
<1>1. OneItem'
  BY <1>0 DEF AttachedOK, OneItem
<1>2. ASSUME NEW m \in Seen'
      PROVE  /\ m.url < nextFile'
             /\ m.item # None /\ m.url \in Kept' /\ m.url \notin files' => Going(m.item)'
  <2>1. CASE m.url \in Kept'
    <3>1. PICK n \in Seen : n.url = m.url /\ (n.item = m.item \/ m.item = None)
      BY <2>1
    <3>2. n.item # None => n.item \in ItemId /\ n.item < nextItem
      BY SeenItems DEF AttachedOK
    <3> QED BY <1>0, <2>1, <3>1, <3>2 DEF AttachedOK, FilesThere
  <2> QED BY <2>1
<1>3. FilesThere'
  BY <1>2 DEF FilesThere
<1>4. ASSUME NEW r \in Requests, NEW k \in DOMAIN req'[r].urls
      PROVE  k \in DOMAIN req[r].urls /\ req'[r].urls[k] = req[r].urls[k]
  <2>1. DOMAIN <<>> = {}
    OBVIOUS
  <2> QED BY <2>1
<1>5. ASSUME NEW r \in Requests, NEW k \in DOMAIN req'[r].urls, req'[r].urls[k] \in Kept'
      PROVE  req'[r].urls[k] \in files' /\ \A m \in Seen' : m.url # req'[r].urls[k]
  <2>1. PICK u : u = req[r].urls[k]
    OBVIOUS
  <2>2. u = req'[r].urls[k] /\ u \in Kept /\ u \in Kept' /\ k \in DOMAIN req[r].urls
    BY <1>0, <1>4, <1>5, <2>1
  <2>3. u \in files /\ \A m \in Seen : m.url # u
    BY <2>1, <2>2 DEF AttachedOK, OwnUrls
  <2> QED BY <2>2, <2>3
<1>6. OwnUrls'
  BY <1>4, <1>5 DEF AttachedOK, OwnUrls
<1> QED BY <1>1, <1>3, <1>6 DEF AttachedOK
-----------------------------------------------------------------------------
AddsNothing(q) == q.pc # "refill" /\ (q.op = "append" => q.pc = "medias")

\* The request goes on with what it has read, or with rows that are there.
Moves(r, q) ==
  /\ q \in Request /\ Become(r, q) /\ SoundEdit(q)
  /\ q.urls \in {<<>>, req[r].urls}
  /\ \A m \in q.copy : \E n \in medias \union req[r].copy : n.url = m.url /\ n.item = m.item

Looks(r) ==
  \/ "highlight" \in Kinds /\ (CreateHighlight(r) \/ CreateCommunityHighlight(r))
  \/ "post" \in Kinds /\ CreatePost(r)
  \/ "report" \in Kinds /\ CreateReport(r)
  \/ UpdateHighlight(r) \/ WriteText(r) \/ UpdateCommunityHighlight(r) \/ UpdatePost(r)
  \/ UpdateReport(r) \/ DeleteHighlight(r) \/ FilesDeleted(r) \/ DeleteCommunityHighlight(r)
  \/ DeletePost(r) \/ DeleteReport(r) \/ UploadFails(r) \/ InsertFails(r)

LooksOn(r) ==
  /\ Reads
  /\ \E q : /\ Moves(r, q)
            /\ req[r].op = "erase" => q.op = "erase" /\ q.item = req[r].item
            /\ \/ AddsNothing(q)
               \/ /\ ~ AddsNothing(req[r]) /\ req[r].op = q.op /\ q.item = req[r].item
                  /\ q.left = req[r].left /\ q.urls = req[r].urls /\ q.copy = req[r].copy

LEMMA ReturnLooks ==
  ASSUME SoundConstants, SoundAttached, NEW r \in Requests, Return(r), Reads, req[r].op # "erase"
  PROVE  LooksOn(r)
<1>1. Idle.urls = <<>> /\ Idle.copy = {} /\ AddsNothing(Idle)
  BY DEF Idle, AddsNothing
<1> QED BY <1>1, IdleEdit DEF Return, LooksOn, Moves

LEMMA CreateLooks ==
  ASSUME SoundConstants, SoundAttached, NEW r \in Requests, NEW kind \in Kinds,
         NEW counts \in SUBSET (0..MaxMedias),
         StartCreate(r, kind, counts)
  PROVE  LooksOn(r)
<1>1. PICK u \in Users, n \in counts :
        Begin(r, [Idle EXCEPT !.op = "create", !.pc = IF n = 0 THEN "insert" ELSE "upload",
                              !.user = u, !.kind = kind, !.left = n])
  BY DEF StartCreate
<1> DEFINE q == [Idle EXCEPT !.op = "create", !.pc = IF n = 0 THEN "insert" ELSE "upload",
                             !.user = u, !.kind = kind, !.left = n]
<1>2. n \in 0..MaxMedias /\ n \in Nat
  BY DEF SoundConstants
<1>3. /\ q.op = "create" /\ q.pc = IF n = 0 THEN "insert" ELSE "upload"
      /\ q.user = u /\ q.kind = kind /\ q.left = n /\ q.item = None /\ q.urls = <<>> /\ q.copy = {}
  BY DEF Idle
<1>4. q \in Request
  BY <1>2, IdleEdit DEF Request, Ops, Pcs, Idle
<1>5. Become(r, q) /\ req[r] = Idle /\ Reads
  BY <1>1 DEF Begin, StartCreate
<1> HIDE DEF q
<1>6. Len(q.urls) = 0
  BY <1>3
<1>7. q.pc = "upload" => q.left > 0
  BY <1>2, <1>3
<1>8. SoundEdit(q)
  BY <1>2, <1>3, <1>6, <1>7, FS_EmptySet DEF SoundConstants, SoundEdit
<1>9. AddsNothing(q) /\ req[r].op # "erase"
  BY <1>3, <1>5 DEF AddsNothing, Idle
<1> QED BY <1>3, <1>4, <1>5, <1>8, <1>9 DEF LooksOn, Moves

LEMMA EditLooks ==
  ASSUME SoundConstants, SoundAttached, NEW r \in Requests, NEW op, NEW kind, NEW pc,
         NEW n \in 0..MaxMedias,
         StartEdit(r, op, kind, pc, n),
         \/ op = "append" /\ pc = "medias"
         \/ op = "replace" /\ pc = "upload" /\ n > 0
         \/ op = "rewrite" /\ pc = "rewrite"
         \/ op = "erase" /\ pc = "files"
         \/ op = "delete" /\ pc = "row"
         \/ op = "withdraw" /\ pc = "clear"
  PROVE  LooksOn(r)
<1>0. PICK u \in Users : \E i \in Owned(u, kind) :
        Begin(r, [Idle EXCEPT !.op = op, !.pc = pc, !.user = u, !.item = i, !.left = n,
                              !.copy = IF op \in {"rewrite", "erase"} THEN MediasOf(i) ELSE {}])
  BY DEF StartEdit
<1>1. PICK i \in Owned(u, kind) :
        Begin(r, [Idle EXCEPT !.op = op, !.pc = pc, !.user = u, !.item = i, !.left = n,
                              !.copy = IF op \in {"rewrite", "erase"} THEN MediasOf(i) ELSE {}])
  BY <1>0
<1>2. i \in DOMAIN items /\ i \in ItemId /\ i < nextItem /\ n \in Nat
  BY DEF SoundConstants, SoundAttached, AttachedRows, Owned
<1>3. PICK ms : ms = IF op \in {"rewrite", "erase"} THEN MediasOf(i) ELSE {}
  OBVIOUS
<1>4. ms \subseteq medias /\ ms \subseteq Media /\ \A m \in ms : m.item = i
  BY <1>3 DEF MediasOf, SoundAttached, AttachedRows
<1>11. IsFiniteSet(ms)
  BY <1>4, FS_Subset DEF SoundAttached, AttachedRows
<1> DEFINE q == [Idle EXCEPT !.op = op, !.pc = pc, !.user = u, !.item = i, !.left = n, !.copy = ms]
<1>5. /\ q.op = op /\ q.pc = pc /\ q.user = u /\ q.item = i /\ q.left = n
      /\ q.urls = <<>> /\ q.copy = ms
  BY DEF Idle
<1>6. q \in Request
  BY <1>2, <1>4, IdleEdit DEF Request, Ops, Pcs, Idle
<1>7. Become(r, q) /\ req[r] = Idle /\ Reads
  BY <1>1, <1>3 DEF Begin, StartEdit
<1> HIDE DEF q
<1>8. Len(q.urls) = 0
  BY <1>5
<1>9. SoundEdit(q)
  BY <1>2, <1>4, <1>5, <1>8, <1>11 DEF SoundConstants, SoundEdit
<1>10. AddsNothing(q) /\ req[r].op # "erase"
  BY <1>5, <1>7 DEF AddsNothing, Idle
<1> QED BY <1>4, <1>5, <1>6, <1>7, <1>9, <1>10 DEF LooksOn, Moves

LEMMA GotoMoves ==
  ASSUME SoundConstants, SoundAttached, NEW r \in Requests, NEW pc \in Pcs, Goto(r, pc),
         NEW q, q = [req[r] EXCEPT !.pc = pc],
         \/ req[r].op = "append" /\ pc = "upload" /\ req[r].left > 0
         \/ req[r].op = "erase" /\ pc = "row"
         \/ req[r].op = "replace" /\ pc = "refill"
         \/ req[r].op = "withdraw" /\ pc = "row"
  PROVE  /\ Moves(r, q) /\ q.op = req[r].op /\ q.item = req[r].item /\ q.pc = pc
         /\ q.left = req[r].left /\ q.urls = req[r].urls /\ q.copy = req[r].copy
<1>1. req[r] \in Request /\ SoundEdit(req[r])
  BY DEF SoundAttached
<1>2. /\ q.op = req[r].op /\ q.item = req[r].item /\ q.pc = pc
      /\ q.left = req[r].left /\ q.urls = req[r].urls /\ q.copy = req[r].copy
      /\ q.user = req[r].user /\ q.kind = req[r].kind /\ q \in Request
  BY <1>1 DEF Request
<1>3. SoundEdit(q)
  BY <1>1, <1>2 DEF SoundEdit, Idle
<1>4. Become(r, q)
  BY DEF Goto
<1> QED BY <1>2, <1>3, <1>4 DEF Moves

LEMMA LookLooks ==
  ASSUME SoundConstants, SoundAttached, NEW r \in Requests, Looks(r)
  PROVE  LooksOn(r)
<1>0. req[r] \in Request /\ SoundEdit(req[r]) /\ MaxMedias \in Nat
  BY DEF SoundConstants, SoundAttached
<1>1. CASE \/ "highlight" \in Kinds /\ (CreateHighlight(r) \/ CreateCommunityHighlight(r))
           \/ "post" \in Kinds /\ CreatePost(r)
           \/ "report" \in Kinds /\ CreateReport(r)
  <2>1. 1..MaxMedias \in SUBSET (0..MaxMedias) /\ 0..MaxMedias \in SUBSET (0..MaxMedias)
    BY <1>0
  <2> QED BY <1>1, <2>1, CreateLooks
          DEF CreateHighlight, CreateCommunityHighlight, CreatePost, CreateReport
<1>2. CASE UpdateHighlight(r)
  BY <1>2, EditLooks DEF UpdateHighlight
<1>3. CASE UpdateReport(r)
  <2>1. PICK n \in 1..MaxMedias : StartEdit(r, "replace", "report", "upload", n)
    BY <1>3 DEF UpdateReport
  <2>2. n \in 0..MaxMedias /\ n > 0
    BY <1>0
  <2> QED BY <2>1, <2>2, EditLooks
<1>4. CASE \/ DeleteHighlight(r) \/ DeleteCommunityHighlight(r) \/ DeletePost(r) \/ DeleteReport(r)
           \/ UpdateCommunityHighlight(r) \/ UpdatePost(r)
  <2>1. 0 \in 0..MaxMedias
    BY <1>0
  <2> QED BY <1>4, <2>1, EditLooks
          DEF DeleteHighlight, DeleteCommunityHighlight, DeletePost, DeleteReport,
              UpdateCommunityHighlight, UpdatePost
<1>6. CASE UploadFails(r) \/ InsertFails(r)
  BY <1>0, <1>6, ReturnLooks DEF UploadFails, InsertFails, SoundEdit
<1>7. CASE WriteText(r)
  <2>1. req[r].pc = "text" /\ Reads /\ req[r].op = "append"
    BY <1>0, <1>7 DEF WriteText, SoundEdit, Idle, Request, Ops
  <2>2. CASE Return(r)
    BY <2>1, <2>2, ReturnLooks
  <2>3. CASE req[r].left > 0 /\ Goto(r, "upload")
    <3>1. PICK q : q = [req[r] EXCEPT !.pc = "upload"]
      OBVIOUS
    <3>2. /\ Moves(r, q) /\ q.op = req[r].op /\ q.item = req[r].item
          /\ q.left = req[r].left /\ q.urls = req[r].urls /\ q.copy = req[r].copy
      BY <2>1, <2>3, <3>1, GotoMoves DEF Pcs
    <3>3. ~ AddsNothing(req[r])
      BY <2>1 DEF AddsNothing
    <3> QED BY <2>1, <3>2, <3>3 DEF LooksOn
  <2> QED BY <1>7, <2>2, <2>3 DEF WriteText
<1>8. CASE FilesDeleted(r)
  <2>1. req[r].pc = "files" /\ Goto(r, "row") /\ Reads /\ req[r].op = "erase"
    BY <1>0, <1>8 DEF FilesDeleted, SoundEdit, Idle, Request, Ops
  <2>2. PICK q : q = [req[r] EXCEPT !.pc = "row"]
    OBVIOUS
  <2>3. Moves(r, q) /\ q.op = req[r].op /\ q.item = req[r].item /\ q.pc = "row"
    BY <2>1, <2>2, GotoMoves DEF Pcs
  <2>4. AddsNothing(q)
    BY <2>1, <2>3 DEF AddsNothing
  <2> QED BY <2>1, <2>3, <2>4 DEF LooksOn
<1> QED BY <1>1, <1>2, <1>3, <1>4, <1>6, <1>7, <1>8 DEF Looks
-----------------------------------------------------------------------------
(* Orders and rows *)

\* A finite set of numbers that is not empty has a greatest one: of the sets of what is
\* greater than one of its elements, take one that contains no other.
LEMMA GreatestOfFinite ==
  ASSUME NEW S \in SUBSET Int, IsFiniteSet(S), S # {}
  PROVE  \E x \in S : \A y \in S : x >= y
<1> DEFINE Above(x) == {y \in S : y > x}
           T == {Above(x) : x \in S}
           R == StrictSubsetOrdering(S)
<1>1. IsWellFoundedOn(R, SUBSET S)
  BY FS_StrictSubsetOrderingWellFounded, FS_FiniteSubsetsOfFinite
<1>2. T \subseteq SUBSET S /\ T # {}
  OBVIOUS
<1>3. PICK t \in T : \A u \in T : ~ (<<u, t>> \in R)
  <2> HIDE DEF T, R
  <2> QED BY <1>1, <1>2, WFMin
<1>4. PICK x \in S : t = Above(x)
  OBVIOUS
<1>5. ASSUME NEW y \in S, y > x PROVE FALSE
  <2>1. Above(y) \in T /\ Above(y) \subseteq t /\ y \in t /\ y \notin Above(y)
    BY <1>4, <1>5
  <2>2. <<Above(y), t>> \in R
    BY <1>2, <2>1 DEF StrictSubsetOrdering
  <2> QED BY <1>3, <2>1, <2>2
<1> QED BY <1>5

LEMMA MaxOrderIs ==
  ASSUME NEW ms, IsFiniteSet(ms), \A m \in ms : m.order \in Int
  PROVE  MaxOrder(ms) \in Int /\ \A m \in ms : m.order <= MaxOrder(ms)
<1>1. CASE ms = {}
  BY <1>1 DEF MaxOrder
<1>2. CASE ms # {}
  <2>1. PICK S : S = {m.order : m \in ms}
    OBVIOUS
  <2>2. S \in SUBSET Int /\ S # {}
    BY <1>2, <2>1
  <2>3. IsFiniteSet(S)
    <3>1. PICK f : f = [m \in ms |-> m.order]
      OBVIOUS
    <3>2. f \in Surjection(ms, S)
      BY <2>1, <3>1 DEF Surjection
    <3> QED BY <3>2, FS_Surjection
  <2>4. \E x \in S : \A y \in S : x >= y
    BY <2>2, <2>3, GreatestOfFinite
  <2>5. Max(S) \in S /\ \A y \in S : Max(S) >= y
    BY <2>4 DEF Max
  <2>6. MaxOrder(ms) = Max(S)
    BY <1>2, <2>1 DEF MaxOrder
  <2>7. PICK x : x = Max(S)
    OBVIOUS
  <2>8. x \in Int /\ \A y \in S : x >= y
    BY <2>2, <2>5, <2>7
  <2> QED BY <2>1, <2>2, <2>6, <2>7, <2>8
<1> QED BY <1>1, <1>2

LEMMA RowsAre ==
  ASSUME NEW i \in ItemId, NEW urls \in Seq(File), NEW last \in Int
  PROVE  /\ Rows(i, urls, last) \subseteq Media
         /\ IsFiniteSet(Rows(i, urls, last)) /\ Cardinality(Rows(i, urls, last)) <= Len(urls)
         /\ \A m \in Rows(i, urls, last) :
              /\ m.item = i /\ ~ m.body /\ \E k \in DOMAIN urls : m.url = urls[k]
              /\ last < m.order /\ m.order <= last + Len(urls)
         /\ \A m, n \in Rows(i, urls, last) : m.order = n.order => m = n
<1>1. PICK f : f = [k \in 1..Len(urls) |-> [item |-> i, url |-> urls[k], order |-> last + k, body |-> FALSE]]
  OBVIOUS
<1>2. DOMAIN urls = 1..Len(urls) /\ Len(urls) \in Nat
  OBVIOUS
<1>3. Rows(i, urls, last) = {f[k] : k \in 1..Len(urls)}
  BY <1>1, <1>2 DEF Rows
<1>4. ASSUME NEW k \in 1..Len(urls)
      PROVE  /\ f[k] \in Media /\ f[k].item = i /\ ~ f[k].body /\ f[k].url = urls[k]
             /\ f[k].order = last + k
  <2>1. urls[k] \in Url /\ last + k \in Int
    BY <1>2 DEF Url
  <2> QED BY <1>1, <2>1 DEF Media
<1>5. f \in Surjection(1..Len(urls), Rows(i, urls, last))
  BY <1>1, <1>3 DEF Surjection
<1>6. IsFiniteSet(1..Len(urls)) /\ Cardinality(1..Len(urls)) = Len(urls)
  BY <1>2, FS_Interval
<1>7. IsFiniteSet(Rows(i, urls, last)) /\ Cardinality(Rows(i, urls, last)) <= Len(urls)
  BY <1>5, <1>6, FS_Surjection
<1>8. ASSUME NEW m \in Rows(i, urls, last)
      PROVE  /\ m \in Media /\ m.item = i /\ ~ m.body /\ \E k \in DOMAIN urls : m.url = urls[k]
             /\ last < m.order /\ m.order <= last + Len(urls)
  <2>1. PICK k \in 1..Len(urls) : m = f[k]
    BY <1>3
  <2>2. PICK n : n = Len(urls)
    OBVIOUS
  <2>3. k \in 1..n /\ n \in Nat /\ k \in DOMAIN urls
    BY <1>2, <2>2
  <2>4. last < last + k /\ last + k <= last + n
    BY <2>3
  <2> QED BY <1>4, <2>1, <2>2, <2>3, <2>4
<1>9. ASSUME NEW m \in Rows(i, urls, last), NEW n \in Rows(i, urls, last), m.order = n.order
      PROVE  m = n
  <2>1. PICK k \in 1..Len(urls) : m = f[k]
    BY <1>3
  <2>2. PICK l \in 1..Len(urls) : n = f[l]
    BY <1>3
  <2>3. k = l
    BY <1>2, <1>4, <1>9, <2>1, <2>2
  <2> QED BY <2>1, <2>2, <2>3
<1> QED BY <1>7, <1>8, <1>9
-----------------------------------------------------------------------------
(* Every step keeps what the rows show *)

LEMMA GoingStays ==
  ASSUME SoundConstants, SoundAttached, NEW r \in Requests, NEW q, Become(r, q), torn' = torn,
         DOMAIN items' \subseteq DOMAIN items \union {nextItem},
         req[r].op = "erase" => \/ q.op = "erase" /\ q.item = req[r].item
                                \/ req[r].item \notin DOMAIN items'
  PROVE  \A i \in ItemId : i < nextItem /\ Going(i) => Going(i)'
<1> SUFFICES ASSUME NEW i \in ItemId, i < nextItem, Going(i) PROVE Going(i)'
  OBVIOUS
<1>1. CASE i \notin DOMAIN items \/ i \in torn
  BY <1>1 DEF Going, ItemId
<1>2. ASSUME NEW s \in Requests, req[s].op = "erase", req[s].item = i PROVE Going(i)'
  <2>1. CASE s # r
    BY <1>2, <2>1, EditUpdate DEF Going
  <2>2. CASE s = r
    BY <1>2, <2>2, EditUpdate DEF Going
  <2> QED BY <2>1, <2>2
<1> QED BY <1>1, <1>2 DEF Going

\* A step that makes no row of a kept file, url or file.
LEMMA MovesOK ==
  ASSUME SoundConstants, AttachedOK, NEW r \in Requests, NEW q, Moves(r, q),
         AttachedRows', nextItem' = nextItem, files' = files, nextFile' = nextFile, torn' = torn,
         strayed \subseteq strayed',
         DOMAIN items' \subseteq DOMAIN items,
         \A m \in medias' :
           \/ \E n \in medias \union req[r].copy : n.url = m.url /\ (n.item = m.item \/ m.item = None)
           \/ m.url < nextFile /\ m.url \notin Kept',
         req[r].op = "erase" => \/ q.op = "erase" /\ q.item = req[r].item
                                \/ req[r].item \notin DOMAIN items'
  PROVE  AttachedOK'
<1>1. nextItem' >= nextItem
  BY DEF SoundConstants, AttachedOK, SoundAttached, AttachedRows
<1>2. SoundAttached'
  BY <1>1, EditSound DEF AttachedOK, Moves
<1>3. medias \union req[r].copy \subseteq Seen
  BY SeenIs
<1>4. ASSUME NEW m \in Seen'
      PROVE  \/ \E n \in Seen : n.url = m.url /\ (n.item = m.item \/ m.item = None)
             \/ m.url < nextFile /\ m.url \notin Kept'
  <2>1. CASE m \in medias'
    BY <1>3, <2>1
  <2>2. CASE m \in q.copy
    BY <1>3, <2>2 DEF Moves
  <2>3. ASSUME NEW s \in Requests, s # r, m \in req[s].copy PROVE m \in Seen
    BY <2>3, SeenIs
  <2>4. ASSUME NEW s \in Requests, m \in req'[s].copy PROVE m \in q.copy \/ m \in Seen
    <3>1. CASE s = r
      BY <2>4, <3>1, EditUpdate DEF AttachedOK, Moves
    <3>2. CASE s # r
      BY <2>3, <2>4, <3>2, EditUpdate DEF AttachedOK, Moves
    <3> QED BY <3>1, <3>2
  <2>5. m \in medias' \/ \E s \in Requests : m \in req'[s].copy
    BY DEF Seen
  <2> QED BY <2>1, <2>2, <2>4, <2>5
<1>5. ASSUME NEW s \in Requests PROVE req'[s].urls \in {<<>>, req[s].urls}
  BY EditUpdate DEF AttachedOK, Moves
<1>6. \A i \in ItemId : i < nextItem /\ Going(i) => Going(i)'
  BY GoingStays DEF AttachedOK, Moves
<1>7. \A n \in Seen : n.url < nextFile
  BY DEF AttachedOK, FilesThere
<1> QED BY <1>2, <1>4, <1>5, <1>6, <1>7, NothingNew

LEMMA LooksOK == ASSUME SoundConstants, AttachedOK, NEW r \in Requests, LooksOn(r) PROVE AttachedOK'
<1>1. PICK q : Moves(r, q) /\ (req[r].op = "erase" => q.op = "erase" /\ q.item = req[r].item)
  BY DEF LooksOn
<1>2. UNCHANGED <<items, medias, nextItem, files, nextFile, torn, strayed>>
  BY DEF ghosts, LooksOn, Reads, rows
<1>3. AttachedRows'
  BY <1>2 DEF AttachedOK, SoundAttached, AttachedRows
<1> QED BY <1>1, <1>2, <1>3, MovesOK

\* Reading the medias that the new ones are counted with.
LEMMA CountMoves ==
  ASSUME SoundConstants, SoundAttached, NEW r \in Requests, ReadMedias(r), ~ Return(r)
  PROVE  \E q : /\ Moves(r, q) /\ q.item = req[r].item /\ q.urls = <<>> /\ q.op = "append"
                /\ q.left = req[r].left /\ q.copy = MediasOf(q.item) /\ q.pc = "text"
                /\ WithinLimit(Cardinality(MediasOf(q.item)), q.left)
<1>p. PICK p : p = req[r]
  OBVIOUS
<1>q. p \in Request /\ SoundEdit(p) /\ p.pc = "medias" /\ p.op = "append"
  BY <1>p DEF SoundAttached, ReadMedias, SoundEdit, Idle, Request, Ops
<1>1. PICK ms : ms = MediasOf(p.item)
  OBVIOUS
<1>2. ms \subseteq medias /\ ms \subseteq Media /\ \A m \in ms : m.item = p.item
  BY <1>1 DEF MediasOf, SoundAttached, AttachedRows
<1>7. IsFiniteSet(ms)
  BY <1>2, FS_Subset DEF SoundAttached, AttachedRows
<1> DEFINE q == [p EXCEPT !.copy = ms, !.pc = "text"]
<1>3. /\ q.item = p.item /\ q.urls = p.urls /\ q.op = p.op /\ q.left = p.left /\ q.copy = ms
      /\ q.pc = "text" /\ q.user = p.user /\ q.kind = p.kind /\ q \in Request
  BY <1>q, <1>2 DEF Request, Pcs
<1>4. Become(r, q) /\ WithinLimit(Cardinality(MediasOf(p.item)), p.left)
  BY <1>p, <1>1 DEF ReadMedias
<1> HIDE DEF q
<1>5. SoundEdit(q) /\ q.urls = <<>>
  BY <1>q, <1>2, <1>3, <1>7 DEF SoundEdit
<1>6. Moves(r, q)
  BY <1>2, <1>3, <1>4, <1>5 DEF Moves
<1> QED BY <1>p, <1>q, <1>1, <1>3, <1>4, <1>5, <1>6

LEMMA ReturnMoves ==
  ASSUME SoundConstants, NEW r, Return(r)
  PROVE  Moves(r, Idle) /\ AddsNothing(Idle)
<1>1. Idle.urls = <<>> /\ Idle.copy = {} /\ AddsNothing(Idle)
  BY DEF Idle, AddsNothing
<1> QED BY <1>1, IdleEdit DEF Return, Moves

LEMMA CountOK ==
  ASSUME SoundConstants, AttachedOK, NEW r \in Requests, ReadMedias(r)
  PROVE  AttachedOK'
<1>1. UNCHANGED <<items, medias, nextItem, files, nextFile, torn, strayed>>
  BY DEF ghosts, ReadMedias, Reads, rows
<1>2. AttachedRows' /\ req[r].op # "erase"
  BY <1>1 DEF AttachedOK, SoundAttached, AttachedRows, SoundEdit, ReadMedias
<1>3. PICK q : Moves(r, q)
  BY CountMoves, ReturnMoves DEF AttachedOK
<1> QED BY <1>1, <1>2, <1>3, MovesOK

\* A body gives finitely many rows.
LEMMA GivenFinite ==
  ASSUME SoundConstants, SoundAttached, NEW i
  PROVE  IsFiniteSet(Given(i))
<1>1. PICK U, O : U = Urls \intersect (0..nextFile - 1) /\ O = Orders
  OBVIOUS
<1>2. IsFiniteSet(U)
  <2>1. nextFile - 1 \in Int
    BY DEF SoundConstants, SoundAttached, AttachedRows
  <2>2. IsFiniteSet(0..nextFile - 1)
    BY <2>1, FS_Interval
  <2> QED BY <1>1, <2>2, FS_Subset
<1>3. IsFiniteSet(U \X O)
  BY <1>1, <1>2, FS_Product DEF SoundConstants
<1>4. PICK f : f = [x \in U \X O |-> [item |-> i, url |-> x[1], order |-> x[2], body |-> TRUE]]
  OBVIOUS
<1>5. ASSUME NEW m \in Given(i) PROVE \E x \in U \X O : f[x] = m
  <2>1. /\ m = [item |-> m.item, url |-> m.url, order |-> m.order, body |-> m.body]
        /\ m.item = i /\ m.url \in U /\ m.order \in O /\ m.body = TRUE
    BY <1>1 DEF Given
  <2>2. <<m.url, m.order>> \in U \X O
    BY <2>1
  <2> QED BY <1>4, <2>1, <2>2
<1>6. \A x \in U \X O : f[x] \in Given(i)
  BY <1>1, <1>4 DEF Given
<1>7. f \in Surjection(U \X O, Given(i))
  BY <1>4, <1>5, <1>6 DEF Surjection
<1> QED BY <1>3, <1>7, FS_Surjection

\* What a body gives is a row of the item; the file it names has been shown by the item, or
\* is not kept any more.
LEMMA RewriteGives ==
  ASSUME SoundConstants, SoundAttached, NEW r \in Requests, Rewrite(r)
  PROVE  \E ms : /\ medias' \subseteq medias \union ms /\ IsFiniteSet(ms) /\ strayed \subseteq strayed'
                 /\ strayed' \subseteq File
                 /\ \A m \in ms :
                      /\ m \in Media /\ m.body /\ m.item = req[r].item /\ m.item \in DOMAIN items
                      /\ m.url < nextFile
                      /\ m.url \in Kept' => \E n \in req[r].copy : n.url = m.url /\ n.item = m.item
<1>p. PICK p : p = req[r]
  OBVIOUS
<1>1. p \in Request /\ SoundEdit(p) /\ p.op = "rewrite" /\ AttachedRows
  BY <1>p DEF SoundAttached, Rewrite, SoundEdit, Request, Ops, Idle
<1>2. CASE p.item \notin DOMAIN items
  BY <1>p, <1>1, <1>2, FS_EmptySet DEF Rewrite, AttachedRows
<1>3. CASE p.item \in DOMAIN items
  <2>1. PICK ms \in SUBSET Given(p.item) :
          /\ medias' = (medias \ MediasOf(p.item)) \union ms
          /\ strayed' = strayed \union ((UrlsOf(ms) \intersect File) \ UrlsOf(p.copy))
    BY <1>p, <1>3 DEF Rewrite
  <2>2. IsFiniteSet(ms)
    BY GivenFinite, FS_Subset
  <2>3. ASSUME NEW m \in ms
        PROVE  /\ m \in Media /\ m.body /\ m.item = p.item /\ m.url < nextFile
               /\ m.url \in Kept' => \E n \in p.copy : n.url = m.url /\ n.item = m.item
    <3>1. /\ m \in [item: {p.item}, url: Urls \intersect (0..nextFile - 1), order: Orders, body: {TRUE}]
          /\ nextFile \in 1..MaxFile + 1 /\ MaxFile \in Nat /\ p.item \in ItemId /\ Orders \subseteq Int
      BY <1>1, <1>3 DEF Given, SoundConstants, AttachedRows
    <3>2. m.url \in 0..nextFile - 1
      BY <3>1
    <3>3. m.url \in Url /\ m.url < nextFile
      BY <3>1, <3>2 DEF Url, File
    <3>4. m \in Media /\ m.body /\ m.item = p.item
      BY <3>1, <3>3 DEF Media
    <3>5. ASSUME m.url \in Kept' PROVE \E n \in p.copy : n.url = m.url /\ n.item = m.item
      <4>1. m.url \in UrlsOf(ms) /\ m.url \in File /\ m.url \notin strayed'
        BY <3>5 DEF Kept, UrlsOf
      <4>2. m.url \in UrlsOf(p.copy)
        BY <2>1, <4>1
      <4> QED BY <1>1, <3>4, <4>2 DEF UrlsOf, SoundEdit
    <3> QED BY <3>3, <3>4, <3>5
  <2>4. strayed \subseteq strayed' /\ strayed' \subseteq File
    BY <1>1, <2>1 DEF AttachedRows
  <2> QED BY <1>p, <1>3, <2>1, <2>2, <2>3, <2>4
<1> QED BY <1>2, <1>3

\* Rows are replaced by those of a body.
LEMMA RewriteOK ==
  ASSUME SoundConstants, AttachedOK, NEW r \in Requests, Rewrite(r)
  PROVE  AttachedOK'
<1>1. UNCHANGED <<items, nextItem, files, nextFile, torn>> /\ req[r].pc = "rewrite" /\ Return(r)
  BY DEF Rewrite
<1>2. req[r] \in Request /\ SoundEdit(req[r]) /\ AttachedRows /\ SoundAttached
  BY DEF AttachedOK, SoundAttached
<1>3. req[r].op # "erase"
  BY <1>1, <1>2 DEF SoundEdit
<1>4. PICK ms : /\ medias' \subseteq medias \union ms /\ IsFiniteSet(ms) /\ strayed \subseteq strayed'
                /\ strayed' \subseteq File
                /\ \A m \in ms :
                     /\ m \in Media /\ m.body /\ m.item = req[r].item /\ m.item \in DOMAIN items
                     /\ m.url < nextFile
                     /\ m.url \in Kept' => \E n \in req[r].copy : n.url = m.url /\ n.item = m.item
  BY <1>2, RewriteGives
<1>5. IsFiniteSet(medias')
  BY <1>2, <1>4, FS_Union, FS_Subset DEF AttachedRows
<1>6. AttachedRows'
  BY <1>1, <1>2, <1>4, <1>5 DEF AttachedRows
<1>7. \A m \in medias' :
        \/ \E n \in medias \union req[r].copy : n.url = m.url /\ (n.item = m.item \/ m.item = None)
        \/ m.url < nextFile /\ m.url \notin Kept'
  BY <1>4
<1> QED BY <1>1, <1>3, <1>4, <1>6, <1>7, ReturnMoves, MovesOK

\* Medias go, or lose their item, and the item may go with them.
LEMMA RemovedRows ==
  ASSUME SoundConstants, SoundAttached,
         NEW D, items' = [j \in D |-> items[j]], D \subseteq DOMAIN items,
         medias' \subseteq Media, IsFiniteSet(medias'),
         \A m \in medias' : m.item # None => m \in medias /\ m.item \in D,
         UNCHANGED <<nextItem, files, nextFile, torn, strayed>>
  PROVE  AttachedRows' /\ DOMAIN items' = D
BY DEF SoundAttached, AttachedRows

LEMMA ClearOK == ASSUME SoundConstants, AttachedOK, NEW r \in Requests, Clear(r) PROVE AttachedOK'
<1>1. UNCHANGED <<items, nextItem, files, nextFile, torn, strayed>> /\ medias' \subseteq medias
  BY DEF Clear, ghosts
<1>2. req[r] \in Request /\ SoundEdit(req[r]) /\ AttachedRows
  BY DEF AttachedOK, SoundAttached
<1>3. req[r].op \in {"replace", "withdraw"}
  BY <1>2 DEF SoundEdit, Request, Ops, Clear, Idle
<1>4. AttachedRows'
  BY <1>1, <1>2, FS_Subset DEF AttachedRows
<1>5. PICK pc \in Pcs : Goto(r, pc) /\ pc = IF req[r].op = "replace" THEN "refill" ELSE "row"
  BY DEF Clear, Pcs
<1>6. PICK q : q = [req[r] EXCEPT !.pc = pc]
  OBVIOUS
<1>7. Moves(r, q)
  BY <1>3, <1>5, <1>6, GotoMoves DEF AttachedOK
<1> QED BY <1>1, <1>3, <1>4, <1>7, MovesOK

LEMMA DeleteRowOK ==
  ASSUME SoundConstants, AttachedOK, NEW r \in Requests, DeleteRow(r) \/ Withdraw(r) \/ EraseRow(r)
  PROVE  AttachedOK'
<1>p. PICK i : i = req[r].item
  OBVIOUS
<1>1. AttachedRows /\ SoundAttached
  BY DEF AttachedOK, SoundAttached
<1>2. /\ UNCHANGED <<nextItem, files, nextFile, torn, strayed>> /\ Return(r)
      /\ Deleted(i) \/ (UNCHANGED items /\ ~ EraseRow(r))
  BY <1>p DEF ghosts, DeleteRow, Withdraw, EraseRow
<1>3. ASSUME NEW m \in medias'
      PROVE  /\ m \in Media /\ \E n \in medias : n.url = m.url /\ (n.item = m.item \/ m.item = None)
             /\ m.item # None => m \in medias /\ (Deleted(i) => m.item # i)
  <2>1. CASE DeleteRow(r)
    BY <1>p, <1>1, <2>1 DEF DeleteRow, MediasOf, AttachedRows
  <2>2. CASE Withdraw(r)
    <3>1. m \in medias /\ m \in Media
      BY <1>1, <2>2 DEF Withdraw, AttachedRows
    <3>2. CASE MediasOf(i) = {}
      BY <3>1, <3>2 DEF MediasOf
    <3>3. CASE MediasOf(i) # {}
      <4>1. items' = items /\ \E n \in medias : n.item = i
        BY <1>p, <2>2, <3>3 DEF Withdraw, MediasOf
      <4>2. CASE i = None
        BY <3>1, <4>2
      <4>3. CASE i # None
        <5>1. i \in DOMAIN items
          BY <1>1, <4>1, <4>3 DEF AttachedRows
        <5>2. ~ Deleted(i)
          BY <4>1, <5>1 DEF Deleted
        <5> QED BY <3>1, <5>2
      <4> QED BY <4>2, <4>3
    <3> QED BY <3>2, <3>3
  <2>3. CASE EraseRow(r)
    <3>1. PICK n \in medias : m = IF n.item = i THEN [n EXCEPT !.item = None] ELSE n
      BY <1>p, <2>3 DEF EraseRow, Detached
    <3>2. n \in Media
      BY <1>1 DEF AttachedRows
    <3>3. CASE n.item = i
      <4>1. m \in Media /\ m.item = None /\ m.url = n.url
        BY <3>1, <3>2, <3>3 DEF Media
      <4> QED BY <4>1
    <3>4. CASE n.item # i
      BY <3>1, <3>2, <3>4
    <3> QED BY <3>3, <3>4
  <2> QED BY <2>1, <2>2, <2>3
<1>4. IsFiniteSet(medias')
  <2>1. CASE medias' \subseteq medias
    BY <1>1, <2>1, FS_Subset DEF AttachedRows
  <2>2. CASE EraseRow(r)
    <3>1. PICK f : f = [m \in medias |-> IF m.item = i THEN [m EXCEPT !.item = None] ELSE m]
      OBVIOUS
    <3>2. f \in Surjection(medias, medias')
      BY <1>p, <2>2, <3>1 DEF Surjection, EraseRow, Detached
    <3> QED BY <1>1, <3>2, FS_Surjection DEF AttachedRows
  <2> QED BY <2>1, <2>2 DEF DeleteRow, Withdraw
<1>5. AttachedRows' /\ DOMAIN items' \subseteq DOMAIN items /\ (Deleted(i) => i \notin DOMAIN items')
  <2>1. CASE Deleted(i)
    <3>1. \A m \in medias' : m.item # None => m \in medias /\ m.item \in DOMAIN items \ {i}
      BY <1>1, <1>3, <2>1 DEF AttachedRows
    <3>2. AttachedRows' /\ DOMAIN items' = DOMAIN items \ {i}
      BY <1>1, <1>2, <1>3, <1>4, <2>1, <3>1, RemovedRows DEF Deleted
    <3> QED BY <3>2
  <2>2. CASE UNCHANGED items /\ ~ Deleted(i)
    <3>1. \A m \in medias' : m.item # None => m \in medias /\ m.item \in DOMAIN items
      BY <1>1, <1>3 DEF AttachedRows
    <3>2. AttachedRows'
      BY <1>1, <1>2, <1>3, <1>4, <2>2, <3>1 DEF AttachedRows
    <3> QED BY <2>2, <3>2
  <2> QED BY <1>2, <2>1, <2>2
<1>6. req[r].op = "erase" => req[r].item \notin DOMAIN items'
  BY <1>p, <1>2, <1>5 DEF DeleteRow, Withdraw, EraseRow, At
<1> QED BY <1>2, <1>3, <1>5, <1>6, ReturnMoves, MovesOK

\* Rows for what a request has uploaded, of one item.
LEMMA NewRowsOK ==
  ASSUME SoundConstants, AttachedOK,
         NEW r \in Requests, Return(r), AttachedRows', nextItem' >= nextItem,
         UNCHANGED <<files, nextFile, torn, strayed>>, req[r].op # "erase",
         DOMAIN items' \subseteq DOMAIN items \union {nextItem},
         NEW new, medias' \subseteq medias \union new, NEW i,
         \A m \in new : m.item = i /\ \E k \in DOMAIN req[r].urls : m.url = req[r].urls[k]
  PROVE  AttachedOK'
<1>1. SoundAttached'
  BY IdleEdit, EditSound DEF AttachedOK, Return
<1>2. /\ Idle.copy = {} /\ Idle.urls = <<>> /\ DOMAIN <<>> = {} /\ req'[r] = Idle
      /\ \A s \in Requests : s # r => req'[s] = req[s]
  BY EditUpdate DEF Idle, AttachedOK, Return
<1>3. ASSUME NEW m \in Seen' PROVE m \in Seen \/ m \in new
  <2>1. m \in medias' \/ \E s \in Requests : m \in req'[s].copy
    BY DEF Seen
  <2> QED BY <1>2, <2>1, SeenIs
<1>12. Kept' = Kept
  BY DEF Kept
<1>4. ASSUME NEW m \in new
      PROVE  /\ m.item = i /\ m.url < nextFile
             /\ m.url \in Kept => m.url \in files /\ \A n \in Seen : n.url # m.url
  BY DEF AttachedOK, OwnUrls
<1>5. OneItem'
  BY <1>3, <1>4, <1>12 DEF AttachedOK, OneItem
<1>6. \A j \in ItemId : j < nextItem /\ Going(j) => Going(j)'
  BY GoingStays DEF AttachedOK, Return
<1>7. ASSUME NEW m \in Seen'
      PROVE  /\ m.url < nextFile'
             /\ m.item # None /\ m.url \in Kept' /\ m.url \notin files' => Going(m.item)'
  <2>1. CASE m \in new
    BY <1>4, <1>12, <2>1
  <2>2. CASE m \in Seen
    <3>1. m.item # None => m.item \in ItemId /\ m.item < nextItem
      BY <2>2, SeenItems DEF AttachedOK
    <3> QED BY <1>6, <1>12, <2>2, <3>1 DEF AttachedOK, FilesThere
  <2> QED BY <1>3, <2>1, <2>2
<1>8. FilesThere'
  BY <1>7 DEF FilesThere
<1>9. ASSUME NEW s \in Requests, NEW k \in DOMAIN req'[s].urls
      PROVE  s # r /\ k \in DOMAIN req[s].urls /\ req'[s].urls[k] = req[s].urls[k]
  BY <1>2
<1>10. ASSUME NEW s \in Requests, NEW k \in DOMAIN req'[s].urls
       PROVE  /\ req'[s].urls[k] < nextFile'
              /\ req'[s].urls[k] \in Kept' =>
                   req'[s].urls[k] \in files' /\ \A m \in Seen' : m.url # req'[s].urls[k]
              /\ \A t \in Requests : \A l \in DOMAIN req'[t].urls :
                   req'[t].urls[l] = req'[s].urls[k] => t = s
  <2>1. PICK u : u = req[s].urls[k]
    OBVIOUS
  <2>2. /\ s # r /\ k \in DOMAIN req[s].urls /\ req'[s].urls[k] = u /\ u < nextFile
        /\ u \in Kept => u \in files /\ \A m \in Seen : m.url # u
    BY <1>9, <2>1 DEF AttachedOK, OwnUrls
  <2>3. \A t \in Requests : \A l \in DOMAIN req[t].urls : req[t].urls[l] = u => t = s
    BY <2>1, <2>2 DEF AttachedOK, OwnUrls
  <2>4. \A m \in new : m.url # u
    BY <2>2, <2>3
  <2>5. u \in Kept => \A m \in Seen' : m.url # u
    BY <1>3, <2>2, <2>4
  <2>6. \A t \in Requests : \A l \in DOMAIN req'[t].urls : req'[t].urls[l] = u => t = s
    BY <1>9, <2>3
  <2> QED BY <1>12, <2>2, <2>5, <2>6
<1>11. OwnUrls'
  BY <1>10 DEF OwnUrls
<1> QED BY <1>1, <1>5, <1>8, <1>11 DEF AttachedOK
-----------------------------------------------------------------------------
LEMMA InsertOK == ASSUME SoundConstants, AttachedOK, NEW r \in Requests, Insert(r) PROVE AttachedOK'
<1>p. PICK p : p = req[r]
  OBVIOUS
<1>i. PICK i : i = nextItem
  OBVIOUS
<1>1. AttachedRows /\ p \in Request /\ SoundEdit(p) /\ p.pc = "insert" /\ i \in ItemId /\ i \in Nat
  BY <1>p, <1>i DEF SoundConstants, AttachedOK, SoundAttached, AttachedRows, Insert, ItemId
<1>2. p.op = "create" /\ p.kind \in Kinds /\ p.user \in Users /\ p.urls \in Seq(File)
  BY <1>1 DEF SoundEdit, Request, Ops, Idle
<1>3. PICK new : new = Rows(i, p.urls, -1)
  OBVIOUS
<1>4. /\ new \subseteq Media /\ IsFiniteSet(new)
      /\ \A m \in new : m.item = i /\ \E k \in DOMAIN p.urls : m.url = p.urls[k]
  BY <1>1, <1>2, <1>3, RowsAre
<1>5. /\ items' = [j \in DOMAIN items \union {i} |->
                     IF j = i THEN [kind |-> p.kind, owner |-> p.user] ELSE items[j]]
      /\ medias' = medias \union new /\ nextItem' = i + 1 /\ Return(r)
      /\ UNCHANGED <<files, nextFile, torn, strayed>>
  BY <1>p, <1>i, <1>3 DEF Insert, ghosts
<1>6. DOMAIN items' = DOMAIN items \union {i} /\ \A j \in DOMAIN items' : items'[j] \in Item /\ j < nextItem'
  <2>1. [kind |-> p.kind, owner |-> p.user] \in Item
    BY <1>2 DEF Item
  <2>2. \A j \in DOMAIN items : j \in ItemId /\ items[j] \in Item /\ j < i
    BY <1>1, <1>i DEF AttachedRows
  <2> QED BY <1>1, <1>5, <2>1, <2>2 DEF ItemId
<1>7. IsFiniteSet(medias')
  BY <1>1, <1>4, <1>5, FS_Union DEF AttachedRows
<1>8. nextItem' \in 1..MaxItem + 1 /\ nextItem' >= nextItem
  BY <1>1, <1>5, <1>i DEF SoundConstants, ItemId
<1>9. AttachedRows'
  <2>1. DOMAIN items' \subseteq ItemId /\ medias' \subseteq Media
    BY <1>1, <1>4, <1>5, <1>6 DEF AttachedRows
  <2>2. \A m \in medias' : m.item # None => m.item \in DOMAIN items'
    BY <1>1, <1>4, <1>5, <1>6 DEF AttachedRows
  <2>3. files' \subseteq File /\ (\A f \in files' : f < nextFile') /\ nextFile' \in 1..MaxFile + 1
        /\ torn' \subseteq ItemId /\ strayed' \subseteq File
    BY <1>1, <1>5 DEF AttachedRows
  <2> QED BY <1>6, <1>7, <1>8, <2>1, <2>2, <2>3 DEF AttachedRows
<1>10. req[r].op # "erase"
  BY <1>p, <1>2
<1>11. /\ DOMAIN items' \subseteq DOMAIN items \union {nextItem} /\ medias' \subseteq medias \union new
       /\ \A m \in new : m.item = i /\ \E k \in DOMAIN req[r].urls : m.url = req[r].urls[k]
  BY <1>4, <1>5, <1>6, <1>i, <1>p
<1> QED BY <1>5, <1>8, <1>9, <1>10, <1>11, NewRowsOK

\* Rows of a request's files are added to the item it edits, if it is there.
LEMMA AddRowsOK ==
  ASSUME SoundConstants, AttachedOK, NEW r \in Requests, NEW last \in Int,
         req[r].op \in {"append", "replace"},
         InsertMedias(req[r].item, Rows(req[r].item, req[r].urls, last)), Return(r),
         UNCHANGED <<items, nextItem, files, nextFile, torn, strayed>>
  PROVE  AttachedOK'
<1>p. PICK p : p = req[r]
  OBVIOUS
<1>1. AttachedRows /\ p \in Request /\ SoundEdit(p) /\ p.op \in {"append", "replace"}
  BY <1>p DEF AttachedOK, SoundAttached
<1>2. p.item \in ItemId /\ p.urls \in Seq(File)
  BY <1>1 DEF SoundEdit, Request
<1>3. PICK new : new = IF p.item \in DOMAIN items THEN Rows(p.item, p.urls, last) ELSE {}
  OBVIOUS
<1>4. /\ new \subseteq Media /\ IsFiniteSet(new)
      /\ \A m \in new : /\ m.item = p.item /\ \E k \in DOMAIN p.urls : m.url = p.urls[k]
                        /\ p.item \in DOMAIN items
  BY <1>2, <1>3, RowsAre, FS_EmptySet
<1>5. medias' = medias \union new
  BY <1>p, <1>3 DEF InsertMedias
<1>6. IsFiniteSet(medias')
  BY <1>1, <1>4, <1>5, FS_Union DEF AttachedRows
<1>7. AttachedRows'
  BY <1>1, <1>4, <1>5, <1>6 DEF AttachedRows
<1>8. nextItem' >= nextItem /\ req[r].op # "erase"
  BY <1>1, <1>p DEF SoundConstants, AttachedRows
<1>9. DOMAIN items' \subseteq DOMAIN items \union {nextItem} /\ medias' \subseteq medias \union new
  BY <1>5
<1>10. \A m \in new : m.item = p.item /\ \E k \in DOMAIN req[r].urls : m.url = req[r].urls[k]
  BY <1>4, <1>p
<1> QED BY <1>7, <1>8, <1>9, <1>10, NewRowsOK

\* The request that adds to an item after having read, or cleared, its medias.
LEMMA AddsAre ==
  ASSUME SoundConstants, SoundAttached, NEW r \in Requests, AppendMedias(r) \/ Refill(r)
  PROVE  /\ AppendMedias(r) => req[r].op = "append" /\ req[r].pc = "append"
         /\ Refill(r) => req[r].op = "replace" /\ req[r].pc = "refill"
         /\ MaxOrder(req[r].copy) \in Int
         /\ \A m \in req[r].copy : m.order <= MaxOrder(req[r].copy)
<1>p. PICK p : p = req[r]
  OBVIOUS
<1>1. p \in Request /\ SoundEdit(p) /\ p.pc \in {"append", "refill"}
  BY <1>p DEF SoundAttached, AppendMedias, Refill
<1>2. PICK c : c = p.copy
  OBVIOUS
<1>3. IsFiniteSet(c) /\ \A m \in c : m.order \in Int
  BY <1>1, <1>2 DEF SoundEdit, Request, Media
<1>4. MaxOrder(c) \in Int /\ \A m \in c : m.order <= MaxOrder(c)
  BY <1>3, MaxOrderIs
<1>5. (p.pc = "append" => p.op = "append") /\ (p.pc = "refill" => p.op = "replace")
  <2>1. p.op \in Ops /\ p.op # "idle" /\ p.op \notin {"erase", "delete", "rewrite", "withdraw"}
    BY <1>1 DEF SoundEdit, Request, Idle
  <2>2. p.op = "create" \/ p.op = "append" \/ p.op = "replace"
    BY <2>1 DEF Ops
  <2> QED BY <1>1, <2>2 DEF SoundEdit
<1> QED BY <1>p, <1>2, <1>4, <1>5 DEF AppendMedias, Refill

LEMMA AppendOK ==
  ASSUME SoundConstants, AttachedOK,
         NEW r \in Requests, AppendMedias(r) \/ Refill(r) PROVE AttachedOK'
<1>1. SoundAttached
  BY DEF AttachedOK
<1>2. CASE AppendMedias(r)
  <2>1. PICK last \in Int : last = MaxOrder(req[r].copy) /\ req[r].op = "append"
    BY <1>1, <1>2, AddsAre
  <2>2. /\ InsertMedias(req[r].item, Rows(req[r].item, req[r].urls, last)) /\ Return(r)
        /\ UNCHANGED <<items, nextItem, files, nextFile, torn, strayed>>
    BY <1>2, <2>1 DEF ghosts, AppendMedias
  <2> QED BY <2>1, <2>2, AddRowsOK
<1>3. CASE Refill(r)
  <2>1. PICK last \in Int : last = -1 /\ req[r].op = "replace"
    BY <1>1, <1>3, AddsAre
  <2>2. /\ InsertMedias(req[r].item, Rows(req[r].item, req[r].urls, last)) /\ Return(r)
        /\ UNCHANGED <<items, nextItem, files, nextFile, torn, strayed>>
    BY <1>3, <2>1 DEF ghosts, Refill
  <2> QED BY <2>1, <2>2, AddRowsOK
<1> QED BY <1>2, <1>3

\* The next file is nobody's yet.
LEMMA UploadMoves ==
  ASSUME SoundConstants, SoundAttached, NEW r \in Requests, Upload(r)
  PROVE  \E q \in Request :
           /\ Become(r, q) /\ SoundEdit(q) /\ q.op = req[r].op /\ q.item = req[r].item
           /\ q.copy = req[r].copy /\ req[r].left \in Nat /\ req[r].left > 0
           /\ req[r].urls \in Seq(File) /\ q.urls = Append(req[r].urls, nextFile)
           /\ q.left = req[r].left - 1
           /\ q.pc \in {"upload", "insert", "append", "clear"}
<1>p. PICK p : p = req[r]
  OBVIOUS
<1>1. p \in Request /\ SoundEdit(p) /\ p.pc = "upload" /\ p.op \in {"create", "append", "replace"}
  BY <1>p DEF SoundAttached, Upload, SoundEdit, Idle, Request, Ops
<1>2. PICK f : f = nextFile
  OBVIOUS
<1>3. f \in File /\ p.left \in Nat /\ p.left > 0 /\ p.left <= MaxMedias /\ p.urls \in Seq(File)
      /\ MaxMedias \in Nat
  BY <1>1, <1>2 DEF SoundConstants, SoundAttached, AttachedRows, Upload, File, SoundEdit, Request
<1>4. PICK pc : pc = IF p.left = 1 THEN AfterUpload(p.op) ELSE p.pc
  OBVIOUS
<1>5. pc = IF p.left # 1 THEN "upload" ELSE
             IF p.op = "create" THEN "insert" ELSE IF p.op = "append" THEN "append" ELSE "clear"
  BY <1>1, <1>4 DEF AfterUpload
<1>6. PICK urls \in Seq(File) : urls = Append(p.urls, f) /\ Len(urls) = Len(p.urls) + 1
  <2>1. ASSUME NEW F, NEW s \in Seq(F), NEW e \in F
        PROVE  Append(s, e) \in Seq(F) /\ Len(Append(s, e)) = Len(s) + 1
    OBVIOUS
  <2> QED BY <1>3, <2>1
<1> DEFINE q == [p EXCEPT !.left = @ - 1, !.urls = urls, !.pc = pc]
<1>7. /\ q.op = p.op /\ q.item = p.item /\ q.copy = p.copy /\ q.user = p.user /\ q.kind = p.kind
      /\ q.left = p.left - 1 /\ q.urls = urls /\ q.pc = pc
  BY <1>1 DEF Request
<1>8. q \in Request
  <2>1. pc \in Pcs
    BY <1>5 DEF Pcs
  <2>2. p.left - 1 \in 0..MaxMedias
    BY <1>3
  <2> QED BY <1>1, <1>6, <2>1, <2>2 DEF Request
<1>9. Become(r, q)
  BY <1>p, <1>2, <1>4, <1>6 DEF Upload
<1> HIDE DEF q
<1>10. /\ p.left + Len(p.urls) <= MaxMedias /\ Len(p.urls) \in Nat
       /\ q.left + Len(q.urls) = p.left + Len(p.urls)
  <2>1. Len(p.urls) \in Nat /\ p.left + Len(p.urls) <= MaxMedias
    BY <1>1, <1>3 DEF SoundEdit
  <2>2. PICK m, n : m = Len(p.urls) /\ n = Len(urls)
    OBVIOUS
  <2>3. n = m + 1 /\ m \in Nat
    BY <1>6, <2>1, <2>2
  <2>4. Len(q.urls) = n
    BY <1>7, <2>2
  <2>5. q.left + n = p.left + m
    <3>1. PICK l : l = p.left
      OBVIOUS
    <3>2. l \in Nat /\ q.left = l - 1
      BY <1>3, <1>7, <3>1
    <3>3. (l - 1) + n = l + m
      BY <2>3, <3>2
    <3> QED BY <3>1, <3>2, <3>3
  <2> QED BY <2>1, <2>2, <2>4, <2>5
<1>11. (p.left # 1 => q.left > 0) /\ (pc = "upload" <=> p.left # 1)
  BY <1>3, <1>5, <1>7
<1>12. SoundEdit(q)
  <2>1. p.op = "create" => q.user \in Users /\ q.kind \in Kinds /\ q.item = None
    BY <1>1, <1>7 DEF SoundEdit
  <2>2. p.op # "create" => q.item \in ItemId /\ q.item < nextItem
    BY <1>1, <1>7 DEF SoundEdit
  <2>3. IsFiniteSet(q.copy) /\ \A m \in q.copy : m.item = q.item
    BY <1>1, <1>7 DEF SoundEdit
  <2> QED BY <1>1, <1>5, <1>7, <1>10, <1>11, <2>1, <2>2, <2>3 DEF SoundEdit
<1> QED BY <1>p, <1>2, <1>3, <1>5, <1>6, <1>7, <1>8, <1>9, <1>12

LEMMA UploadOK == ASSUME SoundConstants, AttachedOK, NEW r \in Requests, Upload(r) PROVE AttachedOK'
<1>f. PICK f : f = nextFile
  OBVIOUS
<1>1. PICK q \in Request :
        /\ Become(r, q) /\ SoundEdit(q) /\ q.op = req[r].op /\ q.item = req[r].item
        /\ q.copy = req[r].copy /\ req[r].urls \in Seq(File) /\ q.urls = Append(req[r].urls, f)
  BY <1>f, UploadMoves DEF AttachedOK
<1>2. /\ AttachedRows /\ SoundAttached /\ f \in Nat /\ f \in File /\ files' = files \union {f}
      /\ nextFile' = f + 1 /\ UNCHANGED <<items, medias, nextItem, torn, strayed>>
  BY <1>f DEF SoundConstants, AttachedOK, SoundAttached, AttachedRows, Upload, rows, ghosts, File
<1>3. AttachedRows'
  <2>1. \A g \in files' : g \in File /\ g < nextFile'
    BY <1>2, <1>f DEF AttachedRows, File
  <2>2. nextFile' \in 1..MaxFile + 1
    BY <1>2 DEF SoundConstants, File
  <2> QED BY <1>2, <2>1, <2>2 DEF AttachedRows
<1>4. SoundAttached'
  <2>1. nextItem' >= nextItem
    BY <1>2 DEF SoundConstants, AttachedRows
  <2> QED BY <1>1, <1>2, <1>3, <2>1, EditSound
<1>5. ASSUME NEW s \in Requests
      PROVE  /\ req'[s].copy = req[s].copy /\ req'[s].op = req[s].op /\ req'[s].item = req[s].item
             /\ s # r => req'[s].urls = req[s].urls
  BY <1>1, <1>2, EditUpdate
<1>6. Seen' = Seen
  BY <1>2, <1>5 DEF Seen
<1>7. \A i : Going(i) => Going(i)'
  BY <1>2, <1>5 DEF Going
<1>15. Kept' = Kept
  BY <1>2 DEF Kept
<1>8. OneItem'
  BY <1>6, <1>15 DEF AttachedOK, OneItem
<1>9. ASSUME NEW m \in Seen
      PROVE  /\ m.url < nextFile' /\ m.url # f
             /\ m.item # None /\ m.url \in Kept' /\ m.url \notin files' => Going(m.item)'
  <2>1. m.url \in Nat /\ m.url < f
    BY <1>2, <1>f, SeenItems DEF AttachedOK, FilesThere, Media, Url, File
  <2> QED BY <1>2, <1>f, <1>7, <1>15, <2>1 DEF AttachedOK, FilesThere
<1>10. FilesThere'
  BY <1>6, <1>9 DEF FilesThere
<1>11. ASSUME NEW s \in Requests, NEW k \in DOMAIN req'[s].urls
       PROVE  \/ k \in DOMAIN req[s].urls /\ req'[s].urls[k] = req[s].urls[k]
              \/ s = r /\ req'[s].urls[k] = f
  <2>1. CASE s # r
    BY <1>5, <2>1
  <2>2. CASE s = r
    <3>1. req'[s].urls = Append(req[s].urls, f)
      BY <1>1, <1>2, <2>2, EditUpdate
    <3>2. PICK u \in Seq(File) : u = req[s].urls
      BY <1>1, <2>2
    <3>3. \A l \in DOMAIN Append(u, f) :
            \/ l \in DOMAIN u /\ Append(u, f)[l] = u[l]
            \/ Append(u, f)[l] = f
      OBVIOUS
    <3> QED BY <2>2, <3>1, <3>2, <3>3
  <2> QED BY <2>1, <2>2
<1>12. ASSUME NEW s \in Requests, NEW k \in DOMAIN req[s].urls
       PROVE  /\ req[s].urls[k] < f /\ req[s].urls[k] \in Nat
              /\ req[s].urls[k] \in Kept =>
                   req[s].urls[k] \in files /\ \A m \in Seen : m.url # req[s].urls[k]
              /\ \A t \in Requests : \A l \in DOMAIN req[t].urls :
                   req[t].urls[l] = req[s].urls[k] => t = s
  <2>1. PICK u \in Seq(File) : u = req[s].urls
    BY <1>2 DEF SoundAttached, Request
  <2>2. \A l \in DOMAIN u : u[l] \in Nat
    <3>1. \A l \in DOMAIN u : u[l] \in File
      OBVIOUS
    <3>2. File \subseteq Nat
      BY DEF File
    <3> QED BY <3>1, <3>2
  <2> QED BY <1>f, <2>1, <2>2 DEF AttachedOK, OwnUrls
<1>13. ASSUME NEW s \in Requests, NEW k \in DOMAIN req'[s].urls
       PROVE  /\ req'[s].urls[k] < nextFile'
              /\ req'[s].urls[k] \in Kept' =>
                   req'[s].urls[k] \in files' /\ \A m \in Seen' : m.url # req'[s].urls[k]
              /\ \A t \in Requests : \A l \in DOMAIN req'[t].urls :
                   req'[t].urls[l] = req'[s].urls[k] => t = s
  <2>1. PICK u : u = req'[s].urls[k]
    OBVIOUS
  <2>2. CASE s = r /\ u = f
    <3>1. \A t \in Requests : \A l \in DOMAIN req'[t].urls : req'[t].urls[l] = f => t = r
      BY <1>2, <1>11, <1>12
    <3> QED BY <1>2, <1>6, <1>9, <2>1, <2>2, <3>1
  <2>3. CASE k \in DOMAIN req[s].urls /\ u = req[s].urls[k]
    <3>1. u < f /\ u \in Nat /\ (u \in Kept => u \in files /\ \A m \in Seen : m.url # u)
      BY <1>12, <2>3
    <3>2. \A t \in Requests : \A l \in DOMAIN req[t].urls : req[t].urls[l] = u => t = s
      BY <1>12, <2>3
    <3>3. \A t \in Requests : \A l \in DOMAIN req'[t].urls : req'[t].urls[l] = u => t = s
      BY <1>2, <1>11, <3>1, <3>2
    <3> QED BY <1>2, <1>6, <1>15, <2>1, <3>1, <3>3
  <2> QED BY <1>11, <2>1, <2>2, <2>3
<1>14. OwnUrls'
  BY <1>13 DEF OwnUrls
<1> QED BY <1>4, <1>8, <1>10, <1>14 DEF AttachedOK

LEMMA DeleteFileMoves ==
  ASSUME SoundConstants, SoundAttached, NEW r \in Requests, DeleteFile(r)
  PROVE  \E m \in req[r].copy, q \in Request :
           /\ files' \in {files, files \ {m.url}} /\ req[r].op = "erase"
           /\ Become(r, q) /\ SoundEdit(q) /\ q.op = "erase" /\ q.pc = "files" /\ q.item = req[r].item
           /\ q.urls = req[r].urls /\ q.copy = req[r].copy \ {m} /\ q.left = req[r].left
<1>1. PICK m \in req[r].copy :
        /\ files' \in {files, files \ {m.url}}
        /\ Become(r, [req[r] EXCEPT !.copy = @ \ {m}])
  BY DEF DeleteFile
<1>p. PICK p : p = req[r]
  OBVIOUS
<1>2. p \in Request /\ SoundEdit(p) /\ p.pc = "files" /\ p.op = "erase"
  BY <1>p DEF SoundAttached, DeleteFile, SoundEdit, Idle, Request, Ops
<1> DEFINE q == [p EXCEPT !.copy = @ \ {m}]
<1>3. /\ q.op = p.op /\ q.pc = p.pc /\ q.item = p.item /\ q.left = p.left /\ q.urls = p.urls
      /\ q.user = p.user /\ q.kind = p.kind /\ q.copy = p.copy \ {m} /\ q \in Request
  BY <1>2 DEF Request
<1>4. Become(r, q)
  BY <1>p, <1>1
<1> HIDE DEF q
<1>5. IsFiniteSet(q.copy) /\ \A n \in q.copy : n.item = q.item
  BY <1>2, <1>3, FS_RemoveElement DEF SoundEdit
<1>6. SoundEdit(q)
  BY <1>2, <1>3, <1>5 DEF SoundEdit
<1> QED BY <1>p, <1>1, <1>2, <1>3, <1>4, <1>6

\* The other rows of a file that goes are of the same item, or of none.
LEMMA DeleteFileOK ==
  ASSUME SoundConstants, AttachedOK, NEW r \in Requests, DeleteFile(r)
  PROVE  AttachedOK'
<1>1. PICK m \in req[r].copy, q \in Request :
        /\ files' \in {files, files \ {m.url}} /\ req[r].op = "erase"
        /\ Become(r, q) /\ SoundEdit(q) /\ q.op = "erase" /\ q.item = req[r].item
        /\ q.urls = req[r].urls /\ q.copy = req[r].copy \ {m}
  BY DeleteFileMoves DEF AttachedOK
<1>2. /\ AttachedRows /\ SoundAttached
      /\ UNCHANGED <<items, medias, nextItem, nextFile, torn, strayed>>
  BY DEF AttachedOK, SoundAttached, DeleteFile, rows, ghosts
<1>3. AttachedRows'
  BY <1>1, <1>2 DEF AttachedRows
<1>4. SoundAttached'
  <2>1. nextItem' >= nextItem
    BY <1>2 DEF SoundConstants, AttachedRows
  <2> QED BY <1>1, <1>2, <1>3, <2>1, EditSound
<1>5. ASSUME NEW s \in Requests
      PROVE  /\ req'[s].copy \subseteq req[s].copy /\ req'[s].op = req[s].op
             /\ req'[s].item = req[s].item /\ req'[s].urls = req[s].urls
  BY <1>1, <1>2, EditUpdate
<1>6. Seen' \subseteq Seen
  BY <1>2, <1>5 DEF Seen
<1>7. \A i : Going(i) => Going(i)'
  BY <1>2, <1>5 DEF Going
<1>14. Kept' = Kept
  BY <1>2 DEF Kept
<1>8. OneItem'
  BY <1>6, <1>14 DEF AttachedOK, OneItem
<1>9. m \in Seen /\ m.item = req[r].item /\ m.item \in ItemId /\ Going(m.item)
  <2>1. req[r] \in Request /\ SoundEdit(req[r])
    BY <1>2 DEF SoundAttached
  <2> QED BY <1>1, <2>1, SeenIs DEF SoundEdit, Going
<1>10. ASSUME NEW n \in Seen
       PROVE  /\ n.url < nextFile'
              /\ n.item # None /\ n.url \in Kept' /\ n.url \notin files' => Going(n.item)'
  <2>1. CASE n.url = m.url /\ n.item # None /\ n.url \in Kept
    <3>1. m.item # None
      BY <1>9 DEF SoundConstants, ItemId
    <3>2. n.item = m.item
      BY <1>9, <2>1, <3>1 DEF AttachedOK, OneItem
    <3> QED BY <1>2, <1>7, <1>9, <3>2 DEF AttachedOK, FilesThere
  <2>2. CASE ~ (n.url = m.url /\ n.item # None /\ n.url \in Kept)
    BY <1>1, <1>2, <1>7, <1>14, <2>2 DEF AttachedOK, FilesThere
  <2> QED BY <2>1, <2>2
<1>11. FilesThere'
  BY <1>6, <1>10 DEF FilesThere
<1>12. ASSUME NEW s \in Requests, NEW k \in DOMAIN req[s].urls
       PROVE  /\ req[s].urls[k] < nextFile
              /\ req[s].urls[k] \in Kept =>
                   req[s].urls[k] \in files' /\ \A n \in Seen : n.url # req[s].urls[k]
              /\ \A t \in Requests : \A l \in DOMAIN req[t].urls :
                   req[t].urls[l] = req[s].urls[k] => t = s
  <2>1. /\ req[s].urls[k] < nextFile
        /\ req[s].urls[k] \in Kept =>
             req[s].urls[k] \in files /\ \A n \in Seen : n.url # req[s].urls[k]
        /\ \A t \in Requests : \A l \in DOMAIN req[t].urls :
                   req[t].urls[l] = req[s].urls[k] => t = s
    BY DEF AttachedOK, OwnUrls
  <2> QED BY <1>1, <1>9, <2>1
<1>13. OwnUrls'
  BY <1>2, <1>5, <1>6, <1>12, <1>14 DEF OwnUrls
<1> QED BY <1>4, <1>8, <1>11, <1>13 DEF AttachedOK

\* Requests go no further; an item whose deletion they had begun is torn.
LEMMA RestartOK == ASSUME SoundConstants, AttachedOK, Restart PROVE AttachedOK'
<1>1. /\ UNCHANGED <<items, medias, nextItem, files, nextFile, strayed>>
      /\ req' = [r \in Requests |-> Idle] /\ torn \subseteq torn'
      /\ \A i : i \in torn' => i \in torn \/ i \in DOMAIN items
      /\ \A i \in DOMAIN items : (\E r \in Requests : req[r].op = "erase" /\ req[r].item = i) => i \in torn'
  BY DEF Restart, rows
<1>2. AttachedRows'
  <2>1. torn' \subseteq ItemId
    BY <1>1 DEF AttachedOK, SoundAttached, AttachedRows
  <2> QED BY <1>1, <2>1 DEF AttachedOK, SoundAttached, AttachedRows
<1>3. SoundAttached'
  <2>1. Idle \in Request /\ SoundEdit(Idle)'
    BY IdleEdit, <1>1 DEF SoundEdit, Idle
  <2>2. \A r \in Requests : req'[r] = Idle
    BY <1>1
  <2>3. \A r \in Requests : SoundEdit(req[r])'
    BY <2>1, <2>2 DEF SoundEdit
  <2> QED BY <1>1, <1>2, <2>1, <2>3 DEF SoundAttached
<1>4. Idle.copy = {} /\ Idle.urls = <<>>
  BY DEF Idle
<1>5. \A m \in Seen' : m \in Seen
  BY <1>1, <1>4 DEF Seen
<1>6. \A i : Going(i) => Going(i)'
  BY <1>1 DEF Going
<1>7. \A m \in Seen : m.url < nextFile
  BY DEF AttachedOK, FilesThere
<1> QED BY <1>1, <1>3, <1>4, <1>5, <1>6, <1>7, NothingNew

LEMMA AttachedInit == ASSUME SoundConstants, Init PROVE AttachedOK
<1>1. /\ items = [i \in {} |-> None] /\ medias = {} /\ files = {}
      /\ nextItem = 1 /\ nextFile = 1 /\ torn = {} /\ strayed = {} /\ req = [r \in Requests |-> Idle]
  BY DEF Init
<1>2. AttachedRows
  BY <1>1, FS_EmptySet DEF SoundConstants, AttachedRows
<1>3. SoundAttached
  BY <1>1, <1>2, IdleEdit DEF SoundAttached
<1>4. Idle.copy = {} /\ Idle.urls = <<>> /\ DOMAIN <<>> = {}
  BY DEF Idle
<1>5. Seen = {} /\ \A r \in Requests : DOMAIN req[r].urls = {}
  BY <1>1, <1>4 DEF Seen
<1> QED BY <1>3, <1>5 DEF AttachedOK, OneItem, FilesThere, OwnUrls

Acts(r) ==
  \/ Looks(r) \/ ReadMedias(r) \/ Rewrite(r) \/ Clear(r)
  \/ DeleteRow(r) \/ Withdraw(r) \/ EraseRow(r)
  \/ Insert(r) \/ AppendMedias(r) \/ Refill(r) \/ Upload(r) \/ DeleteFile(r)

LEMMA StepActs == ASSUME NEW r, Step(r) PROVE Acts(r)
BY DEF Step, HighlightStep, PostStep, ReportStep, CommonStep, Acts, Looks

LEMMA AttachedNext ==
  ASSUME SoundConstants, AttachedOK, Next PROVE AttachedOK'
<1>1. CASE Restart
  BY <1>1, RestartOK
<1>2. ASSUME NEW r \in Requests, Step(r) PROVE AttachedOK'
  <2>1. Acts(r)
    BY <1>2, StepActs
  <2>2. CASE Looks(r)
    BY <2>2, LookLooks, LooksOK DEF AttachedOK
  <2> QED BY <2>1, <2>2, CountOK, RewriteOK, ClearOK, DeleteRowOK, InsertOK, AppendOK, UploadOK,
             DeleteFileOK DEF Acts
<1> QED BY <1>1, <1>2 DEF Next

LEMMA FilesOfRows == ASSUME SoundConstants, AttachedOK PROVE FilesKept
<1> SUFFICES ASSUME NEW m \in medias, m.item # None, m.url \in File \ files, m.url \notin strayed
             PROVE  \/ m.item \in torn
                    \/ \E r \in Requests : req[r].op = "erase" /\ req[r].item = m.item
  BY DEF FilesKept
<1>1. Going(m.item)
  BY SeenIs DEF AttachedOK, FilesThere, Kept
<1>2. m.item \in DOMAIN items
  BY DEF AttachedOK, SoundAttached, AttachedRows
<1> QED BY <1>1, <1>2 DEF Going
-----------------------------------------------------------------------------
(* How many medias an item has, and how many share an order *)

LEMMA AddingIs ==
  ASSUME SoundConstants, SoundAttached, NEW r \in Requests
  PROVE  /\ Adding(r) \in Nat /\ Adding(r) <= MaxMedias
         /\ \A i : AddsTo(r, i) <=> req[r].item = i /\ ~ AddsNothing(req[r])
<1>p. PICK p : p = req[r]
  OBVIOUS
<1>1. p \in Request /\ SoundEdit(p)
  BY <1>p DEF SoundAttached
<1>2. p.left \in Nat /\ Len(p.urls) \in Nat /\ p.left + Len(p.urls) <= MaxMedias
  <2>1. p.left \in 0..MaxMedias /\ p.urls \in Seq(File)
    BY <1>1 DEF Request
  <2>2. p.left + Len(p.urls) <= MaxMedias
    BY <1>1 DEF SoundEdit
  <2> QED BY <2>1, <2>2 DEF SoundConstants
<1>3. PICK n : n = Len(p.urls)
  OBVIOUS
<1>4. p.left + n \in Nat
  BY <1>2, <1>3
<1> QED BY <1>p, <1>2, <1>3, <1>4 DEF Adding, AddsTo, AddsNothing

\* A request of an item that is not there yet adds nothing to it.
LEMMA AddsToOld ==
  ASSUME SoundConstants, SoundAttached, NEW r \in Requests, NEW i \in ItemId, AddsTo(r, i)
  PROVE  req[r].op \in {"append", "replace"} /\ i < nextItem
<1>p. PICK p : p = req[r]
  OBVIOUS
<1>1. p \in Request /\ SoundEdit(p) /\ p.item = i
  BY <1>p DEF SoundAttached, AddsTo
<1>2. i # None
  BY DEF SoundConstants, ItemId
<1>3. CASE p.pc = "refill"
  <2>1. p.op = "replace"
    BY <1>1, <1>3 DEF SoundEdit, Request, Ops, Idle
  <2> QED BY <1>p, <1>1, <2>1 DEF SoundEdit
<1>4. CASE p.op = "append"
  BY <1>p, <1>1, <1>4 DEF SoundEdit
<1> QED BY <1>p, <1>3, <1>4 DEF AddsTo

LEMMA CountsFinite ==
  ASSUME SoundConstants, SoundAttached, NEW i \in ItemId
  PROVE  /\ IsFiniteSet(MediasOf(i)) /\ Cardinality(MediasOf(i)) \in Nat
         /\ IsFiniteSet(Uploaded(i)) /\ Cardinality(Uploaded(i)) \in Nat
         /\ Cardinality(Uploaded(i)) <= Cardinality(MediasOf(i))
         /\ \A o : /\ IsFiniteSet(Ordered(i, o)) /\ Cardinality(Ordered(i, o)) \in Nat
                   /\ IsFiniteSet(Claiming(i, o)) /\ Cardinality(Claiming(i, o)) \in Nat
                   /\ Cardinality(Claiming(i, o)) <= Cardinality(Requests)
<1>1. IsFiniteSet(medias) /\ MediasOf(i) \subseteq medias /\ Uploaded(i) \subseteq MediasOf(i)
  BY DEF SoundAttached, AttachedRows, MediasOf, Uploaded
<1>2. IsFiniteSet(MediasOf(i)) /\ Cardinality(MediasOf(i)) \in Nat
  BY <1>1, FS_Subset, FS_CardinalityType
<1>3. IsFiniteSet(Uploaded(i)) /\ Cardinality(Uploaded(i)) <= Cardinality(MediasOf(i))
  BY <1>1, <1>2, FS_Subset
<1>4. Cardinality(Uploaded(i)) \in Nat
  BY <1>3, FS_CardinalityType
<1>5. ASSUME NEW o
      PROVE  /\ IsFiniteSet(Ordered(i, o)) /\ Cardinality(Ordered(i, o)) \in Nat
             /\ IsFiniteSet(Claiming(i, o)) /\ Cardinality(Claiming(i, o)) \in Nat
             /\ Cardinality(Claiming(i, o)) <= Cardinality(Requests)
  <2>1. Ordered(i, o) \subseteq Uploaded(i) /\ Claiming(i, o) \subseteq Requests
    BY DEF Ordered, Claiming
  <2>2. IsFiniteSet(Ordered(i, o)) /\ IsFiniteSet(Claiming(i, o))
        /\ Cardinality(Claiming(i, o)) <= Cardinality(Requests)
    BY <1>3, <2>1, FS_Subset DEF SoundConstants
  <2> QED BY <2>2, FS_CardinalityType
<1> QED BY <1>2, <1>3, <1>4, <1>5

\* What requests other than r are about to add.
Others(r, i) == UNION {{s} \X (1..Adding(s)) : s \in {t \in Requests \ {r} : AddsTo(t, i)}}

LEMMA PendingIs ==
  ASSUME SoundConstants, SoundAttached, NEW r \in Requests, NEW i \in ItemId,
         NEW K, K = Cardinality(Requests) * MaxMedias
  PROVE  /\ K \in Nat /\ MaxMedias <= K
         /\ IsFiniteSet(Pending(i)) /\ Cardinality(Pending(i)) \in Nat /\ Cardinality(Pending(i)) <= K
         /\ IsFiniteSet(Others(r, i)) /\ Cardinality(Others(r, i)) \in Nat
         /\ Cardinality(Others(r, i)) + MaxMedias <= K
         /\ Cardinality(Pending(i)) = Cardinality(Others(r, i)) + (IF AddsTo(r, i) THEN Adding(r) ELSE 0)
<1>1. PICK n, m : n = Cardinality(Requests) /\ m = MaxMedias
  OBVIOUS
<1>2. n \in Nat /\ n >= 1 /\ m \in Nat
  <2>1. n \in Nat
    BY <1>1, FS_CardinalityType DEF SoundConstants
  <2>2. Requests # {}
    OBVIOUS
  <2>3. n # 0
    BY <1>1, <2>2, FS_EmptySet DEF SoundConstants
  <2> QED BY <1>1, <2>1, <2>3 DEF SoundConstants
<1>3. n * m \in Nat /\ (n - 1) * m \in Nat /\ (n - 1) * m + m = n * m
  BY <1>2
<1>4. K \in Nat /\ m <= K /\ (n - 1) * m + m = K
  BY <1>1, <1>2, <1>3
<1>5. IsFiniteSet(1..m) /\ Cardinality(1..m) = m
  BY <1>2, FS_Interval
<1>6. IsFiniteSet(Requests \ {r}) /\ Cardinality(Requests \ {r}) = n - 1
  BY <1>1, FS_RemoveElement DEF SoundConstants
<1>7. /\ IsFiniteSet(Requests \X (1..m)) /\ Cardinality(Requests \X (1..m)) = n * m
      /\ IsFiniteSet((Requests \ {r}) \X (1..m))
      /\ Cardinality((Requests \ {r}) \X (1..m)) = (n - 1) * m
  <2>1. IsFiniteSet(Requests \X (1..m)) /\ Cardinality(Requests \X (1..m)) = n * m
    <3>1. PICK all : all = Requests
      OBVIOUS
    <3>2. IsFiniteSet(all) /\ Cardinality(all) = n
      BY <1>1, <3>1 DEF SoundConstants
    <3>3. IsFiniteSet(all \X (1..m)) /\ Cardinality(all \X (1..m)) = n * m
      BY <1>5, <3>2, FS_Product
    <3> QED BY <3>1, <3>3
  <2>2. PICK other : other = Requests \ {r}
    OBVIOUS
  <2>3. IsFiniteSet(other) /\ Cardinality(other) = n - 1
    BY <1>6, <2>2
  <2>4. IsFiniteSet(other \X (1..m)) /\ Cardinality(other \X (1..m)) = (n - 1) * m
    BY <1>5, <2>3, FS_Product
  <2> QED BY <2>1, <2>2, <2>4
<1>8. \A s \in Requests : Adding(s) \in Nat /\ Adding(s) <= m /\ 1..Adding(s) \subseteq 1..m
  <2>1. ASSUME NEW a \in Nat, a <= m PROVE 1..a \subseteq 1..m
    BY <1>2, <2>1
  <2> QED BY <1>1, <2>1, AddingIs
<1>9. Pending(i) \subseteq Requests \X (1..m)
  BY <1>8 DEF Pending
<1>10. Others(r, i) \subseteq (Requests \ {r}) \X (1..m)
  BY <1>8 DEF Others
<1>11. IsFiniteSet(Pending(i)) /\ Cardinality(Pending(i)) <= K
  <2>1. IsFiniteSet(Pending(i)) /\ Cardinality(Pending(i)) <= n * m
    BY <1>7, <1>9, FS_Subset
  <2> QED BY <1>1, <2>1
<1>12. IsFiniteSet(Others(r, i)) /\ Cardinality(Others(r, i)) + m <= K
  <2>1. IsFiniteSet(Others(r, i)) /\ Cardinality(Others(r, i)) <= (n - 1) * m
    BY <1>7, <1>10, FS_Subset
  <2>2. PICK k : k = (n - 1) * m
    OBVIOUS
  <2>3. k \in Nat /\ k + m = K /\ Cardinality(Others(r, i)) \in Nat
    BY <1>3, <1>4, <2>1, <2>2, FS_CardinalityType
  <2> QED BY <1>2, <2>1, <2>2, <2>3
<1>13. Cardinality(Pending(i)) \in Nat /\ Cardinality(Others(r, i)) \in Nat
  BY <1>11, <1>12, FS_CardinalityType
<1>14. CASE ~ AddsTo(r, i)
  <2>1. Pending(i) = Others(r, i)
    BY <1>14 DEF Pending, Others
  <2>2. Cardinality(Pending(i)) = Cardinality(Others(r, i)) + 0
    BY <1>13, <2>1
  <2> QED BY <1>1, <1>4, <1>11, <1>12, <1>13, <1>14, <2>2
<1>15. CASE AddsTo(r, i)
  <2>1. PICK mine : mine = {r} \X (1..Adding(r))
    OBVIOUS
  <2>2. Pending(i) = Others(r, i) \union mine
    BY <1>15, <2>1 DEF Pending, Others
  <2>3. Others(r, i) \cap mine = {}
    BY <1>10, <2>1
  <2>4. IsFiniteSet(1..Adding(r)) /\ Cardinality(1..Adding(r)) = Adding(r)
    BY <1>8, FS_Interval
  <2>5. IsFiniteSet({r}) /\ Cardinality({r}) = 1
    BY FS_Singleton
  <2>6. IsFiniteSet(mine) /\ Cardinality(mine) = 1 * Adding(r)
    BY <2>1, <2>4, <2>5, FS_Product
  <2>7. Cardinality(mine) = Adding(r)
    BY <1>8, <2>6
  <2>8. Cardinality(Pending(i)) = Cardinality(Others(r, i)) + Cardinality(mine) - Cardinality({})
    BY <1>12, <2>2, <2>3, <2>6, FS_Union
  <2>9. Cardinality(Pending(i)) = Cardinality(Others(r, i)) + Adding(r)
    BY <1>8, <1>13, <2>7, <2>8, FS_EmptySet
  <2> QED BY <1>1, <1>4, <1>11, <1>12, <1>13, <1>15, <2>9
<1> QED BY <1>14, <1>15

\* A step after which no more is to come, and no row is new.
LEMMA QuietRoom ==
  ASSUME SoundConstants, SoundAttached, SoundAttached', NEW r \in Requests,
         NEW i \in ItemId, RoomLeft(i),
         \A m \in medias' : m.item = i /\ ~ m.body => m \in medias,
         \A s \in Requests : AddsTo(s, i)' =>
           AddsTo(s, i) /\ Adding(s)' = Adding(s) /\ First(s)' = First(s)
  PROVE  RoomLeft(i)'
<1>1. Uploaded(i)' \subseteq Uploaded(i) /\ \A o : Ordered(i, o)' \subseteq Ordered(i, o)
  BY DEF Uploaded, MediasOf, Ordered
<1>2. \A o : Claiming(i, o)' \subseteq Claiming(i, o)
  BY DEF Claiming
<1>3. Pending(i)' \subseteq Pending(i)
  BY DEF Pending
<1>4. PICK K : K = Cardinality(Requests) * MaxMedias
  OBVIOUS
<1>5. K \in Nat /\ IsFiniteSet(Pending(i)) /\ Cardinality(Pending(i)) \in Nat
  BY <1>4, PendingIs
<1>6. Cardinality(Pending(i)') <= Cardinality(Pending(i)) /\ Cardinality(Pending(i)') \in Nat
  BY <1>3, <1>5, FS_Subset, FS_CardinalityType
<1>7. /\ Cardinality(Uploaded(i)') <= Cardinality(Uploaded(i)) /\ Cardinality(Uploaded(i)') \in Nat
      /\ Cardinality(Uploaded(i)) \in Nat
  BY <1>1, CountsFinite, FS_Subset, FS_CardinalityType
<1>8. Cardinality(Uploaded(i)') + Cardinality(Pending(i)') <= K
  BY <1>4, <1>5, <1>6, <1>7 DEF RoomLeft
<1>9. ASSUME NEW o \in Int
      PROVE  Cardinality(Ordered(i, o)') + Cardinality(Claiming(i, o)') <= Cardinality(Requests)
  <2>1. /\ Cardinality(Ordered(i, o)') <= Cardinality(Ordered(i, o)) /\ Cardinality(Ordered(i, o)') \in Nat
        /\ Cardinality(Ordered(i, o)) \in Nat
    BY <1>1, CountsFinite, FS_Subset, FS_CardinalityType
  <2>2. /\ Cardinality(Claiming(i, o)') <= Cardinality(Claiming(i, o)) /\ Cardinality(Claiming(i, o)') \in Nat
        /\ Cardinality(Claiming(i, o)) \in Nat
    BY <1>2, CountsFinite, FS_Subset, FS_CardinalityType
  <2>3. Cardinality(Requests) \in Nat
    BY FS_CardinalityType DEF SoundConstants
  <2> QED BY <2>1, <2>2, <2>3 DEF RoomLeft
<1> QED BY <1>4, <1>8, <1>9 DEF RoomLeft

\* The request returns, or goes on to what adds nothing; of item i only rows go.
LEMMA QuietMove ==
  ASSUME SoundConstants, SoundAttached, SoundAttached', NEW r \in Requests, NEW q, Become(r, q),
         NEW i \in ItemId, RoomLeft(i), AddsNothing(q) \/ q.item # i,
         \A m \in medias' : m.item = i /\ ~ m.body => m \in medias
  PROVE  RoomLeft(i)'
<1>1. ASSUME NEW s \in Requests, AddsTo(s, i)'
      PROVE  AddsTo(s, i) /\ Adding(s)' = Adding(s) /\ First(s)' = First(s)
  <2>1. s # r
    BY <1>1, EditUpdate DEF AddsTo, AddsNothing
  <2>2. req'[s] = req[s]
    BY <2>1, EditUpdate
  <2> QED BY <1>1, <2>2 DEF AddsTo, Adding, First
<1> QED BY <1>1, QuietRoom

\* A request's own rows go to one item.
LEMMA SameRoom ==
  ASSUME SoundConstants, SoundAttached, SoundAttached', NEW r \in Requests, NEW q, Become(r, q),
         NEW i \in ItemId, RoomLeft(i), medias' = medias, ~ AddsNothing(req[r]),
         q.item = req[r].item, q.op = req[r].op, q.copy = req[r].copy, Adding(r)' = Adding(r)
  PROVE  RoomLeft(i)'
<1>1. ASSUME NEW s \in Requests, AddsTo(s, i)'
      PROVE  AddsTo(s, i) /\ Adding(s)' = Adding(s) /\ First(s)' = First(s)
  <2>1. CASE s = r
    <3>1. /\ req'[r].item = i /\ req'[r].item = req[r].item
          /\ req'[r].op = req[r].op /\ req'[r].copy = req[r].copy
      BY <1>1, <2>1, EditUpdate DEF AddsTo
    <3> QED BY <2>1, <3>1, AddingIs DEF First
  <2>2. CASE s # r
    <3>1. req'[s] = req[s]
      BY <2>2, EditUpdate
    <3> QED BY <1>1, <3>1 DEF AddsTo, Adding, First
  <2> QED BY <2>1, <2>2
<1> QED BY <1>1, QuietRoom

LEMMA LooksRoom ==
  ASSUME SoundConstants, SoundAttached, SoundAttached', NEW r \in Requests, LooksOn(r),
         NEW i \in ItemId, RoomLeft(i)
  PROVE  RoomLeft(i)'
<1>1. PICK q :
        /\ Become(r, q)
        /\ \/ AddsNothing(q)
           \/ /\ ~ AddsNothing(req[r]) /\ req[r].op = q.op /\ q.item = req[r].item
              /\ q.left = req[r].left /\ q.urls = req[r].urls /\ q.copy = req[r].copy
  BY DEF LooksOn, Moves
<1>2. medias' = medias
  BY DEF LooksOn, Reads, rows
<1>3. CASE AddsNothing(q)
  BY <1>1, <1>2, <1>3, QuietMove
<1>4. CASE ~ AddsNothing(q)
  <2>1. Adding(r)' = Adding(r)
    BY <1>1, <1>4, EditUpdate DEF Adding
  <2> QED BY <1>1, <1>2, <1>4, <2>1, SameRoom
<1> QED BY <1>3, <1>4

LEMMA UploadRoom ==
  ASSUME SoundConstants, SoundAttached, SoundAttached', NEW r \in Requests, Upload(r),
         NEW i \in ItemId, RoomLeft(i)
  PROVE  RoomLeft(i)'
<1>1. PICK q \in Request :
         /\ Become(r, q) /\ SoundEdit(q) /\ q.op = req[r].op /\ q.item = req[r].item
         /\ q.copy = req[r].copy /\ req[r].left \in Nat /\ req[r].left > 0
         /\ req[r].urls \in Seq(File) /\ q.urls = Append(req[r].urls, nextFile)
         /\ q.left = req[r].left - 1
         /\ q.pc \in {"upload", "insert", "append", "clear"}
  BY UploadMoves
<1>2. medias' = medias
  BY DEF Upload, rows
<1>3. CASE AddsNothing(q)
  BY <1>1, <1>2, <1>3, QuietMove
<1>4. CASE ~ AddsNothing(q)
  <2>1. q.op = "append"
    BY <1>1, <1>4 DEF AddsNothing
  <2>2. ~ AddsNothing(req[r])
    BY <1>1, <2>1 DEF Upload, AddsNothing
  <2>3. PICK m, n, u : u = req[r].urls /\ m = Len(u) /\ n = Len(q.urls)
    OBVIOUS
  <2>4. m \in Nat /\ n = m + 1
    BY <1>1, <2>3
  <2>5. Adding(r) = req[r].left + m /\ Adding(r)' = q.left + n
    BY <1>1, <2>3, EditUpdate DEF Adding
  <2>7. PICK l \in Nat : l = req[r].left /\ q.left = l - 1
    BY <1>1
  <2>8. (l - 1) + (m + 1) = l + m
    BY <2>4, <2>7
  <2>6. Adding(r)' = Adding(r)
    BY <2>4, <2>5, <2>7, <2>8
  <2> QED BY <1>1, <1>2, <2>2, <2>6, SameRoom
<1> QED BY <1>3, <1>4

LEMMA RemovalRoom ==
  ASSUME SoundConstants, SoundAttached, SoundAttached', NEW r \in Requests,
         NEW i \in ItemId, RoomLeft(i),
         Rewrite(r) \/ DeleteRow(r) \/ Withdraw(r) \/ EraseRow(r)
  PROVE  RoomLeft(i)'
<1>1. req[r] \in Request /\ SoundEdit(req[r])
  BY DEF SoundAttached
<1>2. Become(r, Idle) /\ AddsNothing(Idle)
  BY DEF Rewrite, DeleteRow, Withdraw, EraseRow, Return, Idle, AddsNothing
<1>3. i # None
  BY DEF SoundConstants, ItemId
<1>4. ASSUME NEW m \in medias', m.item = i, ~ m.body PROVE m \in medias
  <2>1. CASE Rewrite(r)
    <3>1. PICK ms : medias' \subseteq medias \union ms /\ \A n \in ms : n.body
      BY <2>1, RewriteGives
    <3> QED BY <1>4, <3>1
  <2>2. CASE DeleteRow(r) \/ Withdraw(r)
    BY <2>2 DEF DeleteRow, Withdraw
  <2>3. CASE EraseRow(r)
    <3>1. PICK n \in medias : m = IF n.item = req[r].item THEN [n EXCEPT !.item = None] ELSE n
      BY <2>3 DEF EraseRow, Detached
    <3>2. n \in Media
      BY DEF SoundAttached, AttachedRows
    <3>3. n.item # req[r].item
      BY <1>3, <1>4, <3>1, <3>2 DEF Media
    <3> QED BY <3>1, <3>3
  <2> QED BY <2>1, <2>2, <2>3
<1> QED BY <1>2, <1>4, QuietMove

LEMMA RestartRoom ==
  ASSUME SoundConstants, SoundAttached, SoundAttached', Restart, NEW i \in ItemId, RoomLeft(i)
  PROVE  RoomLeft(i)'
<1>1. PICK r \in Requests : req[r] # Idle
  BY DEF Restart
<1>2. medias' = medias /\ \A s \in Requests : req'[s] = Idle
  BY DEF Restart, rows
<1>3. \A s \in Requests : ~ AddsTo(s, i)'
  BY <1>2 DEF AddsTo, Idle
<1> QED BY <1>1, <1>2, <1>3, QuietRoom
\* What is about to be added once request r is q.
LEMMA PendingNow ==
  ASSUME SoundConstants, SoundAttached, NEW r \in Requests, NEW q, Become(r, q), NEW i \in ItemId,
         NEW a \in Nat, a = q.left + Len(q.urls)
  PROVE  /\ Cardinality(Pending(i)') \in Nat
         /\ Cardinality(Pending(i)') <=
              Cardinality(Others(r, i)) + (IF q.item = i /\ ~ AddsNothing(q) THEN a ELSE 0)
         /\ \A o : /\ Cardinality(Claiming(i, o)') \in Nat
                   /\ Cardinality(Claiming(i, o)') <= Cardinality(Requests)
                   /\ Claiming(i, o)' \subseteq Claiming(i, o) \union {r}
                   /\ q.item # i \/ AddsNothing(q) => Claiming(i, o)' \subseteq Claiming(i, o) \ {r}
<1>1. ASSUME NEW s \in Requests, s # r
      PROVE  AddsTo(s, i)' = AddsTo(s, i) /\ Adding(s)' = Adding(s) /\ First(s)' = First(s)
  <2>1. req'[s] = req[s]
    BY <1>1, EditUpdate
  <2> QED BY <2>1 DEF AddsTo, Adding, First
<1>2. /\ AddsTo(r, i)' => q.item = i /\ ~ AddsNothing(q)
      /\ Adding(r)' = a
  BY EditUpdate DEF AddsTo, AddsNothing, Adding
<1>3. IsFiniteSet(Others(r, i)) /\ Cardinality(Others(r, i)) \in Nat
  BY PendingIs
<1>4. ASSUME NEW x \in Pending(i)'
      PROVE  x \in Others(r, i) \/ (q.item = i /\ ~ AddsNothing(q) /\ x \in {r} \X (1..a))
  <2>1. PICK s \in Requests : AddsTo(s, i)' /\ x \in {s} \X (1..Adding(s)')
    BY DEF Pending
  <2>2. CASE s = r
    BY <1>2, <2>1, <2>2
  <2>3. CASE s # r
    BY <1>1, <2>1, <2>3 DEF Others
  <2> QED BY <2>2, <2>3
<1>7. ASSUME NEW o
      PROVE  /\ Cardinality(Claiming(i, o)') \in Nat
             /\ Cardinality(Claiming(i, o)') <= Cardinality(Requests)
             /\ Claiming(i, o)' \subseteq Claiming(i, o) \union {r}
             /\ q.item # i \/ AddsNothing(q) => Claiming(i, o)' \subseteq Claiming(i, o) \ {r}
  <2>1. Claiming(i, o)' \subseteq Requests
    BY DEF Claiming
  <2>2. Cardinality(Claiming(i, o)') \in Nat /\ Cardinality(Claiming(i, o)') <= Cardinality(Requests)
    BY <2>1, FS_Subset, FS_CardinalityType DEF SoundConstants
  <2>3. ASSUME NEW s \in Claiming(i, o)', s # r PROVE s \in Claiming(i, o)
    BY <1>1, <2>3 DEF Claiming
  <2>4. r \in Claiming(i, o)' => q.item = i /\ ~ AddsNothing(q)
    BY <1>2 DEF Claiming
  <2> QED BY <2>2, <2>3, <2>4
<1>5. CASE q.item = i /\ ~ AddsNothing(q)
  <2>1. PICK mine : mine = {r} \X (1..a)
    OBVIOUS
  <2>2. IsFiniteSet(1..a) /\ Cardinality(1..a) = a /\ IsFiniteSet({r}) /\ Cardinality({r}) = 1
    <3>1. IsFiniteSet(1..a) /\ Cardinality(1..a) = a
      BY FS_Interval
    <3>2. IsFiniteSet({r}) /\ Cardinality({r}) = 1
      BY FS_Singleton
    <3> QED BY <3>1, <3>2
  <2>3. IsFiniteSet(mine) /\ Cardinality(mine) = 1 * a
    BY <2>1, <2>2, FS_Product
  <2>4. Pending(i)' \subseteq Others(r, i) \union mine
    BY <1>4, <2>1
  <2>5. IsFiniteSet(Others(r, i) \union mine)
        /\ Cardinality(Others(r, i) \union mine) =
             Cardinality(Others(r, i)) + Cardinality(mine) - Cardinality(Others(r, i) \cap mine)
    BY <1>3, <2>3, FS_Union
  <2>6. Cardinality(Others(r, i) \cap mine) \in Nat
    BY <2>3, FS_Subset, FS_CardinalityType
  <2>7. Cardinality(Others(r, i) \union mine) <= Cardinality(Others(r, i)) + a
    <3>1. PICK x, y, z, w : /\ x = Cardinality(Others(r, i)) /\ y = Cardinality(mine)
                            /\ z = Cardinality(Others(r, i) \union mine)
                            /\ w = Cardinality(Others(r, i) \cap mine)
      OBVIOUS
    <3>2. x \in Nat /\ w \in Nat /\ y = a /\ z = x + y - w
      BY <1>3, <2>3, <2>5, <2>6, <3>1
    <3>3. z <= x + a
      BY <3>2
    <3> QED BY <3>1, <3>3
  <2>8. Cardinality(Pending(i)') <= Cardinality(Others(r, i) \union mine)
        /\ Cardinality(Pending(i)') \in Nat
    BY <2>4, <2>5, FS_Subset, FS_CardinalityType
  <2>9. PICK x, y, z : /\ x = Cardinality(Others(r, i)) /\ y = Cardinality(Pending(i)')
                       /\ z = Cardinality(Others(r, i) \union mine)
    OBVIOUS
  <2>10. x \in Nat /\ y \in Nat /\ z \in Nat /\ y <= z /\ z <= x + a
    BY <1>3, <2>5, <2>7, <2>8, <2>9, FS_CardinalityType
  <2>11. y <= x + a
    BY <2>10
  <2> QED BY <1>5, <1>7, <2>9, <2>10, <2>11
<1>6. CASE ~ (q.item = i /\ ~ AddsNothing(q))
  <2>1. Pending(i)' \subseteq Others(r, i)
    BY <1>4, <1>6
  <2>2. Cardinality(Pending(i)') <= Cardinality(Others(r, i)) /\ Cardinality(Pending(i)') \in Nat
    BY <1>3, <2>1, FS_Subset, FS_CardinalityType
  <2>3. Cardinality(Others(r, i)) + 0 = Cardinality(Others(r, i))
    BY <1>3
  <2> QED BY <1>6, <1>7, <2>2, <2>3
<1> QED BY <1>5, <1>6

\* The medias of an item go, and what comes after is counted anew.
LEMMA ClearRoom ==
  ASSUME SoundConstants, SoundAttached, SoundAttached', NEW r \in Requests,
         NEW i \in ItemId, RoomLeft(i), Clear(r)
  PROVE  RoomLeft(i)'
<1>p. PICK p : p = req[r]
  OBVIOUS
<1>1. p \in Request /\ SoundEdit(p)
  BY <1>p DEF SoundAttached
<1>2. PICK q : q = [p EXCEPT !.pc = IF p.op = "replace" THEN "refill" ELSE "row"]
  OBVIOUS
<1>3. Become(r, q) /\ q.item = p.item /\ q.left = p.left /\ q.urls = p.urls
  BY <1>p, <1>1, <1>2 DEF Clear, Goto, Request
<1>4. medias' = medias \ MediasOf(p.item)
  BY <1>p DEF Clear
<1>5. CASE p.item # i
  BY <1>3, <1>4, <1>5, QuietMove
<1>6. CASE p.item = i
  <2>1. Uploaded(i)' = {} /\ \A o : Ordered(i, o)' = {}
    BY <1>4, <1>6 DEF Uploaded, MediasOf, Ordered
  <2>2. PICK a : a = q.left + Len(q.urls)
    OBVIOUS
  <2>3. a = Adding(r)
    BY <1>p, <1>3, <2>2 DEF Adding
  <2>4. a \in Nat /\ a <= MaxMedias
    BY <2>3, AddingIs
  <2>5. PICK K : K = Cardinality(Requests) * MaxMedias
    OBVIOUS
  <2>6. K \in Nat /\ Cardinality(Others(r, i)) \in Nat /\ Cardinality(Others(r, i)) + MaxMedias <= K
    BY <2>5, PendingIs
  <2>7. /\ Cardinality(Pending(i)') \in Nat
        /\ Cardinality(Pending(i)') <= Cardinality(Others(r, i)) + (IF q.item = i /\ ~ AddsNothing(q) THEN a ELSE 0)
        /\ \A o : /\ Cardinality(Claiming(i, o)') \in Nat
                  /\ Cardinality(Claiming(i, o)') <= Cardinality(Requests)
    BY <1>3, <2>2, <2>4, PendingNow
  <2>8. Cardinality(Pending(i)') <= K
    BY <2>4, <2>6, <2>7 DEF SoundConstants
  <2>9. Cardinality({}) = 0
    BY FS_EmptySet
  <2>10. Cardinality(Uploaded(i)') + Cardinality(Pending(i)') <= K
    BY <2>1, <2>7, <2>8, <2>9
  <2>11. \A o \in Int : Cardinality(Ordered(i, o)') + Cardinality(Claiming(i, o)') <= Cardinality(Requests)
    BY <2>1, <2>7, <2>9
  <2> QED BY <2>5, <2>10, <2>11 DEF RoomLeft
<1> QED BY <1>5, <1>6

\* The medias are counted with the new ones: there is room for these, whatever others add.
LEMMA CountRoom ==
  ASSUME SoundConstants, SoundAttached, SoundAttached', NEW r \in Requests,
         NEW i \in ItemId, RoomLeft(i), ReadMedias(r)
  PROVE  RoomLeft(i)'
<1>1. medias' = medias
  BY DEF ReadMedias, Reads, rows
<1>2. CASE Return(r)
  <2>1. Become(r, Idle) /\ AddsNothing(Idle)
    BY <1>2, ReturnMoves DEF Return
  <2> QED BY <1>1, <2>1, QuietMove
<1>3. CASE ~ Return(r)
  <2>1. PICK q : /\ Moves(r, q) /\ q.item = req[r].item /\ q.urls = <<>> /\ q.op = "append"
                 /\ q.left = req[r].left /\ q.copy = MediasOf(q.item) /\ q.pc = "text"
                 /\ WithinLimit(Cardinality(MediasOf(q.item)), q.left)
    BY <1>3, CountMoves
  <2>2. Become(r, q) /\ q \in Request /\ SoundEdit(q)
    BY <2>1 DEF Moves
  <2>3. CASE q.item # i
    BY <1>1, <2>2, <2>3, QuietMove
  <2>4. CASE q.item = i
    <3>1. PICK a : a = q.left
      OBVIOUS
    <3>2. a \in Nat /\ a = q.left + Len(q.urls) /\ Len(q.urls) = 0
      <4>1. a \in Nat
        BY <2>2, <3>1 DEF SoundConstants, Request
      <4>2. Len(q.urls) = 0
        BY <2>1
      <4> QED BY <3>1, <4>1, <4>2
    <3>3. PICK K : K = Cardinality(Requests) * MaxMedias
      OBVIOUS
    <3>4. /\ K \in Nat /\ Cardinality(Others(r, i)) \in Nat /\ Cardinality(Others(r, i)) + MaxMedias <= K
          /\ Cardinality(Pending(i)) \in Nat /\ Cardinality(Others(r, i)) <= Cardinality(Pending(i))
      <4>1. Adding(r) \in Nat
        BY AddingIs
      <4> QED BY <3>3, <4>1, PendingIs
    <3>5. /\ Cardinality(Pending(i)') \in Nat
          /\ Cardinality(Pending(i)') <= Cardinality(Others(r, i)) + a
          /\ \A o : /\ Cardinality(Claiming(i, o)') \in Nat
                    /\ Cardinality(Claiming(i, o)') <= Cardinality(Requests)
                    /\ Claiming(i, o)' \subseteq Claiming(i, o) \union {r}
      <4>1. ~ AddsNothing(q)
        BY <2>1 DEF AddsNothing
      <4> QED BY <2>2, <2>4, <3>2, <4>1, PendingNow
    <3>6. /\ Uploaded(i)' = Uploaded(i) /\ \A o : Ordered(i, o)' = Ordered(i, o)
          /\ Cardinality(Uploaded(i)) \in Nat /\ Cardinality(MediasOf(i)) \in Nat
          /\ Cardinality(Uploaded(i)) <= Cardinality(MediasOf(i))
      BY <1>1, CountsFinite DEF Uploaded, MediasOf, Ordered
    <3>7. a > 0 => Cardinality(MediasOf(i)) + a <= MaxMedias
      BY <2>1, <2>4, <3>1 DEF WithinLimit
    <3>8. Cardinality(Uploaded(i)) + Cardinality(Pending(i)) <= K
      BY <3>3 DEF RoomLeft
    <3>9. Cardinality(Uploaded(i)) + Cardinality(Pending(i)') <= K
      BY <3>2, <3>4, <3>5, <3>6, <3>7, <3>8 DEF SoundConstants
    <3>10. ASSUME NEW o \in Int
           PROVE  Cardinality(Ordered(i, o)) + Cardinality(Claiming(i, o)') <= Cardinality(Requests)
      <4>1. CASE Ordered(i, o) = {}
        BY <3>5, <4>1, FS_EmptySet
      <4>2. CASE Ordered(i, o) # {}
        <5>1. PICK m \in MediasOf(i) : m.order = o
          BY <4>2 DEF Ordered, Uploaded
        <5>2. PICK c : c = q.copy
          OBVIOUS
        <5>3. IsFiniteSet(c) /\ \A n \in c : n.order \in Int
          BY <2>2, <5>2 DEF SoundEdit, Request, Media
        <5>4. MaxOrder(c) \in Int /\ m.order <= MaxOrder(c)
          BY <2>1, <2>4, <5>1, <5>2, <5>3, MaxOrderIs
        <5>5. First(r)' = MaxOrder(c) + 1
          BY <2>1, <2>2, <5>2, EditUpdate DEF First
        <5>6. r \notin Claiming(i, o)'
          BY <5>1, <5>4, <5>5 DEF Claiming
        <5>7. Claiming(i, o)' \subseteq Claiming(i, o)
          BY <3>5, <5>6
        <5>8. /\ Cardinality(Claiming(i, o)') <= Cardinality(Claiming(i, o))
              /\ Cardinality(Claiming(i, o)) \in Nat /\ Cardinality(Ordered(i, o)) \in Nat
          BY <5>7, CountsFinite, FS_Subset
        <5>9. Cardinality(Ordered(i, o)) + Cardinality(Claiming(i, o)) <= Cardinality(Requests)
          BY DEF RoomLeft
        <5>10. Cardinality(Requests) \in Nat
          BY FS_CardinalityType DEF SoundConstants
        <5> QED BY <3>5, <5>8, <5>9, <5>10
      <4>3. Cardinality(Requests) \in Nat
        BY FS_CardinalityType DEF SoundConstants
      <4> QED BY <4>1, <4>2
    <3> QED BY <3>3, <3>6, <3>9, <3>10 DEF RoomLeft
  <2> QED BY <2>3, <2>4
<1> QED BY <1>2, <1>3

\* Of rows with different orders one at most has a given order.
LEMMA OneAtMost ==
  ASSUME NEW new, NEW o, \A m, n \in new : m.order = n.order => m = n
  PROVE  /\ IsFiniteSet({m \in new : m.order = o})
         /\ Cardinality({m \in new : m.order = o}) \in {0, 1}
<1>1. PICK S : S = {m \in new : m.order = o}
  OBVIOUS
<1>2. CASE S = {}
  BY <1>1, <1>2, FS_EmptySet
<1>3. CASE S # {}
  <2>1. PICK x \in S : TRUE
    BY <1>3
  <2>2. S = {x}
    BY <1>1, <2>1
  <2>3. IsFiniteSet({x}) /\ Cardinality({x}) = 1
    BY FS_Singleton
  <2> QED BY <1>1, <2>2, <2>3
<1> QED BY <1>2, <1>3

\* What was to be added is.
LEMMA TurnRoom ==
  ASSUME SoundConstants, SoundAttached, SoundAttached', NEW r \in Requests, Return(r),
         NEW i \in ItemId, RoomLeft(i),
         AddsTo(r, i), NEW new, IsFiniteSet(new), Cardinality(new) <= Adding(r),
         Uploaded(i)' \subseteq Uploaded(i) \union new,
         \A m \in new : First(r) <= m.order /\ m.order < First(r) + Adding(r),
         \A m, n \in new : m.order = n.order => m = n
  PROVE  RoomLeft(i)'
<1>1. PICK K : K = Cardinality(Requests) * MaxMedias
  OBVIOUS
<1>2. /\ K \in Nat /\ Cardinality(Others(r, i)) \in Nat
      /\ Cardinality(Pending(i)) = Cardinality(Others(r, i)) + Adding(r) /\ Adding(r) \in Nat
  BY <1>1, PendingIs, AddingIs
<1>3. /\ Cardinality(Pending(i)') \in Nat
      /\ Cardinality(Pending(i)') <= Cardinality(Others(r, i))
      /\ \A o : /\ Cardinality(Claiming(i, o)') \in Nat
                /\ Claiming(i, o)' \subseteq Claiming(i, o) \ {r}
  <2>1. PICK a \in Nat : a = 0
    OBVIOUS
  <2>2. Idle.left + Len(Idle.urls) = a
    <3>1. Idle.left = 0 /\ Idle.urls = <<>> /\ Len(<<>>) = 0
      BY DEF Idle
    <3> QED BY <2>1, <3>1
  <2>3. Become(r, Idle) /\ AddsNothing(Idle)
    BY ReturnMoves DEF Return
  <2>4. Cardinality(Others(r, i)) + 0 = Cardinality(Others(r, i))
    BY <1>2
  <2> QED BY <2>2, <2>3, <2>4, PendingNow
<1>4. /\ IsFiniteSet(Uploaded(i)) /\ Cardinality(Uploaded(i)) \in Nat /\ Cardinality(new) \in Nat
  BY CountsFinite, FS_CardinalityType
<1>5. Cardinality(Uploaded(i)') <= Cardinality(Uploaded(i)) + Cardinality(new)
      /\ Cardinality(Uploaded(i)') \in Nat
  <2>1. PICK u : u = Uploaded(i) \union new
    OBVIOUS
  <2>2. /\ IsFiniteSet(u)
        /\ Cardinality(u) = Cardinality(Uploaded(i)) + Cardinality(new) - Cardinality(Uploaded(i) \cap new)
        /\ Cardinality(Uploaded(i) \cap new) \in Nat
    BY <1>4, <2>1, FS_Union, FS_Subset, FS_CardinalityType
  <2>3. Cardinality(Uploaded(i)') <= Cardinality(u) /\ Cardinality(Uploaded(i)') \in Nat /\ Cardinality(u) \in Nat
    BY <2>1, <2>2, FS_Subset, FS_CardinalityType
  <2> QED BY <1>4, <2>2, <2>3
<1>6. Cardinality(Uploaded(i)') + Cardinality(Pending(i)') <= K
  BY <1>1, <1>2, <1>3, <1>4, <1>5 DEF RoomLeft
<1>7. ASSUME NEW o \in Int
      PROVE  Cardinality(Ordered(i, o)') + Cardinality(Claiming(i, o)') <= Cardinality(Requests)
  <2>1. PICK s : s = {m \in new : m.order = o}
    OBVIOUS
  <2>2. IsFiniteSet(s) /\ Cardinality(s) \in {0, 1}
    BY <2>1, OneAtMost
  <2>3. /\ IsFiniteSet(Ordered(i, o)) /\ Cardinality(Ordered(i, o)) \in Nat
        /\ IsFiniteSet(Claiming(i, o)) /\ Cardinality(Claiming(i, o)) \in Nat
    BY CountsFinite
  <2>4. PICK c : c = Claiming(i, o)
    OBVIOUS
  <2>5. IsFiniteSet(c \ {r}) /\ Cardinality(c \ {r}) = IF r \in c THEN Cardinality(c) - 1 ELSE Cardinality(c)
    BY <2>3, <2>4, FS_RemoveElement
  <2>6. Cardinality(Claiming(i, o)') <= Cardinality(c \ {r})
    BY <1>3, <2>4, <2>5, FS_Subset
  <2>7. Ordered(i, o)' \subseteq Ordered(i, o) \union s
    BY <2>1 DEF Ordered
  <2>8. Cardinality(Ordered(i, o)) + Cardinality(c) <= Cardinality(Requests) /\ Cardinality(Requests) \in Nat
    BY <2>4, FS_CardinalityType DEF SoundConstants, RoomLeft
  <2>9. CASE s = {}
    <3>1. Cardinality(Ordered(i, o)') <= Cardinality(Ordered(i, o)) /\ Cardinality(Ordered(i, o)') \in Nat
      BY <2>3, <2>7, <2>9, FS_Subset, FS_CardinalityType
    <3>2. Cardinality(c \ {r}) \in Nat /\ Cardinality(c \ {r}) <= Cardinality(c) /\ Cardinality(c) \in Nat
      <4>1. Cardinality(c) \in Nat
        BY <2>3, <2>4
      <4>2. Cardinality(c \ {r}) \in Nat
        BY <2>5, FS_CardinalityType
      <4> QED BY <2>5, <4>1, <4>2
    <3> QED BY <1>3, <2>3, <2>6, <2>8, <3>1, <3>2
  <2>10. CASE s # {}
    <3>1. PICK m \in new : m.order = o
      BY <2>1, <2>10
    <3>2. r \in c
      BY <2>4, <3>1 DEF Claiming
    <3>3. PICK u : u = Ordered(i, o) \union s
      OBVIOUS
    <3>4. /\ IsFiniteSet(u)
          /\ Cardinality(u) = Cardinality(Ordered(i, o)) + Cardinality(s) - Cardinality(Ordered(i, o) \cap s)
          /\ Cardinality(Ordered(i, o) \cap s) \in Nat
      BY <2>2, <2>3, <3>3, FS_Union, FS_Subset, FS_CardinalityType
    <3>5. Cardinality(Ordered(i, o)') <= Cardinality(u) /\ Cardinality(Ordered(i, o)') \in Nat
      BY <2>7, <3>3, <3>4, FS_Subset, FS_CardinalityType
    <3>6. Cardinality(u) \in Nat /\ Cardinality(u) <= Cardinality(Ordered(i, o)) + 1
      <4>1. Cardinality(u) \in Nat
        BY <3>4, FS_CardinalityType
      <4>2. PICK x, y, z, w : /\ x = Cardinality(Ordered(i, o)) /\ y = Cardinality(s)
                              /\ z = Cardinality(u) /\ w = Cardinality(Ordered(i, o) \cap s)
        OBVIOUS
      <4>3. x \in Nat /\ y \in {0, 1} /\ w \in Nat /\ z = x + y - w
        BY <2>2, <2>3, <3>4, <4>2
      <4>4. z <= x + 1
        BY <4>3
      <4> QED BY <4>1, <4>2, <4>4
    <3>7. Cardinality(c \ {r}) = Cardinality(c) - 1 /\ Cardinality(c) \in Nat
      BY <2>3, <2>4, <2>5, <3>2
    <3> QED BY <1>3, <2>3, <2>6, <2>8, <3>5, <3>6, <3>7
  <2> QED BY <2>9, <2>10
<1> QED BY <1>1, <1>6, <1>7 DEF RoomLeft

LEMMA AddRoom ==
  ASSUME SoundConstants, SoundAttached, SoundAttached', NEW r \in Requests,
         NEW i \in ItemId, RoomLeft(i),
         AppendMedias(r) \/ Refill(r)
  PROVE  RoomLeft(i)'
<1>p. PICK p : p = req[r]
  OBVIOUS
<1>1. /\ p \in Request /\ SoundEdit(p)
      /\ AppendMedias(r) => p.op = "append" /\ p.pc = "append"
      /\ Refill(r) => p.op = "replace" /\ p.pc = "refill"
      /\ MaxOrder(p.copy) \in Int
  BY <1>p, AddsAre DEF SoundAttached
<1>2. PICK last \in Int : last = IF p.op = "append" THEN MaxOrder(p.copy) ELSE -1
  BY <1>1
<1>3. First(r) = last + 1
  BY <1>p, <1>1, <1>2 DEF First
<1>4. InsertMedias(p.item, Rows(p.item, p.urls, last)) /\ Return(r)
  BY <1>p, <1>1, <1>2 DEF AppendMedias, Refill
<1>5. PICK new : new = Rows(p.item, p.urls, last)
  OBVIOUS
<1>6. p.item \in ItemId /\ p.urls \in Seq(File)
  BY <1>1 DEF SoundEdit, Request
<1>7. PICK n : n = Len(p.urls)
  OBVIOUS
<1>8. /\ IsFiniteSet(new) /\ Cardinality(new) <= n
      /\ \A m \in new : m.item = p.item /\ last < m.order /\ m.order <= last + n /\ m \in Media
      /\ \A m, k \in new : m.order = k.order => m = k
  <2>1. PICK i1 \in ItemId, urls \in Seq(File) : i1 = p.item /\ urls = p.urls
    BY <1>6
  <2>2. /\ IsFiniteSet(Rows(i1, urls, last)) /\ Cardinality(Rows(i1, urls, last)) <= Len(urls)
        /\ \A m \in Rows(i1, urls, last) :
             m.item = i1 /\ last < m.order /\ m.order <= last + Len(urls) /\ m \in Media
        /\ \A m, k \in Rows(i1, urls, last) : m.order = k.order => m = k
    BY RowsAre
  <2> QED BY <1>5, <1>7, <2>1, <2>2
<1>9. medias' \subseteq medias \union new
  BY <1>4, <1>5 DEF InsertMedias
<1>10. CASE p.item # i
  <2>1. Become(r, Idle) /\ AddsNothing(Idle)
    BY <1>4, ReturnMoves DEF Return
  <2>2. \A m \in medias' : m.item = i /\ ~ m.body => m \in medias
    BY <1>8, <1>9, <1>10
  <2> QED BY <2>1, <2>2, QuietMove
<1>11. CASE p.item = i
  <2>1. AddsTo(r, i)
    BY <1>p, <1>1, <1>11 DEF AddsTo
  <2>2. PICK a : a = Adding(r)
    OBVIOUS
  <2>3. a \in Nat /\ n \in Nat /\ n <= a
    <3>1. a = p.left + n /\ n \in Nat /\ p.left \in Nat
      BY <1>p, <1>1, <1>6, <1>7, <2>2 DEF SoundConstants, Adding, Request
    <3> QED BY <3>1
  <2>4. Cardinality(new) <= Adding(r)
    BY <1>8, <2>2, <2>3, FS_CardinalityType
  <2>5. \A m \in new : First(r) <= m.order /\ m.order < First(r) + Adding(r)
    <3>1. \A m \in new : m.order \in Int
      BY <1>8 DEF Media
    <3>2. \A m \in new : last + 1 <= m.order /\ m.order < (last + 1) + a
      BY <1>8, <2>3, <3>1
    <3> QED BY <1>3, <2>2, <3>2
  <2>6. Uploaded(i)' \subseteq Uploaded(i) \union new
    BY <1>9 DEF Uploaded, MediasOf
  <2> QED BY <1>4, <1>8, <2>1, <2>4, <2>5, <2>6, TurnRoom
<1> QED BY <1>10, <1>11

\* A new item has only what its request brings.
LEMMA InsertRoom ==
  ASSUME SoundConstants, SoundAttached, SoundAttached', NEW r \in Requests,
         NEW i \in ItemId, RoomLeft(i), Insert(r)
  PROVE  RoomLeft(i)'
<1>p. PICK p : p = req[r]
  OBVIOUS
<1>1. p \in Request /\ SoundEdit(p) /\ p.pc = "insert"
  BY <1>p DEF SoundAttached, Insert
<1>2. PICK new : new = Rows(nextItem, p.urls, -1)
  OBVIOUS
<1>3. nextItem \in ItemId /\ p.urls \in Seq(File)
  BY <1>1 DEF SoundConstants, SoundAttached, AttachedRows, Insert, ItemId, Request
<1>4. PICK n : n = Len(p.urls)
  OBVIOUS
<1>5. n \in Nat /\ n <= MaxMedias
  <2>1. n \in Nat /\ p.left \in Nat
    BY <1>1, <1>3, <1>4 DEF SoundConstants, Request
  <2>2. p.left + n <= MaxMedias
    BY <1>1, <1>4 DEF SoundEdit
  <2> QED BY <2>1, <2>2 DEF SoundConstants
<1>6. /\ IsFiniteSet(new) /\ Cardinality(new) <= n
      /\ \A m \in new : m.item = nextItem
      /\ \A m, k \in new : m.order = k.order => m = k
  BY <1>2, <1>3, <1>4, RowsAre
<1>7. medias' = medias \union new /\ Return(r)
  BY <1>p, <1>2 DEF Insert, ghosts
<1>8. Become(r, Idle) /\ AddsNothing(Idle)
  BY <1>7, ReturnMoves DEF Return
<1>9. CASE i # nextItem
  <2>1. \A m \in medias' : m.item = i /\ ~ m.body => m \in medias
    BY <1>6, <1>7, <1>9
  <2> QED BY <1>8, <2>1, QuietMove
<1>10. CASE i = nextItem
  <2>0. i \in Nat /\ i # None
    BY DEF SoundConstants, ItemId
  <2>1. MediasOf(i) = {}
    <3>1. i \notin DOMAIN items
      BY <1>10, <2>0 DEF SoundAttached, AttachedRows
    <3> QED BY <2>0, <3>1 DEF MediasOf, SoundAttached, AttachedRows
  <2>2. \A s \in Requests : ~ AddsTo(s, i)
    BY <1>10, <2>0, AddsToOld
  <2>3. Others(r, i) = {} /\ \A o : Claiming(i, o) = {}
    BY <2>2 DEF Others, Claiming
  <2>4. /\ Cardinality(Pending(i)') \in Nat
        /\ Cardinality(Pending(i)') <= Cardinality(Others(r, i)) + 0
        /\ \A o : Claiming(i, o)' \subseteq Claiming(i, o) \ {r}
    <3>1. PICK a \in Nat : a = 0
      OBVIOUS
    <3>2. Idle.left + Len(Idle.urls) = a
      <4>1. Idle.left = 0 /\ Idle.urls = <<>> /\ Len(<<>>) = 0
        BY DEF Idle
      <4> QED BY <3>1, <4>1
    <3> QED BY <1>8, <3>2, PendingNow
  <2>5. Cardinality({}) = 0
    BY FS_EmptySet
  <2>6. Cardinality(Pending(i)') = 0 /\ \A o : Claiming(i, o)' = {}
    BY <2>3, <2>4, <2>5
  <2>7. Uploaded(i)' \subseteq new
    BY <1>7, <2>1 DEF Uploaded, MediasOf
  <2>8. Cardinality(Uploaded(i)') \in Nat /\ Cardinality(Uploaded(i)') <= n
    <3>1. Cardinality(new) \in Nat /\ Cardinality(Uploaded(i)') <= Cardinality(new) /\ Cardinality(Uploaded(i)') \in Nat
      BY <1>6, <2>7, FS_Subset, FS_CardinalityType
    <3> QED BY <1>5, <1>6, <3>1
  <2>9. PICK K : K = Cardinality(Requests) * MaxMedias
    OBVIOUS
  <2>10. K \in Nat /\ MaxMedias <= K
    BY <2>9, PendingIs
  <2>11. Cardinality(Uploaded(i)') + Cardinality(Pending(i)') <= K
    BY <1>5, <2>6, <2>8, <2>10 DEF SoundConstants
  <2>12. Cardinality(Requests) \in Nat /\ Cardinality(Requests) >= 1
    <3>1. IsFiniteSet({r}) /\ Cardinality({r}) = 1
      BY FS_Singleton
    <3>2. Cardinality({r}) <= Cardinality(Requests)
      BY FS_Subset DEF SoundConstants
    <3> QED BY <3>1, <3>2, FS_CardinalityType DEF SoundConstants
  <2>13. ASSUME NEW o \in Int
         PROVE  Cardinality(Ordered(i, o)') + Cardinality(Claiming(i, o)') <= Cardinality(Requests)
    <3>1. PICK s : s = {m \in new : m.order = o}
      OBVIOUS
    <3>2. IsFiniteSet(s) /\ Cardinality(s) \in {0, 1}
      BY <1>6, <3>1, OneAtMost
    <3>3. Ordered(i, o)' \subseteq s
      BY <2>7, <3>1 DEF Ordered
    <3>4. Cardinality(Ordered(i, o)') <= Cardinality(s) /\ Cardinality(Ordered(i, o)') \in Nat
      BY <3>2, <3>3, FS_Subset, FS_CardinalityType
    <3> QED BY <2>5, <2>6, <2>12, <3>2, <3>4
  <2> QED BY <2>9, <2>11, <2>13 DEF RoomLeft
<1> QED BY <1>9, <1>10

LEMMA RoomInit == ASSUME SoundConstants, Init PROVE \A i \in ItemId : RoomLeft(i)
<1>1. medias = {} /\ \A r \in Requests : req[r] = Idle
  BY DEF Init
<1>2. ASSUME NEW i \in ItemId PROVE RoomLeft(i)
  <2>1. \A r \in Requests : ~ AddsTo(r, i)
    BY <1>1 DEF AddsTo, Idle
  <2>2. Uploaded(i) = {} /\ Pending(i) = {} /\ \A o : Ordered(i, o) = {} /\ Claiming(i, o) = {}
    BY <1>1, <2>1 DEF Uploaded, MediasOf, Pending, Ordered, Claiming
  <2>3. PICK n, m : n = Cardinality(Requests) /\ m = MaxMedias
    OBVIOUS
  <2>4. n \in Nat /\ m \in Nat /\ n * m \in Nat
    <3>1. n \in Nat /\ m \in Nat
      BY <2>3, FS_CardinalityType DEF SoundConstants
    <3> QED BY <3>1
  <2>5. 0 + 0 <= n * m /\ 0 + 0 <= n
    BY <2>4
  <2>6. Cardinality({}) = 0
    BY FS_EmptySet
  <2> QED BY <2>2, <2>3, <2>5, <2>6 DEF RoomLeft
<1> QED BY <1>2

LEMMA RoomNext ==
  ASSUME SoundConstants, SoundAttached, SoundAttached', Next, NEW i \in ItemId, RoomLeft(i)
  PROVE  RoomLeft(i)'
<1>1. CASE Restart
  BY <1>1, RestartRoom
<1>2. ASSUME NEW r \in Requests, Step(r) PROVE RoomLeft(i)'
  <2>1. Acts(r)
    BY <1>2, StepActs
  <2>2. CASE Looks(r)
    BY <2>2, LookLooks, LooksRoom
  <2>3. CASE DeleteFile(r)
    <3>1. PICK m \in req[r].copy, q \in Request :
            Become(r, q) /\ q.op = "erase" /\ q.pc = "files"
      BY <2>3, DeleteFileMoves
    <3>2. AddsNothing(q) /\ medias' = medias
      BY <2>3, <3>1 DEF AddsNothing, DeleteFile, rows
    <3> QED BY <3>1, <3>2, QuietMove
  <2> QED BY <2>1, <2>2, <2>3, CountRoom, ClearRoom, RemovalRoom, InsertRoom, AddRoom, UploadRoom DEF Acts
<1> QED BY <1>1, <1>2 DEF Next

LEMMA UploadsOfRoom ==
  ASSUME SoundConstants, SoundAttached, \A i \in ItemId : RoomLeft(i) PROVE UploadsBounded
<1> SUFFICES ASSUME NEW i \in DOMAIN items
             PROVE  /\ Cardinality(Uploaded(i)) + Cardinality(Pending(i)) <= Cardinality(Requests) * MaxMedias
                    /\ \A m \in Uploaded(i) :
                         Cardinality({n \in Uploaded(i) : n.order = m.order}) <= Cardinality(Requests)
  BY DEF UploadsBounded
<1>1. i \in ItemId /\ RoomLeft(i)
  BY DEF SoundAttached, AttachedRows
<1>2. ASSUME NEW m \in Uploaded(i)
      PROVE  Cardinality({n \in Uploaded(i) : n.order = m.order}) <= Cardinality(Requests)
  <2>1. PICK o \in Int : o = m.order
    BY DEF Uploaded, MediasOf, SoundAttached, AttachedRows, Media
  <2>2. Cardinality(Ordered(i, o)) + Cardinality(Claiming(i, o)) <= Cardinality(Requests)
    BY <1>1 DEF RoomLeft
  <2>3. Cardinality(Ordered(i, o)) \in Nat /\ Cardinality(Claiming(i, o)) \in Nat
    BY <1>1, CountsFinite
  <2>4. Cardinality(Ordered(i, o)) <= Cardinality(Requests)
    BY <2>2, <2>3, FS_CardinalityType DEF SoundConstants
  <2> QED BY <2>1, <2>4 DEF Ordered
<1> QED BY <1>1, <1>2 DEF RoomLeft

AttachmentsInv == AttachedOK /\ \A i \in ItemId : RoomLeft(i)

LEMMA AttachmentsInit == SoundConstants /\ Init => AttachmentsInv
BY AttachedInit, RoomInit DEF AttachmentsInv

LEMMA AttachmentsNext == SoundConstants /\ AttachmentsInv /\ [Next]_vars => AttachmentsInv'
<1> SUFFICES ASSUME SoundConstants, AttachmentsInv, [Next]_vars PROVE AttachmentsInv'
  OBVIOUS
<1>1. CASE Next
  <2>1. AttachedOK'
    BY <1>1, AttachedNext DEF AttachmentsInv
  <2>2. SoundAttached /\ SoundAttached'
    BY <2>1 DEF AttachmentsInv, AttachedOK
  <2>3. ItemId' = ItemId
    OBVIOUS
  <2>4. \A i \in ItemId : RoomLeft(i)'
    BY <1>1, <2>2, RoomNext DEF AttachmentsInv
  <2> QED BY <2>1, <2>4 DEF AttachmentsInv
<1>2. CASE UNCHANGED vars
  <2>1. UNCHANGED <<items, medias, files, nextItem, nextFile, torn, strayed, req>>
    BY <1>2 DEF vars
  <2>2. SoundAttached'
    BY <2>1 DEF AttachmentsInv, AttachedOK, SoundAttached, AttachedRows, SoundEdit
  <2>3. Seen' = Seen /\ \A i : Going(i)' <=> Going(i)
    BY <2>1 DEF Seen, Going
  <2>4. OneItem' /\ FilesThere' /\ OwnUrls'
    BY <2>1, <2>3 DEF AttachmentsInv, AttachedOK, OneItem, FilesThere, OwnUrls, Kept
  <2>5. ASSUME NEW i \in ItemId PROVE RoomLeft(i)'
    <3>1. /\ Uploaded(i)' = Uploaded(i) /\ Pending(i)' = Pending(i)
          /\ \A o : Ordered(i, o)' = Ordered(i, o) /\ Claiming(i, o)' = Claiming(i, o)
      BY <2>1 DEF Uploaded, MediasOf, Pending, AddsTo, Adding, Ordered, Claiming, First
    <3> QED BY <3>1 DEF AttachmentsInv, RoomLeft
  <2> QED BY <2>2, <2>4, <2>5 DEF AttachmentsInv, AttachedOK
<1> QED BY <1>1, <1>2

\* highlight-delete.service.ts deletes the files in S3, then the row: a media that is shown
\* has its file, unless its item is being deleted or a restart has cut that short, or a body
\* has given the url to an item that did not show it.
THEOREM FilesStay == SoundConstants => (Spec => []FilesKept)
<1> SUFFICES ASSUME SoundConstants PROVE Spec => []FilesKept
  OBVIOUS
<1>1. Init => AttachmentsInv
  BY AttachmentsInit
<1>2. AttachmentsInv /\ [Next]_vars => AttachmentsInv'
  BY AttachmentsNext
<1>3. AttachmentsInv => FilesKept
  BY FilesOfRows DEF AttachmentsInv
<1> QED BY <1>1, <1>2, <1>3, PTL DEF Spec

\* validateMediaCountForUpdate counts medias before the uploads and updateReport clears them
\* before it inserts: overlapping requests exceed the limit by at most the limit for each,
\* in medias that were uploaded, whatever else bodies have given.
THEOREM LimitRaceBounded == SoundConstants => (Spec => []UploadsBounded)
<1> SUFFICES ASSUME SoundConstants PROVE Spec => []UploadsBounded
  OBVIOUS
<1>1. Init => AttachmentsInv
  BY AttachmentsInit
<1>2. AttachmentsInv /\ [Next]_vars => AttachmentsInv'
  BY AttachmentsNext
<1>3. AttachmentsInv => UploadsBounded
  BY UploadsOfRoom DEF AttachmentsInv, AttachedOK
<1> QED BY <1>1, <1>2, <1>3, PTL DEF Spec
=============================================================================

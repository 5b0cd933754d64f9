----------------------------- MODULE Attachments -----------------------------
(***************************************************************************)
(* Highlights, community posts and reports: a row, the rows of its medias, *)
(* and the files in S3 the medias point at.                                *)
(*                                                                         *)
(* Files are uploaded one by one before any row is written, and no         *)
(* transaction spans S3 and MySQL.  The services share the highlight rows: *)
(* HighlightService edits them in an azit, CommunityHighlightService in    *)
(* the community.  A request that is refused before it changes anything    *)
(* does not appear; whether its caller is still a member of the azit is    *)
(* left open.                                                              *)
(***************************************************************************)
EXTENDS Naturals, Integers, FiniteSets, Sequences, FiniteSetsExt

CONSTANTS
  Users,
  Requests,   \* concurrent requests in flight
  Kinds,      \* bound: the kinds of items that occur
  MaxMedias,  \* files one request may bring, and medias of a highlight (10 in the code)
  MaxItem,    \* bound: ids handed out to highlights, posts and reports
  MaxFile,    \* bound: files uploaded
  Urls, Orders, \* bounds: urls and orders given in a body
  None        \* absent value

VARIABLES
  items,    \* rows of highlights, community_posts and reports: a function on their ids
  medias,   \* rows of community_medias and report_medias
  files,    \* files in the bucket
  nextItem, nextFile,
  torn,     \* ghost: items whose deletion a restart has cut short
  strayed,  \* ghost: urls that a body gave an item that did not show them
  req       \* local state of every request

vars == <<items, medias, files, nextItem, nextFile, torn, strayed, req>>

ItemId == 1..MaxItem
File   == 1..MaxFile
Item   == [kind: Kinds, owner: Users]
\* 0: a string that is the url of no file.
Url    == File \union {0}
\* body, a ghost: the url was given in the body of a request, not uploaded by it.
Media  == [item: ItemId \union {None}, url: Url, order: Int, body: BOOLEAN]

Ops == {"idle", "create", "append", "rewrite", "replace", "erase", "delete", "withdraw"}
Pcs == {"idle", "medias", "text", "upload", "insert", "append", "rewrite",
        "clear", "refill", "files", "row"}
Request ==
  [op: Ops, pc: Pcs,
   user: Users \union {None},
   kind: Kinds \union {None},     \* of the item to create
   item: ItemId \union {None},
   left: 0..MaxMedias,            \* files still to upload
   urls: Seq(File),               \* mediaUrls: files uploaded
   copy: SUBSET Media]            \* medias as read

Idle == [op |-> "idle", pc |-> "idle", user |-> None, kind |-> None, item |-> None,
         left |-> 0, urls |-> <<>>, copy |-> {}]

TypeOK ==
  /\ DOMAIN items \subseteq ItemId
  /\ \A i \in DOMAIN items : items[i] \in Item
  /\ medias \subseteq Media
  /\ files \subseteq File
  /\ nextItem \in 1..MaxItem + 1 /\ nextFile \in 1..MaxFile + 1
  /\ torn \subseteq ItemId /\ strayed \subseteq File
  /\ req \in [Requests -> Request]
  /\ \A m \in medias : m.item # None => m.item \in DOMAIN items

Init ==
  /\ items = [i \in {} |-> None] /\ medias = {} /\ files = {}
  /\ nextItem = 1 /\ nextFile = 1 /\ torn = {} /\ strayed = {}
  /\ req = [r \in Requests |-> Idle]
-----------------------------------------------------------------------------
At(r, op, pc) == req[r].op = op /\ req[r].pc = pc
Become(r, q)  == req' = [req EXCEPT ![r] = q]
Goto(r, pc)   == Become(r, [req[r] EXCEPT !.pc = pc])
Return(r)     == Become(r, Idle)
Begin(r, q)   == req[r] = Idle /\ Become(r, q)

rows   == <<items, medias, nextItem>>
ghosts == <<torn, strayed>>
Reads  == UNCHANGED <<rows, files, nextFile, ghosts>>

MediasOf(i) == {m \in medias : m.item = i}

\* Rows of the files uploaded, in the order of the upload, after the order `last`.
Rows(i, urls, last) ==
  {[item |-> i, url |-> urls[k], order |-> last + k, body |-> FALSE] : k \in DOMAIN urls}

\* INSERT of medias: a foreign key to the item, without which nothing is inserted.
InsertMedias(i, new) == medias' = IF i \in DOMAIN items THEN medias \union new ELSE medias

\* DELETE of an item, with what its foreign keys do to the medias of a highlight (set
\* null) and of a post (cascade).  Those of a report restrict it, see Withdraw.
Deleted(i) == items' = [j \in DOMAIN items \ {i} |-> items[j]]

Detached(i) == {IF m.item = i THEN [m EXCEPT !.item = None] ELSE m : m \in medias}
-----------------------------------------------------------------------------
(* Create: upload, then insert the item and its medias in one transaction. *)

StartCreate(r, kind, counts) ==
  /\ nextItem <= MaxItem
  /\ \E u \in Users, n \in counts :
       Begin(r, [Idle EXCEPT !.op = "create", !.pc = IF n = 0 THEN "insert" ELSE "upload",
                             !.user = u, !.kind = kind, !.left = n])
  /\ Reads

\* validateMediaFiles: at least one file.
CreateHighlight(r)          == StartCreate(r, "highlight", 1..MaxMedias)
CreateCommunityHighlight(r) == StartCreate(r, "highlight", 0..MaxMedias)
CreatePost(r)               == StartCreate(r, "post", 0..MaxMedias)
CreateReport(r)             == StartCreate(r, "report", 0..MaxMedias)

\* uploadFileToS3 of the next file.  When it fails the request returns, and what it has
\* uploaded stays.
AfterUpload(op) == CASE op = "create" -> "insert" [] op = "append" -> "append"
                     [] op = "replace" -> "clear"

Upload(r) ==
  LET q == req[r] IN
  /\ q.pc = "upload"
  /\ nextFile <= MaxFile
  /\ files' = files \union {nextFile}
  /\ nextFile' = nextFile + 1
  /\ Become(r, [q EXCEPT !.left = @ - 1, !.urls = Append(@, nextFile),
                         !.pc = IF q.left = 1 THEN AfterUpload(q.op) ELSE @])
  /\ UNCHANGED <<rows, ghosts>>

UploadFails(r) == req[r].pc = "upload" /\ Return(r) /\ Reads

InsertFails(r) == req[r].pc = "insert" /\ Return(r) /\ Reads

Insert(r) ==
  LET q == req[r] IN
  /\ q.pc = "insert"
  /\ nextItem <= MaxItem
  /\ items' = [i \in DOMAIN items \union {nextItem} |->
                 IF i = nextItem THEN [kind |-> q.kind, owner |-> q.user] ELSE items[i]]
  /\ medias' = medias \union Rows(nextItem, q.urls, -1)
  /\ nextItem' = nextItem + 1
  /\ Return(r)
  /\ UNCHANGED <<files, nextFile, ghosts>>
-----------------------------------------------------------------------------
(* Update and delete: first the item is found and its owner compared.      *)

Owned(u, kind) == {i \in DOMAIN items : items[i].kind = kind /\ items[i].owner = u}

StartEdit(r, op, kind, pc, n) ==
  /\ \E u \in Users : \E i \in Owned(u, kind) :
       Begin(r, [Idle EXCEPT !.op = op, !.pc = pc, !.user = u, !.item = i, !.left = n,
                             !.copy = IF op \in {"rewrite", "erase"} THEN MediasOf(i) ELSE {}])
  /\ Reads

\* HighlightUpdateService: the medias are read, then counted with the new ones.
UpdateHighlight(r) == \E n \in 0..MaxMedias : StartEdit(r, "append", "highlight", "medias", n)

\* Mutant of WithinLimit: only the new files are counted.
WithinLimitNew(existing, n) == n <= MaxMedias

\* validateMediaCountForUpdate.
WithinLimit(existing, n) == n > 0 => existing + n <= MaxMedias

ReadMedias(r) ==
  LET q == req[r] IN
  /\ q.pc = "medias"
  /\ IF WithinLimit(Cardinality(MediasOf(q.item)), q.left)
       THEN Become(r, [q EXCEPT !.copy = MediasOf(q.item), !.pc = "text"])
       ELSE Return(r)
  /\ Reads

\* The text is updated, unless there is none or the row has gone; then the uploads.
WriteText(r) ==
  /\ req[r].pc = "text"
  /\ \/ req[r].left > 0 /\ Goto(r, "upload")
     \/ (req[r].left = 0 \/ req[r].item \notin DOMAIN items) /\ Return(r)
  /\ Reads

\* maxOrder, from the medias read before the uploads.
MaxOrder(ms) == IF ms = {} THEN -1 ELSE Max({m.order : m \in ms})

AppendMedias(r) ==
  LET q == req[r] IN
  /\ q.pc = "append"
  /\ InsertMedias(q.item, Rows(q.item, q.urls, MaxOrder(q.copy)))
  /\ Return(r)
  /\ UNCHANGED <<items, nextItem, files, nextFile, ghosts>>

\* The community's update of a highlight or a post: the item is read with its medias, which
\* are replaced in one transaction that fails when the item has gone.  (A body without
\* medias changes the text only, which shows nowhere here.)
UpdateCommunityHighlight(r) == StartEdit(r, "rewrite", "highlight", "rewrite", 0)
UpdatePost(r)               == StartEdit(r, "rewrite", "post", "rewrite", 0)

\* The rows a body may ask for, as many as it likes: of any url, that of another item and of
\* no file as well.  What it asks for matters, and is picked, when it is written.
Given(i) == [item: {i}, url: Urls \intersect (0..nextFile - 1), order: Orders, body: {TRUE}]

UrlsOf(ms) == {m.url : m \in ms}

Rewrite(r) ==
  LET q == req[r] IN
  /\ q.pc = "rewrite"
  /\ IF q.item \in DOMAIN items
       THEN \E ms \in SUBSET Given(q.item) :
              /\ medias' = (medias \ MediasOf(q.item)) \union ms
              /\ strayed' = strayed \union ((UrlsOf(ms) \intersect File) \ UrlsOf(q.copy))
       ELSE UNCHANGED <<medias, strayed>>
  /\ Return(r)
  /\ UNCHANGED <<items, nextItem, files, nextFile, torn>>

\* updateReport with files: the old medias are deleted in one statement and the new ones
\* inserted in the next.  Without files only the text is written.
UpdateReport(r) == \E n \in 1..MaxMedias : StartEdit(r, "replace", "report", "upload", n)

Clear(r) ==
  /\ req[r].pc = "clear"
  /\ medias' = medias \ MediasOf(req[r].item)
  /\ Goto(r, IF req[r].op = "replace" THEN "refill" ELSE "row")
  /\ UNCHANGED <<items, nextItem, files, nextFile, ghosts>>

Refill(r) ==
  /\ req[r].pc = "refill"
  /\ InsertMedias(req[r].item, Rows(req[r].item, req[r].urls, -1))
  /\ Return(r)
  /\ UNCHANGED <<items, nextItem, files, nextFile, ghosts>>
-----------------------------------------------------------------------------
\* HighlightDeleteService: the files read with the highlight, one after the other (an
\* error is logged), then the row.
DeleteHighlight(r) == StartEdit(r, "erase", "highlight", "files", 0)

DeleteFile(r) ==
  /\ req[r].pc = "files"
  /\ \E m \in req[r].copy :
       /\ files' \in {files, files \ {m.url}}
       /\ Become(r, [req[r] EXCEPT !.copy = @ \ {m}])
  /\ UNCHANGED <<rows, nextFile, ghosts>>

FilesDeleted(r) == req[r].pc = "files" /\ req[r].copy = {} /\ Goto(r, "row") /\ Reads

\* Mutant of EraseRow: a foreign key that restricts, as for reports.
EraseRowRestricted(r) ==
  /\ At(r, "erase", "row")
  /\ IF MediasOf(req[r].item) = {} THEN Deleted(req[r].item) ELSE items' = items
  /\ medias' = medias
  /\ Return(r)
  /\ UNCHANGED <<nextItem, files, nextFile, ghosts>>

EraseRow(r) ==
  /\ At(r, "erase", "row")
  /\ Deleted(req[r].item)
  /\ medias' = Detached(req[r].item)
  /\ Return(r)
  /\ UNCHANGED <<nextItem, files, nextFile, ghosts>>

\* The community deletes the medias of a highlight with it, in one transaction; those of a
\* post go by the cascade.  Their files stay.
DeleteCommunityHighlight(r) == StartEdit(r, "delete", "highlight", "row", 0)
DeletePost(r)               == StartEdit(r, "delete", "post", "row", 0)

DeleteRow(r) ==
  /\ At(r, "delete", "row")
  /\ Deleted(req[r].item)
  /\ medias' = medias \ MediasOf(req[r].item)
  /\ Return(r)
  /\ UNCHANGED <<nextItem, files, nextFile, ghosts>>

\* deleteReport deletes the medias, then the row; a media inserted in between keeps it.
DeleteReport(r) == StartEdit(r, "withdraw", "report", "clear", 0)

Withdraw(r) ==
  /\ At(r, "withdraw", "row")
  /\ IF MediasOf(req[r].item) = {} THEN Deleted(req[r].item) ELSE items' = items
  /\ Return(r)
  /\ UNCHANGED <<medias, nextItem, files, nextFile, ghosts>>

\* The process dies: requests in flight go no further.
Restart ==
  /\ \E r \in Requests : req[r] # Idle
  /\ torn' = torn \union {i \in DOMAIN items : \E r \in Requests : req[r].op = "erase" /\ req[r].item = i}
  /\ req' = [r \in Requests |-> Idle]
  /\ UNCHANGED <<rows, files, nextFile, strayed>>
-----------------------------------------------------------------------------
HighlightStep(r) ==
  \/ CreateHighlight(r) \/ CreateCommunityHighlight(r)
  \/ UpdateHighlight(r) \/ ReadMedias(r) \/ WriteText(r) \/ AppendMedias(r)
  \/ UpdateCommunityHighlight(r)
  \/ DeleteHighlight(r) \/ DeleteFile(r) \/ FilesDeleted(r) \/ EraseRow(r)
  \/ DeleteCommunityHighlight(r)
PostStep(r)   == CreatePost(r) \/ UpdatePost(r) \/ DeletePost(r)
ReportStep(r) == \/ CreateReport(r) \/ UpdateReport(r) \/ Refill(r)
                 \/ DeleteReport(r) \/ Withdraw(r)
CommonStep(r) == Upload(r) \/ UploadFails(r) \/ Insert(r) \/ InsertFails(r)
  \/ Rewrite(r) \/ Clear(r) \/ DeleteRow(r)

Step(r) ==
  \/ "highlight" \in Kinds /\ HighlightStep(r)
  \/ "post" \in Kinds /\ PostStep(r)
  \/ "report" \in Kinds /\ ReportStep(r)
  \/ CommonStep(r)

Next == Restart \/ \E r \in Requests : Step(r)
Spec == Init /\ [][Next]_vars
-----------------------------------------------------------------------------
Uploaded(i) == {m \in MediasOf(i) : ~ m.body}

\* A request that has counted, or cleared, the medias of an item and is about to add to it.
AddsTo(r, i) ==
  req[r].item = i /\ (req[r].pc = "refill" \/ (req[r].op = "append" /\ req[r].pc # "medias"))
Adding(r) == req[r].left + Len(req[r].urls)
Pending(i) == UNION {{r} \X (1..Adding(r)) : r \in {s \in Requests : AddsTo(s, i)}}

\* highlight.validator.ts:124 wants at most MaxMedias medias, and a report brings no more.
\* The count is read before the uploads and the old medias of a report are cleared apart
\* from the insertion of the new, so requests that overlap exceed it: by at most the limit
\* for each, and never more.  And no more than one for each of them share one order.
\* This is about medias that were uploaded: what a body gives is as long as the body,
\* which nothing limits, and has the orders it names.
UploadsBounded ==
  \A i \in DOMAIN items :
    /\ Cardinality(Uploaded(i)) + Cardinality(Pending(i)) <= Cardinality(Requests) * MaxMedias
    /\ \A m \in Uploaded(i) :
         Cardinality({n \in Uploaded(i) : n.order = m.order}) <= Cardinality(Requests)

\* What is shown can be fetched: a file goes only after its item has begun to go, and then
\* the item goes too, whatever else is done to it meanwhile (its medias read earlier are
\* given back, others are added), unless the process dies half-way.  A url that a body has
\* taken elsewhere is not kept: it may be no file, and the file goes with either item.
FilesKept ==
  \A m \in medias :
    m.item # None /\ m.url \in File \ files =>
      \/ m.url \in strayed
      \/ m.item \in torn
      \/ \E r \in Requests : req[r].op = "erase" /\ req[r].item = m.item
=============================================================================

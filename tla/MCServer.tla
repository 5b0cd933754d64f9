------------------------------- MODULE MCServer -------------------------------
(***************************************************************************)
(* Small instances for TLC of the parts of the server.  A behaviour is one *)
(* of `Parts`; the variables of the others stay None.                      *)
(*                                                                         *)
(* What clients reach: HTTP requests (Api), sessions and phone numbers     *)
(* (Auth), lists read page by page (Paging), connections in any            *)
(* interleaving (Presence).  What users write: Attachments and ChatRoom.   *)
(* Azits and parties: AzitMembership, AzitSchedule and PartyApplication    *)
(* with one request at a time, where their checks have to hold exactly,    *)
(* and the race of two requests for the seats of one schedule.             *)
(***************************************************************************)
EXTENDS Api, Integers, FiniteSets, TLC

CONSTANTS
  Parts,             \* the parts that are picked from
  Users, Requests, Sockets, MaxTime, MaxMember, MaxFile,  \* of several parts
  Phones, Nicknames, Life, MaxCode,                       \* Auth
  Lists, MaxId, MaxKey, Limit, Shifts,                    \* Paging
  MaxHandlers, MaxRestart,                                \* Presence
  MaxMedias, MaxItem, Urls, Orders,                       \* Attachments
  Azits, MaxRoom, MaxChat,                                \* ChatRoom
  Names, MaxAzit, MaxSchedule, MaxPost, MaxApp,           \* azits and parties
  Solo               \* the request of the parts with one at a time

ASSUME ServerAssumption ==
  /\ IsFiniteSet(Requests) /\ IsFiniteSet(Sockets)
  /\ MaxTime \in Nat /\ MaxCode \in Nat /\ MaxHandlers \in Nat /\ MaxRestart \in Nat
  /\ MaxMember \in Nat /\ MaxRoom \in Nat /\ MaxChat \in Nat
  /\ MaxMedias \in Nat /\ MaxItem \in Nat /\ MaxFile \in Nat
  /\ Orders \subseteq Int /\ IsFiniteSet(Orders)
  /\ MaxAzit \in Nat /\ MaxSchedule \in Nat /\ MaxPost \in Nat /\ MaxApp \in Nat
  /\ None \notin Nat /\ None \notin Phones /\ None \notin Users /\ None \notin Names
  /\ None \notin Callers

VARIABLES
  which,                                                              \* the part picked
  req, now, shown, torn, restarts, files, nextFile, nextMember, posts,  \* of several parts
  users, tokens, codes, nextCode, issued, spent, retired, verified,   \* Auth
  list, present, key, nextId, walk, changed, inserted, deleted,       \* Paging
  owner, live, keys, online, awaiting, notifying, cut,                \* Presence
  items, medias, nextItem, strayed,                                   \* Attachments
  standing, members, rooms, joined, chats, nextRoom, nextChat,        \* ChatRoom
  sockets, subs, seen, caughtUp,
  azits, azitUser, nextAzit, info, iconLost,                          \* AzitMembership
  schedule, participation, nextSchedule,                              \* AzitSchedule
  applications, nextPost, nextApp, admitted                           \* PartyApplication

Session  == INSTANCE Auth
Paged    == INSTANCE Paging
\* A page has room for a row: the number of rows is at least one by default, and where
\* the services check what they are asked for.
ASSUME ListsAssumption ==
  /\ MaxId \in Nat /\ MaxKey \in Nat /\ Limit \in Nat \ {0} /\ Shifts \subseteq Int
  /\ None \notin Paged!Cursor /\ None \notin Paged!Rows /\ None \notin Paged!Walk
Presence == INSTANCE Presence
Attached == INSTANCE Attachments WITH Kinds <- {"highlight", "post", "report"}
Chatted  == INSTANCE ChatRoom
Membership == INSTANCE AzitMembership
                WITH Requests <- {Solo}, MaxMember <- 2, MaxFile <- 2
Times == INSTANCE AzitSchedule
           WITH Requests <- {Solo}, MaxAzit <- 1, Capacities <- {2}, Settable <- {"JOIN"}
Seats == INSTANCE AzitSchedule
           WITH MaxAzit <- 1, MaxTime <- 2, Capacities <- {2}, Settable <- {"JOIN"}
Party == INSTANCE PartyApplication WITH Requests <- {Solo}, MaxRestart <- 0

\* What a part has of its own; what parts share is named beside it.
http        == <<conn, statusOf>>
session     == <<users, tokens, codes, nextCode, issued, spent, retired, verified>>
lists       == <<list, present, key, nextId, walk, changed, inserted, deleted>>
presence    == <<owner, live, keys, online, awaiting, notifying, cut>>
attachments == <<items, medias, nextItem, strayed>>
chatRooms   == <<standing, members, rooms, joined, chats, nextRoom, nextChat, sockets, subs, seen, caughtUp>>
membership  == <<info, iconLost>>
schedules   == <<schedule, participation, nextSchedule>>
parties     == <<applications, nextPost, nextApp, admitted>>

clientParts == <<http, session, lists, presence>>
userParts   == <<attachments, chatRooms>>
azitTables  == <<azits, azitUser, nextAzit>>
azitParts   == <<azitTables, membership, schedules, parties>>

NoHttp     == conn = None /\ statusOf = None
NoSession  == /\ users = None /\ tokens = None /\ codes = None /\ nextCode = None
              /\ issued = None /\ spent = None /\ retired = None /\ verified = None
NoLists    == /\ list = None /\ present = None /\ key = None /\ nextId = None /\ walk = None
              /\ changed = None /\ inserted = None /\ deleted = None
NoPresence == /\ owner = None /\ live = None /\ keys = None /\ online = None /\ awaiting = None
              /\ notifying = None /\ cut = None
NoAttachments == items = None /\ medias = None /\ nextItem = None /\ strayed = None
NoChatRooms == /\ standing = None /\ members = None /\ rooms = None /\ joined = None /\ chats = None
               /\ nextRoom = None /\ nextChat = None
               /\ sockets = None /\ subs = None /\ seen = None /\ caughtUp = None
NoMembership == info = None /\ iconLost = None
NoSchedules  == schedule = None /\ participation = None /\ nextSchedule = None
NoParties    == applications = None /\ nextPost = None /\ nextApp = None /\ admitted = None
NoTables     == azits = None /\ azitUser = None /\ nextAzit = None
NoAzits      == NoTables /\ NoMembership /\ NoSchedules /\ NoParties /\ posts = None
NoFiles      == files = None /\ nextFile = None
NoEvents     == shown = None /\ restarts = None

ClientInit ==
  /\ \/ /\ which = "http" /\ Init /\ NoSession /\ NoLists /\ NoPresence
        /\ NoEvents /\ torn = None /\ req = None /\ now = None
     \/ /\ which = "session" /\ Session!Init /\ NoHttp /\ NoLists /\ NoPresence
        /\ NoEvents /\ torn = None
     \/ /\ which = "lists" /\ Paged!Init /\ NoHttp /\ NoSession /\ NoPresence
        /\ restarts = None /\ req = None /\ now = None
     \/ /\ which = "presence" /\ Presence!Init /\ NoHttp /\ NoSession /\ NoLists
        /\ torn = None /\ req = None /\ now = None
  /\ NoAttachments /\ NoChatRooms /\ NoAzits /\ NoFiles /\ nextMember = None

UserInit ==
  /\ \/ which = "attachments" /\ Attached!Init /\ NoChatRooms /\ nextMember = None
     \/ which = "chat" /\ Chatted!Init /\ NoAttachments /\ NoFiles /\ torn = None
  /\ NoHttp /\ NoSession /\ NoLists /\ NoPresence /\ NoEvents /\ NoAzits /\ now = None

AzitInit ==
  /\ \/ /\ which = "membership" /\ Membership!Init /\ NoSchedules /\ NoParties
        /\ now = None /\ restarts = None
     \/ /\ which = "times" /\ Times!Init /\ NoMembership /\ NoParties
        /\ posts = None /\ NoFiles /\ restarts = None
     \/ /\ which = "seats" /\ Seats!Init /\ NoMembership /\ NoParties
        /\ posts = None /\ NoFiles /\ restarts = None
     \/ /\ which = "party" /\ Party!Init /\ NoMembership /\ NoSchedules
        /\ NoFiles /\ now = None
  /\ NoHttp /\ NoSession /\ NoLists /\ NoPresence /\ NoAttachments /\ NoChatRooms
  /\ shown = None /\ torn = None

ServerInit == which \in Parts /\ (ClientInit \/ UserInit \/ AzitInit)

HttpStep ==
  /\ which = "http" /\ Next
  /\ UNCHANGED <<which, session, lists, presence, req, now, shown, torn, restarts>>
SessionStep ==
  /\ which = "session" /\ Session!Next
  /\ UNCHANGED <<which, http, lists, presence, shown, torn, restarts>>
ListsStep ==
  /\ which = "lists" /\ Paged!Next
  /\ UNCHANGED <<which, http, session, presence, req, now, restarts>>
PresenceStep ==
  /\ which = "presence" /\ Presence!Next
  /\ UNCHANGED <<which, http, session, lists, req, now, torn>>
ClientStep ==
  /\ HttpStep \/ SessionStep \/ ListsStep \/ PresenceStep
  /\ UNCHANGED <<userParts, azitParts, files, nextFile, nextMember, posts>>

AttachmentsStep == which = "attachments" /\ Attached!Next /\ UNCHANGED <<which, chatRooms, nextMember>>
ChatStep        == which = "chat" /\ Chatted!Next /\ UNCHANGED <<which, attachments, files, nextFile, torn>>
UserStep ==
  /\ AttachmentsStep \/ ChatStep
  /\ UNCHANGED <<clientParts, azitParts, now, shown, restarts, posts>>

MembershipStep ==
  which = "membership" /\ Membership!Next /\ UNCHANGED <<which, schedules, parties, now, restarts>>
TimesStep ==
  /\ which = "times" /\ Times!Next
  /\ UNCHANGED <<which, membership, parties, posts, files, nextFile, restarts>>
SeatsStep ==
  /\ which = "seats" /\ Seats!Next
  /\ UNCHANGED <<which, membership, parties, posts, files, nextFile, restarts>>
PartyStep ==
  which = "party" /\ Party!Next /\ UNCHANGED <<which, membership, schedules, files, nextFile, now>>
AzitStep ==
  /\ MembershipStep \/ TimesStep \/ SeatsStep \/ PartyStep
  /\ UNCHANGED <<clientParts, userParts, shown, torn>>

shared     == <<req, now, shown, torn, restarts, files, nextFile, nextMember, posts>>
serverVars == <<which, shared, clientParts, userParts, azitParts>>
ServerNext == ClientStep \/ UserStep \/ AzitStep
ServerSpec == ServerInit /\ [][ServerNext]_serverVars

\* No action or property names a user or a request.
Symmetry == Permutations(Users) \union Permutations(Requests)
-----------------------------------------------------------------------------
\* Every route is served by its own handler, with the owner of the token as its user.
RequestsServed == which = "http" => ServedAsDeclared

\* A response has the status of its own result or, on a shared controller, of a request
\* whose handler returned while the response was on its way, never one left from before.
StatusesKept == which = "http" => StatusIsOwn

\* A code is accepted once for every request that looked before the first deleted it.
CodesSpent == which = "session" => Session!CodesSpent

\* A refresh token that was exchanged comes back only through requests that overlap the
\* exchange, and then no more often than they are.
TokensSpent == which = "session" => Session!TokensSpent

\* Whoever walks a list from the first page to the last sees every row that stays in
\* place exactly once, whatever is inserted, deleted or moved meanwhile; what page numbers,
\* rows of one createdAt and times read back as others cannot keep to is named in Paging.
Complete == which = "lists" => Paged!Complete

\* Bound of the search: a walk with a torn page is not followed further, since Complete says
\* nothing of it from there on.
WalksFollowed == which = "lists" => ~ torn

\* The socket ids Redis keeps for a user are connections of that user, but for users a
\* restart has cut off.
KeySocketsLive == which = "presence" => Presence!KeySocketsLive

\* A user whose last connection is gone is not left behind as online.
NoGhostOnline == which = "presence" => Presence!NoGhostOnline

\* highlight.validator.ts:124 and the upload limits: uploaded medias of an item exceed the
\* limit only by what overlapping requests were each allowed to add, and an order is
\* shared by no more than one of them for each.  Medias given in a body have no limit.
UploadsBounded == which = "attachments" => Attached!UploadsBounded

\* A file that a media points at goes only with its item: whoever deletes files deletes
\* the row too, unless the process dies between S3 and the database.  Urls a body has
\* given an item that did not show them are excepted.
FilesKept == which = "attachments" => Attached!FilesKept

\* A client that joined a room and then read its history misses no message.
FollowersMissNothing == which = "chat" => Chatted!FollowersMissNothing

\* A room is changed, deleted or opened to others by its creator only, unless it goes with
\* its azit.
ChangedByCreator == [][which = "chat" => Chatted!ByCreator]_serverVars

\* What the services look up before they insert or update holds afterwards when
\* requests do not overlap: one membership per user and azit, no two azits of one
\* name and host, the three times of a schedule in order whichever of them an update
\* brings, and one application per user and post.
GuardsHold ==
  CASE which = "membership" -> Membership!MembershipUnique /\ Membership!HostNamesDistinct
    [] which = "party"      -> Party!OneApplication
    [] which = "times"      -> Times!TimesOrdered
    [] OTHER                -> TRUE

\* azit.service.ts:121 "keep it if null": an update without a name leaves the name
\* of the azit alone.
NameKeptIfNull == [][which = "membership" => Membership!NameKept]_serverVars

\* The icon url of an azit names a file that S3 holds, unless an update or a deletion
\* is on its way or one failed after it deleted the file.
IconStored == which = "membership" => Membership!IconStored

\* Counting the seats and sitting down are two statements: two members who race for
\* the last seat oversubscribe the schedule by one, never by more.
BoundedOversubscription == which = "seats" => Seats!BoundedOversubscription

\* handleApplication: who is accepted has been found or made a member of the azit,
\* unless the request is about to do so.
AcceptedAdmitted == which = "party" => Party!AcceptedAdmitted

\* handleApplication, "already accepted": acceptance is never taken back.
AcceptanceFinal == [][which = "party" => Party!KeepsAccepted]_serverVars

\* deleteParty: the azit goes with a post exactly if that was its last one.
AzitGoesWithLastPost == [][which = "party" => Party!AzitGoesWithPost]_serverVars
=============================================================================

# Playproof backend: TLA+ models and proofs

The Playproof backend is an Express and socket.io server in TypeScript on MySQL
(Prisma), Redis and S3. Users form *azits* (clubs), play scheduled games in them, find
each other through party posts, chat, and see which friends are online. This directory
models the parts of it where requests can get in each other's way, checks the models
with TLC, and proves with TLAPS the properties the rest of the system leans on.

## How the program runs, and how the models see it

One Node process serves all requests (`ecosystem.config.js` starts one instance). A
request handler runs undisturbed until its next `await`; what it awaits is one
autocommit SQL statement, one `$transaction`, one S3 call or one Redis command. So:

- every awaited statement is one atomic action of a model; between two of them any other
  request may take steps;
- what a request has read stays in its local state (`req[r]`, or the handler record of
  `Presence`) and may be stale by the time it is used;
- an early return, a failing step of a `ResultChain` and an exception are the same for
  the state: the request ends, and only statements that succeeded had effect;
- there are no locks and, with the exceptions named below, no transactions that span a
  check and the write it protects.

Two requests in flight are enough for every race of the code, since each check is
separated from its write in one request and a single foreign write suffices. Three are
used where a property counts requests (`Friendship`).

## Inventory

| component | state | operations | hard part | correct if | module |
|---|---|---|---|---|---|
| azit | `azits`, icons in S3 | create, update, delete | icon deleted before the row is written; name check; stale write-back | one host per azit; icon urls name files; names stay | `AzitMembership` |
| azit member | `azit_user` | add, remove | role read earlier; no unique key | one host; removals authorized; one row per user | `AzitMembership` |
| azit schedule | `azit_schedule` | create, update, delete | partial update against a stale copy | times in order; only the creator edits | `AzitSchedule` |
| participation | `azit_schedule_participation` | join, cancel, set status | seats counted, then taken | seats respected; one azit; creator row kept | `AzitSchedule` |
| presence | Redis sets | connect, disconnect, notify | interleaved Redis commands, restart | online iff connected | `Presence` |
| party posts | `party_posts` | create, update, delete | last post drops the azit; write skew of two deletions | no azit without a reason | `PartyApplication` |
| applications | `applications` | apply, handle, cancel | accepted and admitted in different statements | accepted iff member | `PartyApplication` |
| likes, comments | `community_likes`, `user_post_like`, `community_comments`, `post_comments` | toggle, add, remove; comment, edit, delete | look, then write; access decided earlier; cascade to replies | one like; comments change by their author | `Interaction` |
| highlights, posts, reports | rows, medias, files in S3 | create, update, delete | limit and order from a stale copy; medias replaced in two statements; S3 and MySQL | uploaded medias bounded; what is shown can be fetched | `Attachments` |
| lists | – | 20 paged lists | rows come, go and move between pages | nothing missed, nothing twice | `Paging` |
| friends | `friends` | request, accept, delete | crossing requests | one row per pair | `Friendship` |
| auth | `users`, Redis tokens and codes | sign up, login, refresh, certify | compare, then replace | a token, a code is used once | `Auth` |
| chat | rooms, room members, messages, socket.io rooms | create, update, delete, invite, join, send, read | membership looked up first; stored, then broadcast | followers miss no message; rooms change by their creator | `ChatRoom` |
| HTTP API | a shared controller | all routes | order of routes; a status kept between requests | every route its own handler; no status of an earlier request | `Api` |
| feedback | `feedbacks`, trust score | create, list | never commits (see below) | – | list only |
| bans | `bans` | ban, lift | no check for an existing ban | one ban per pair | – |
| voice | LiveKit | token, join, leave | kept outside | – | – |
| users, shop, master data | one row each | update | – | – | lists only |
| results, configuration | none | – | – | – | – |

Components interact through the database: `azits` and `azit_user` are read by the
schedule, party, chat and highlight services and are written by the azit and the party
services. `MemberTable` is the contract between them. Likes and comments on highlights
are written by the highlight and by the community service, which decide access each in
its own way; `Reactions` is the contract there. Presence calls `FriendService` for the
list of friends. All services are reached through the controllers (`Api`) or through
socket handlers (`Presence`, `ChatRoom`).

## Modules

**MemberTable** is the abstract specification of the two tables: an azit is born with
its HOST row in one transaction, later rows are MEMBER rows and never of the host's own
user, a HOST row disappears only with its azit, ids are never reused.

**AzitMembership** extends it with the services that write these tables. `req[r]` holds
the operation, the awaited statement (`pc`), the inputs and what was read: `copy` is the
azit found by `checkAzitExists`, `row` a member row. The actions of an operation follow
its source from the first await to the last, e.g. `StartUpdateAzit`, `FindAzit`,
`CheckMember`, `UpdateCheckHost`, `UpdateCheckName`, `DeleteIcon`, `Upload` or
`UploadFails`, `UpdateWrite`. Lookups that use `findFirst` without an order return any
matching row. S3 is the set `files`; deletion may fail silently (the code logs it),
upload may fail and end the request. Party posts appear as the set `posts` of azits that
have one, because they restrict the deletion of an azit and the last one takes it along.
`Restart` loses the requests and keeps the rows (every module with requests has it but
`AzitSchedule`). The step `ImplementsTable` is the
refinement: `AzitMembership` uses the very variables of `MemberTable`, so the mapping is
the identity and the abstract formula is a property of the run.

**AzitSchedule** models schedules and participations on top of `MemberTable`, whose
steps are its environment (`MembersChange`, with the cascades of the foreign keys).
`participateSchedule` is `updateParticipationStatus` with JOIN; the two functions run
the same statements. Times are instants `0..MaxTime`, and `Tick` advances the clock the
recruitment deadline is compared with. `creator` and `peak` are ghosts.

**PartyApplication** models posts (owner and azit), applications and their operations on
top of `MemberTable`. The first statement of a request only reads and is part of the
action that starts it. `HandleStatus`, `HandleFindMember` and `HandleAdmit` are the
three statements of an acceptance; the ghost `admitted` records which acceptances got as
far as a member row. `deleteParty` is one transaction with two observable moments: the
snapshot its `count` reads (`DeleteSnapshot`, REPEATABLE READ) and its commit
(`DeleteCommit`), where the foreign keys are checked against current rows and may roll
it back. Two steps write `azits` and `azit_user` themselves and are shown to be
`MemberTable` steps (`ImplementsTable`). Any user may post for any azit, and deleting
the last post deletes the azit whoever hosts it: the model follows the code in both.

**Presence** models the two kinds of Redis keys and the handlers of connect and
disconnect events. `socket.ts` does not await the handlers, so handlers of one user
overlap. There is one Redis connection, which executes commands and delivers replies in
order: a command takes effect when it is sent, and the handlers wait in one FIFO queue
(`awaiting`). The friend list comes from MySQL, outside that order (`notifying` is a
set). `Restart` clears sockets and handlers, not Redis; the ghost `cut` marks the users
it found connected, whose stale ids stay in Redis for good: such a user may be shown
online without a connection, and the properties speak of the others.

**Friendship** models the rows of `friends` as a function on their ids, and the three
operations that write them. Each reads, then writes one row in a second statement, so a
request is either idle or about to write (`StartRequest`, `InsertRequest`;
`StartAccept`, `Accept`; `StartDelete`, `Delete`). As in the code, `deleteFriend` looks
the row up by id only and a user may ask itself. The lists (`FriendList`, `SentList`,
`ReceivedList`, `Search`) are operators on the rows; a text to search for is the set of
users whose nickname contains it. `Search` also finds every friend of a caller whose own
nickname contains the text, because the query accepts either nickname.

**Attachments** models what highlights, community posts and reports have in common: a
row, the rows of its medias, and the files these point at. `UpdateHighlight`,
`ReadMedias`, `WriteText`, `Upload` and `AppendMedias` follow `updateHighlight`, for
instance: the medias are read once (`copy`), then the text is written, the files are
uploaded one at a time (each may fail, which ends the request and keeps the text), and
the new rows get their order from the copy. `Clear` and `Refill` are the two statements
that replace the medias of a report. A highlight loses its files first and its row last;
the ghost `torn` marks items whose deletion a restart cut short. `HighlightService` and
`CommunityHighlightService` work on the same rows. The community's updates (`Rewrite`)
replace the medias of an item by whatever their body lists: any number of rows with any
order and any string as url, be it that of another item or of no file (`Given`; `body`
marks such rows). Nothing in the code limits these, so the limit of medias is about
uploaded ones (`UploadsBounded`); and a url that a body has given an item that did not
show it (the ghost `strayed`) may name no file or lose its file with another item, which
`FilesKept` excuses. It says that without such a url, whatever else bodies ask for, a
media that is shown has its file. Files that no row points at any more,
and those of failed requests, simply stay in `files`: the code never collects them.

**Interaction** models likes and comments as two tables for the community and the
highlight services and two for parties (other keys: a party like is unique, replies go
with their parent). A request reads the target, where the service asks for it the
membership of its caller, and the rows there are, each in a statement of its own, then
writes. `Environment` is everything else: targets appear and go (posts take their
reactions with them, highlights leave rows whose target is null, as the schema says),
become public or private, members come and go, the azit is deleted. The history `could`
of a request says whether its caller could see the target at some step. **Reactions** is
the abstract specification: a user likes a target or not, and a comment is said once, by
one user, on one target that exists. The refinement maps `likes` to the set of pairs and
`comments` to triples, so that two rows of a double tap are one like and the second
insertion a stutter. Comments on parties are left out of the mapping: one deletion there
takes a whole subtree with it.

**Api** lists every route of every controller in the order in which they are declared,
with what guards it: authentication, file upload, validation, and whether the handler
needs a user or sets a status. A request is matched against the list (first match wins),
passes the guards in the order tsoa generates them and awaits its service. Then the
handler sets the status and returns (`SetStatus`); the generated route awaits the handler
and only then reads the status of the controller for the response (`Respond`).
`CommunityHighlightController` is a `@singleton()`: its requests share one instance and
the status it was last given, which `statusOf` keeps. Two of its handlers that return in
one tick may so be answered with the status of the other. `StatusesKept` says that this is
all that happens: the history `others` of a request holds what handlers of its controller
have set since its own returned, and its response has its own status or one of these,
never one from before.

**Paging** models all paged queries and the services that answer with them. A behaviour
is one client that walks one list, while rows appear, disappear and change the value
they are sorted by, also between the two reads of one page. `shown` counts how often
each row was served. What a query reads is a set of row ids, its order a relation
between ids (`Newer`, `Higher`, ...): a row is on a page by its rank, that is, by how
many rows come before it (`Take` for LIMIT, `PagesOf` for skip and take). Lists that are
sorted by `createdAt` or `joinedAt` alone (`Dated`) fix no order among rows of one value:
each query reads them in any order `Newest(t)` or `Oldest(t)` that the ties allow, another
one for the next page. `Complete` says that a row that stayed in place was served exactly
once when the walk ends. What a list cannot keep to is named: `MayMiss` and `MayRepeat`
excuse page numbers when a row is deleted or put in front, rows that share their
`createdAt` with another (`Tied`), times that a cursor does not reproduce, and pages put
together from two states of the list (`torn`).

A time cursor is written by `formatDate` in Korean time, cut to the second, and read back
by `new Date` in the zone of the server. `Shifts` are the differences that may make: none
on a server in Korea, nine hours on a server in UTC. Nothing in the repository sets the
zone, so the containers run in UTC. There the cursor of the schedules points nine hours
ahead and the rows of these hours are on no page; that of the feedbacks points nine hours
back as far as the order goes, so that the rows of these hours come again, and a walk
over more than a page of them never ends. The runs take both shifts (one time unit is
half a second, and a shift of two is as far ahead as a list of three ids can tell). The
history `cut` keeps what each cursor stood for and what it was read back as; `Ahead` and
`Back` are the rows between the two, and `Complete` still says that no others are missed
or repeated.

**ChatRoom** models rooms, their members, messages, and the socket.io rooms that receive
them. `ChatService` checks the room, the membership of the azit and, for private rooms,
the row of the room, with awaits in between. A message is stored, then broadcast.
Clients subscribe by one event and read the history by another request; the histories
`seen` and `caughtUp` record what a client has been shown. Memberships come and go
(`JoinAzit`, `LeaveAzit`), and so does the azit (`DeleteAzit`): its host deletes it, or
somebody its last party post, and its rooms, members and messages go by the cascade
(`Erase`). `standing` are the azits still there.

**Auth** models sign-up, login, refresh and phone certification over `users` and two
kinds of Redis keys. A refresh token is its second: two of one second are the same
string, which is why `TokensSpent` is about exchanges for a token of another second. The
history `spent` counts them, and `retired` holds the tokens that were exchanged while no
other request was in flight, which must never be accepted again. Codes are random and
taken to be new.

**MCServer** puts several of these modules into one run.
`which` picks the instance that a behaviour is about; the variables that only others use
stay `None`. This is a sum, not a composition: the instances never meet in one
behaviour. Where modules do share state they do so through `MemberTable`, whose steps
each of them takes or suffers. Azits, schedules and parties appear in it with one
request at a time (`Requests <- {Solo}`), where their checks have to hold exactly;
`seats` is the exception, a race of several requests. **MCAzitMembership**, **MCAzitSchedule**,
**MCFriendship**, **MCInteraction**, **MCPartyApplication**, **MCPresence** only add the
symmetry sets.

**AzitMembershipProofs**, **PartyApplicationProofs**, **AzitScheduleProofs**,
**FriendshipProofs**, **InteractionProofs**, **PresenceProofs**, **AttachmentsProofs**
and **ServerProofs** hold the theorems. Operators whose comment says "Mutant of" are wrong
versions of the operator that follows; no specification uses them. Putting one in the
place of its original breaks a property, which shows that the property depends on that
code.

## Runs

| run | instance | shows |
|---|---|---|
| AzitMembership | 2 users, 2 requests, 1 azit id, 3 member ids, 1 icon file | `OneHost`, `ImplementsTable`, `RemovalAuthorized` under every interleaving of two requests |
| AzitRenameLost | 2 updates of one azit | `NameKeptIfNull` is violated: the second update writes back a stale name |
| AzitSchedule | 2 requests, 2 azits, 2 members, 1 schedule | `SameAzit`, `CreatorKept`, `EditedByCreator` while members and azits come and go |
| PartyApplication | 2 requests, 2 users, 2 azits, 2 posts, 1 application, 1 restart | `ImplementsTable` and `ApplicationsAuthorized` whatever the requests read before |
| PartyNotAdmitted | 1 request, 1 restart | `AcceptedAdmitted` is violated: accepted, never a member, and not to be handled again |
| Azits (`MCServer`) | one request at a time: 2 azits, 2 member ids, 2 names, 2 files; 1 schedule, 4 instants, 3 member ids; 2 posts, 2 applications, 3 member ids. 2 requests that race for 2 seats. And 2 requests on a highlight, a post or a report with a limit of 2 medias, 3 files, restarts | `GuardsHold`, `IconStored`, `NameKeptIfNull`, `AcceptedAdmitted`, `AcceptanceFinal`, `AzitGoesWithLastPost` when requests do not overlap; `BoundedOversubscription` when they do: at most one seat too many per extra request; `UploadsBounded`, `FilesKept` under every interleaving, with bodies of any length over the urls 0 (no file) and 1 |
| PresenceSerial | 1 user, 5 sockets, events in turn, 1 restart | `OnlineIffConnected`, `FriendsTold`, and the liveness property `StaysOnline` |
| Friendship | 2 users, 3 requests, 3 rows | `BoundedDuplicates`, `FriendshipAgreed`, `ListsAgree` |
| ChatRooms (`MCServer`) | 2 requests; a room, 2 members, a socket, a message, restarts, the deletion of the azit | `FollowersMissNothing`, `ChangedByCreator` |
| Interaction | 2 users, 2 requests of any service, 1 target, 2 rows | `ImplementsReactions`, `LikesBounded`, `ReactorsCouldSee`, `CommentsByAuthor` |
| Server (`MCServer`) | 2 HTTP requests on all routes; 2 requests of auth, 3 seconds, 2 codes; 18 lists of 3 ids, pages of 1, a time zone that fits and one that does not; 2 users, 3 sockets, 3 handlers of a user at once, 1 restart | `RequestsServed`, `StatusesKept`; `CodesSpent`, `TokensSpent`; `Complete`; `KeySocketsLive`, `NoGhostOnline` |
| HighlightsSkipped | the list of highlights by likes, 3 ids | `Complete` is violated: the cursor compares ids although the list is sorted by likes |

`GuardsHold` is `MembershipUnique`, `HostNamesDistinct`, `OneApplication` and
`TimesOrdered`: what the services look up before they insert or update. Without a
transaction or a unique key these hold for one request at a time only, as do
`AcceptanceFinal` (an accepting and a rejecting call overlap) and `AzitGoesWithLastPost`
(two deletions each count the other's post in their snapshot, or an update moves the
post meanwhile). `OnlineIffConnected` needs events of a user that do not overlap: two
sockets that connect at once both count two, neither is the first, and the user is never
shown online. What overlapping requests do at worst is bounded where the code bounds it:
`BoundedOversubscription`, `BoundedDuplicates`, `LikesBounded`, `UploadsBounded`,
`CodesSpent` and `TokensSpent` each say how far, in terms of the requests in flight.

Bounds. Ids are handed out once and never reused, so the bound on ids bounds the number
of creations in a behaviour: three member rows are a host, a member, and the member
again after removal or twice by a race (two member ids are enough where one request at a
time founds azits and admits one user); two azits are one that goes and one that is made
later. Two users are a host and somebody else; the properties compare at most two users.
Four instants are what three ordered times and one disorder need. The sockets and
handlers of a user give it a first, a last and an overlapping connection; socket ids run
out, after which the system may stop, hence `CHECK_DEADLOCK FALSE`; in the party runs
azit ids run out, and without an azit nobody can act. A restart is bounded to one
because its effect, stale Redis keys or a half-done request, is the same each time.
Three friend requests of two users are two that cross and one that comes late; three
rows are one row from each of them, the most `BoundedDuplicates` allows. One target with
two rows is a like (or a comment) of either table and one more by a race, or a comment
and its reply; the targets of different requests do not meet otherwise. Two medias stand
for the limit of ten: one file that fits and two requests that each read the limit as
not yet reached; a body has the url of a file and one of none, which is all that
`FilesKept` can tell apart. Lists of three ids with pages of one have a first, a middle
and a last page, and a row between any two; a walk with a torn page is not followed
further (`WalksFollowed`, a CONSTRAINT), as `Complete` says nothing of it from there on.
In Api one request may send anything and a second one proper calls of two controllers,
one of which is shared: a status is overwritten by a single other request. Three seconds
are a token, its exchange, and its expiry.

Fairness. Only `PresenceSerial` assumes any: Redis and MySQL answer what they were asked
(`WF` of `Resume` and of `Notify`). Both clients reconnect and neither handler has
another way to stop. Nobody is assumed to connect or to disconnect. The other services
promise nothing that has to happen after their answer, so there is nothing else to be
fair about.

## What is proved

For any users, requests, names and bounds:

- `AzitMembershipProofs!TableInvariant`, `TableOneHost`: the abstract tables keep the
  foreign key, fresh ids, exactly one host per azit and a single row for the host.
  `OneHost` alone is not inductive: an added row must not be the host's
  (`HostHasOneRow`), and a new azit must find no rows that use its id (`IdsFresh`,
  `MembersReferToAzits`).
- `AzitMembershipProofs!Invariance`: types, the table invariant and `SoundRequest` for
  every request. `SoundRequest` is the strengthening: it states what a request may still
  rely on though it read it some awaits ago. A row found by id is the only one that will
  ever bear that id; a host's row stays as long as the azit; a caller found to be host
  is still host when it removes somebody. Each conjunct is shown stable under
  `MemberTable` steps of others once (`SoundStable`), each action only for the request
  that takes it.
- `TypeCorrect`, `ExactlyOneHost`, `RemovalsAuthorized` follow, and `Refinement`: every
  step is a `MemberTable` step or leaves the tables alone.
- `MembersOnceWhenSerial`, `NamesDistinctWhenSerial`, `IconsStoredWhenSerial` and
  `NamesKeptWhenSerial`, from `OneAtATime` (any two requests are the same one): the
  invariant `Serial` adds that what the request has read is still so when it writes
  (`Current`): the copy of the azit is the azit, unless it went with its last post
  meanwhile, the name it checked is free, the row it is about to insert is not there.
  `IconsDistinct` is what makes one azit's deleted icon nobody else's loss.
- `PartyApplicationProofs!Invariance`: the table invariant, `DataOK` (types, keys,
  foreign keys and fresh ids of posts and applications) and again `SoundRequest`: the
  azit a request read will not be handed out a second time (`AzitSeen`), the applicant
  about to be admitted is not the host (`ApplicantNotHost`), and an application still
  found under the id that was checked belongs to a post of the caller (`OwnerHandles`)
  or to the caller (`ApplicantCancels`). The last two are stable because rows keep
  owner, applicant and post and new rows get fresh ids (`RowsKept`).
- From `OneAtATime`: `ApplicationsOnceWhenSerial`, `AcceptanceIsFinal` and
  `AzitGoesWithItsLastPost`, by the same kind of invariant (the snapshot `deleteParty`
  counts in is the table as it still is), and, without restarts, `AcceptedAreAdmitted`.
- `TypeCorrect`, `Refinement` (admitting an applicant is a `MemberTable` step, so one
  host per azit carries over) and `ApplicationsByTheEntitled` follow.

- `FriendshipProofs!DuplicatesBounded`: rows of a pair plus requests about to insert one
  are at most as many as the requests that can be in flight. The count is its own
  strengthening: a request joins it only while the pair has no row, when at most all
  requests are counted (`UnrelatedBounded`); an insert moves one unit from requests to
  rows (`MovedBounded`); every other step only takes away (`FewerBounded`).
  `UniqueWhenSerial` is its consequence for one request at a time, and
  `AgreedByReceiver` rests on `SoundRequest`: an id read earlier names, if anything, the
  row that was read (`IdsFresh`). `ListsOfTwoAgree` needs no more than the types: the
  lists are computed from rows, and duplicates of a pair do not make two users disagree.

- `InteractionProofs!Invariance`: `TablesOK` (types, foreign keys, no likes or comments
  of a target that has gone, one party like per user and party), `SoundRequest` for
  every request, and the count of rows plus requests about to insert. `SoundRequest` is
  what a request still knows: who calls (`Caller`), what kind of target it read
  (`TargetRead`), that the caller could see it once access has been decided (`Seen`),
  and that a comment found by id is the caller's as long as it is there (`OwnComment`).
  `SoundStable` shows it unharmed by every step of others, `FewerBounded`,
  `MovedBounded` and `UnlikedBounded` are the three ways a step moves the count.
- `LikesAreBounded`, `ReactorsCould`, `CommentsAreTheirAuthors` follow, and
  `Refinement`: likes and comments implement `Reactions`. It needs one more invariant,
  `LikeInv`: the like a request is about to remove is, while it exists, the caller's
  like of the target it names. That a deletion takes exactly the replies below a comment
  is shown from the closure `WithReplies`, not by induction.

- `AzitScheduleProofs!Invariance`: the table invariant, `RowsOK` (types, `KnownIds`,
  `SameAzit`, `CreatorKept`), `SoundRequest` for every request, and `SeatsOK` for every
  schedule. A request holds on to the id of a member row (`MemberRead`), a copy of a
  schedule (`ScheduleRead`: same azit, and a limit no larger than the schedule's peak)
  and the role it found (`EditsOwn`). None of it is undone by rows that come and go,
  because new rows have fresh ids and the others keep azit and creator (`Ages`,
  `SoundStable`). The members change by steps of `MemberTable`, so the proof covers
  whatever the azit and party services do. Seats are counted as the pairs above:
  `SeatFree` (a claim needs a seat below the limit, then everybody in flight may have
  claimed it), `SeatTaken` (a claim becomes a seat), `FewerSeats`, `FirstSeat`.
- `ParticipantsAreMembers`, `CreatorsStay`, `SeatsAreBounded` and `CreatorsEdit` follow.
  The last needs `CreatorKept` when the role is read and `EditsOwn` when the row is
  written. The Azits run checks the bound under the name `BoundedOversubscription`.
- `TimesOrderedWhenSerial`, from `OneAtATime`: the times an update leaves out are merged
  from a copy that still is the schedule (`CopyCurrent`), so what was validated is what
  is written.

- `PresenceProofs!Invariance`: types, `KeySocketsLive`, and `ErasersFollow`: for a user
  without connections, either nobody may still mark it online (`Clean`), or some waiting
  handler that takes the mark away is done after every handler that sets it (`Erased`).
  "Done after" is a matter of the queue alone: Redis replies in the order of the
  commands, so of two handlers the one with fewer replies to come is done first, and of
  two with as many the one in front (`Before`). `EraserStays`, `MarkerServed`,
  `OthersServed`, `LastCloses` and `LastErased` show how each reply keeps that order.
  `KeysAreLive` and `NobodyIsLeftOnline` follow. The Server run checks both properties
  for its presence part, where they are named `KeySocketsLive` and `NoGhostOnline` too.
- `OnlineWhenSerial` and `ToldWhenSerial`, for at most one handler per user
  (`MaxHandlers = 1`): between handlers the set in Redis and the last notification to
  each friend are what the connections say; while a handler waits, what it has still to
  do makes up the difference.

- `AttachmentsProofs!AttachmentsInit`, `AttachmentsNext`: types, what each request
  carries (`SoundEdit`), who owns which file, and the room every request still takes.
  `FilesStay` needs to speak of rows that are there or were read and may be written back
  (`Seen`), and of files whose urls no body has taken elsewhere (`Kept`): such a file is
  uploaded for one item (`OneItem`), by a request whose urls nobody else has (`OwnUrls`),
  and is missing only if the item it was uploaded for is being deleted, is gone, or was
  cut short by a restart (`FilesThere`). `FilesKept` alone is not inductive, since a
  request may write back urls it read before, and a body may name the url of a file that
  another request is still about to insert.
- `LimitRaceBounded` counts, like the pairs above: uploaded medias there plus medias still
  pending; a `Rewrite` takes uploaded medias away and adds none. A request that has
  counted claims at most the limit (`Pending`), a claim becomes a row, and the same is
  counted for every order (`Claiming`, `Ordered`). Medias that a body gives come on top:
  the code has no limit for them, and so no bound is stated.

- `ServerProofs`: theorems of `ServerSpec`, the specification the runs Azits, ChatRooms
  and Server check. `CodesSpentOnce` and `TokensSpentBounded` count what requests may
  still do: a code found by n requests is accepted n times at most, as nobody finds it
  after the first has deleted it; who may bring an
  exchanged refresh token back (a login of its second) grow fewer with every time it
  comes back. `FollowersAreShown` follows
  messages from the insertion to the emission or the history that shows them;
  `RoomsChangedByCreator` rests on room ids and memberships that are never handed out
  again; an azit that is deleted is the other way a room goes.
- The other theorems of `ServerProofs` bring the results above to the server, for every
  value of its constants: `KeysAreLive`, `NobodyIsLeftOnline`, `GuardsAreKept`,
  `IconsAreStored`, `NamesAreKept`, `SeatsRaceBounded`, `AcceptedAreAdmitted`,
  `AcceptanceStays`, `AzitsGoWithPosts`, `FilesAreKept`, `UploadsAreBounded`. A step of
  the server is a step of the part that was picked or leaves its variables alone, so the
  invariant of the part is one of the server. Here `OneAtATime` is not assumed but true,
  because the parts are instances with the one request `Solo`.

- `StatusesAreKept`, for any number of connections: a response has the status of its own
  result or of a request whose handler returned between its own return and the response.
  `HttpOK` says of each connection that its route is a declared one, and of one whose
  handler has returned that the status on the shared controller is its own or among its
  `others`. It needs that every handler of the singleton controller sets the status
  (`SharedSetStatus`), since the response before left one there.
- `DispatchedAsDeclared`: a request for a declared route is dispatched to it, because no
  route that is registered earlier matches its verb and path. Within a controller the
  routes differ in verb or length, or in a word, or the one with the word comes before
  the one with a parameter. Two controllers differ in the first word of their paths, or,
  below an azit, in the third; so there is one comparison per controller instead of
  thousands of pairs.
- `RequestsAreServed` adds what a connection carries (`Served`): its user is the one
  its token names, and it has passed the guards of its route. A handler that reads
  `req.user` is behind the check of the token (`UsersAreAskedFor`, controller by
  controller).

- `ListsAreTyped` and `WalksAreComplete`, for any number of rows, values and rows per
  page. The first n rows of an order are those of rank below n; that they are n, that
  they end with a last row and what lies behind it follows from the order alone
  (`Ranks`, `TakeIs`, `TakeBounded`, `TakeAll`, `TakeAgain`, `LastOfTake`), without an
  induction: where one would be needed, the least of a set of numbers is taken
  (`LeastOfNumbers`). For cursors the invariant is `Pointed`: of the rows that stayed in
  place those behind the cursor (`Rest`) have not been shown and the others have. It
  holds because the query's order is the order its where clause compares by; each query
  is compared with its own clause (`RowMoves`, `LikesMoves`, `TimesMoves`). A time is read
  back shifted by any number: the rows between are excused and the others are on the same
  side of both times. For page numbers it is `Numbered`: the places read so far are those
  below `Reached`, which stays true while rows are only added behind them or only taken
  away from them. Where `createdAt` alone sorts the list, both speak of rows that are not
  tied: whatever order the ties are read in (`TiesOrder`), the others stand in the order
  of their ids (`ByIds`), because times of insertion grow with them (`Written`).
  `WalksAreComplete` supposes that the lists of highlights by likes and by update are
  not walked: they compare ids although they are sorted otherwise, and HighlightsSkipped
  shows what they lose.

Hypotheses. The assumptions on constants are `MemberTableAssumption`,
`MembershipAssumption`, `PartyAssumption`, `FriendshipAssumption`,
`InteractionAssumption`, `PresenceAssumption`, `ScheduleAssumption`, `ServerAssumption`
and `ListsAssumption`: bounds are naturals, a page has room for a row (as every default
has; posts, chats, azit members and highlights refuse less, the other lists take the
number that is asked for, and pages without rows show nothing), `None` is no caller,
cursor or page, `None` is no user, name or id, what is in flight (requests, sockets) is
finite, and a schedule has room for at least two, as the dto demands. `SoundConstants`
says the same for `Attachments`, as a hypothesis of its two theorems; `ServerProofs`
derives it from `ServerAssumption`. `OneAtATime`, `MaxHandlers = 1` and `MaxRestart = 0`
are not assumptions about the program but the circumstances in which a look-up without a
transaction protects a write: the code does not enforce them, and the theorems that need
them say so in their statement. What overlapping requests do instead is the subject of
the bounds, and of the violated runs AzitRenameLost and PartyNotAdmitted.

Only model-checked:

- `StaysOnline`: liveness, fairness and ENABLED are out of the prover's reach.
- `NameKeptIfNull` and `AcceptedAdmitted` without their hypotheses are false, as
  AzitRenameLost and PartyNotAdmitted show.

## Not modelled

- Voice: tokens and events are passed to LiveKit, which keeps the state. Bans: rows that
  nothing else reads. `createBan` does not look for an existing ban, so a retried call
  bans twice.
- `createFeedback` writes `tsScoreChange`, a column that later migrations dropped from
  the schema: its transaction cannot commit as the code stands, and the score formulas
  behind it are not reached. The list of feedbacks is modelled.
- The default chat room created together with an azit, `uploadChatImage` (a file without
  a row), the reads of rooms and private members.
- Profile updates, the administration of the shop, master data: one statement on one
  row.
- The dead variant of `getCommunityHighlightList` with a cursor; highlights by rank in
  ascending order; reports from the oldest (as the comments of a party are read).
- Times of insertion that do not grow with the ids: `createdAt` is set when a row is
  inserted, and two overlapping insertions may be a tie in the models but not swapped.
- A body's media that repeats another of the same body in url and order: the models keep
  medias as a set of rows without ids.
- The lists of highlights by likes and by time of update are left out of the Server run,
  because they violate `Complete` (HighlightsSkipped shows the first).
- Authentication of sockets, bodies and codes of errors, DTO formatting, configuration,
  adapters of SMS and S3 beyond success and failure.

The comment above `deleteHighlight` in `highlight-delete.service.ts` says that medias,
likes and comments are deleted by a cascade; the schema sets their reference to null,
and the models follow the schema.

## Plan

1. Done: all modules named above, and proofs of every safety and action property the
   passing runs check.
2. Bans and the score formulas, should they come into use.

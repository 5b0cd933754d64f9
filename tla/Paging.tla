------------------------------- MODULE Paging -------------------------------
(***************************************************************************)
(* Reading a list page by page while it changes: every paged query of the  *)
(* repositories and the service that answers with it.                      *)
(*                                                                         *)
(* A behaviour is one client that walks one list from its first page to    *)
(* its last with the cursors or page numbers the service hands out.  The   *)
(* steps of Environment are the other requests: rows appear, disappear and *)
(* change the value they are sorted by, between two pages or between two   *)
(* reads of one page.                                                      *)
(***************************************************************************)
EXTENDS Integers, FiniteSets

CONSTANTS
  Lists,   \* the lists this instance walks
  MaxId,   \* bound: row ids
  MaxKey,  \* bound: values rows are sorted by (likes, or halves of a second)
  Limit,   \* rows per page
  Shifts,  \* what formatDate may add more than the server's time zone takes off
  None     \* absent value

VARIABLES
  list,    \* the list walked
  present, \* ids of the rows there are
  key,     \* the value the list is sorted by, for every id
  nextId,  \* ids are handed out in this order
  walk,    \* the client's place in the list and the reads of the request in flight
  shown,   \* how often a page held the row: 0, 1, or 2 for more
  changed, inserted, deleted, torn  \* history: what happened since the walk began

vars == <<list, present, key, nextId, walk, shown, changed, inserted, deleted, torn>>

Ids == 1..MaxId
\* Lists that answer with a page number, newest or oldest row first.
NewestPages == {"posts", "allPosts", "communityHighlights", "reports", "items"}
OldestPages == {"members", "partyComments"}
Pages == NewestPages \union OldestPages
\* Lists sorted by createdAt (or joinedAt) alone: rows inserted at one time, or by requests
\* that overlap, have one value, and nothing fixes their order.
Dated   == Pages \union {"highlights", "highlightsAscending"}
\* Lists sorted by a value that may change while the row exists, or by any value.
Ranked  == {"mostLiked", "highlightsByLikes", "highlightsByUpdate"}
Movable == Ranked \union {"schedules"}
Keyed   == Movable \union {"feedbacks"} \union Dated
Values  == IF list \in Keyed THEN 0..MaxKey ELSE {0}

Cursor == [id: Ids, key: Int]
\* What a query read: ids of rows, with the value they were sorted by.
Rows == UNION {[S -> 0..MaxKey] : S \in SUBSET Ids}
\* rows, total: what the request in flight has read, None before;
\* cut: history, times a cursor stood for and the other times they were read back as.
Walk == [pc: {"walking", "done"}, cursor: Cursor \union {None}, page: 1..MaxId + 1,
         rows: Rows \union {None}, total: 0..MaxId \union {None},
         cut: SUBSET ((0..MaxKey) \X Int)]

TypeOK ==
  /\ list \in Lists /\ present \subseteq 1..nextId - 1
  /\ key \in [Ids -> 0..MaxKey] /\ nextId \in 1..MaxId + 1
  /\ walk \in Walk
  /\ shown \in [Ids -> 0..2] /\ changed \subseteq Ids
  /\ {inserted, deleted, torn} \subseteq BOOLEAN

\* The rows of S got their createdAt in the order of their ids.
InOrder(k, S) == list \in Dated => \A i, j \in S : i < j => k[i] <= k[j]

\* A list of any length, some of whose ids are gone.
Init ==
  /\ list \in Lists
  /\ nextId \in 1..MaxId + 1 /\ present \in SUBSET (1..nextId - 1)
  /\ key \in {k \in [Ids -> Values] : InOrder(k, present) /\ \A i \in Ids \ present : k[i] = 0}
  /\ walk = [pc |-> "walking", cursor |-> None, page |-> 1, rows |-> None, total |-> None,
             cut |-> {}]
  /\ shown = [i \in Ids |-> 0] /\ changed = {}
  /\ inserted = FALSE /\ deleted = FALSE /\ torn = FALSE
-----------------------------------------------------------------------------
(* Queries: sets of row ids, read in an order, the pairs of ids it has in line *)

Newer     == {p \in Ids \X Ids : p[1] > p[2]}
Older     == {p \in Ids \X Ids : p[1] < p[2]}
\* By (value, id), both descending, or both ascending.
Higher(k) ==
  {p \in (DOMAIN k) \X (DOMAIN k) : k[p[1]] > k[p[2]] \/ (k[p[1]] = k[p[2]] /\ p[1] > p[2])}
Earlier   == {p \in Ids \X Ids : <<p[2], p[1]>> \in Higher(key)}
\* By value alone, descending or ascending: rows of one value come in any order t.
Ties      == {t \in [Ids -> Ids] : \A i, j \in Ids : t[i] = t[j] => i = j}
Newest(t) ==
  {p \in Ids \X Ids : key[p[1]] > key[p[2]] \/ (key[p[1]] = key[p[2]] /\ t[p[1]] < t[p[2]])}
Oldest(t) ==
  {p \in Ids \X Ids : key[p[1]] < key[p[2]] \/ (key[p[1]] = key[p[2]] /\ t[p[1]] < t[p[2]])}
NewestFirst == {Newest(t) : t \in Ties}
OldestFirst == {Oldest(t) : t \in Ties}

\* How many rows of S come before i; the first n rows of S; the last row of S.
Rank(i, S, Order) == Cardinality({j \in S : <<j, i>> \in Order})
Take(n, S, Order) == {i \in S : Rank(i, S, Order) < n}
Last(S, Order)    == CHOOSE i \in S : \A j \in S \ {i} : <<j, i>> \in Order

\* where id < cursor order by id desc, one row more than the page
Below == {i \in present : walk.cursor = None \/ i < walk.cursor.id}
NewestBelow == Take(Limit + 1, Below, Newer)

findPartiesByCursor       == NewestBelow
findPartiesByUserIdCursor == NewestBelow
findByUserIdCursor        == NewestBelow
findHighlightsByUserId    == NewestBelow
findReceivedFeedbacks     == NewestBelow

\* Order by (value, id), both descending, strictly behind the cursor.
Behind ==
  {i \in present : \/ walk.cursor = None
                   \/ key[i] < walk.cursor.key
                   \/ key[i] = walk.cursor.key /\ i < walk.cursor.id}
findPartiesMostLikedWithCursor == Take(Limit + 1, Behind, Higher(key))
findFeedbacksByTargetIdWithCursor == Take(Limit + 1, Behind, Higher(key))

\* Order by (start, id), both ascending, strictly behind the cursor.
Later ==
  {i \in present : \/ walk.cursor = None
                   \/ key[i] > walk.cursor.key
                   \/ key[i] = walk.cursor.key /\ i > walk.cursor.id}
findSchedulesByAzitId == Take(Limit + 1, Later, Earlier)

\* The cursor always compares ids, whatever the list is sorted by.  Rows of one rank are
\* read newest first, which suits the cursor best.  Ranks in ascending order are left out.
Above == {i \in present : walk.cursor = None \/ i > walk.cursor.id}
HighlightOrders ==
  CASE list \in Ranked              -> {Higher(key)}
    [] list = "highlightsAscending" -> OldestFirst
    [] OTHER                        -> NewestFirst
findHighlightsByAzitId(Order) ==
  Take(Limit + 1, IF list = "highlightsAscending" THEN Above ELSE Below, Order)

\* The row of the cursor and a page behind it; nothing when that row is gone.
listChats ==
  IF walk.cursor # None /\ walk.cursor.id \notin present THEN {}
  ELSE Take(Limit, Below, Newer)

\* Mutant of PagesOf: skip counts pages from zero.
PagesOfZero(orders) ==
  {{i \in present : Rank(i, present, o) \in walk.page * Limit .. (walk.page + 1) * Limit - 1} : o \in orders}

\* skip and take: what the query may read, by the order of the rows.
PagesOf(orders) ==
  {{i \in present : Rank(i, present, o) \in (walk.page - 1) * Limit .. walk.page * Limit - 1} : o \in orders}
findByGameId            == PagesOf(NewestFirst)
findAll                 == PagesOf(NewestFirst)
findCommunityHighlights == PagesOf(NewestFirst)
findReportsByUserId     == PagesOf(NewestFirst)
findItemsWithPagination == PagesOf(NewestFirst)
findMembersByAzitId     == PagesOf(OldestFirst)
findCommentsByPartyId   == PagesOf(OldestFirst)
-----------------------------------------------------------------------------
(* Answers *)

history == <<changed, inserted, deleted, torn>>
table   == <<list, present, key, nextId>>

\* The client sees the page, then asks for the next one or stops.
Serve(page, next) ==
  /\ shown' = [i \in Ids |-> IF i \in page /\ shown[i] < 2 THEN shown[i] + 1 ELSE shown[i]]
  /\ walk' = IF next = None THEN [walk EXCEPT !.pc = "done", !.rows = None, !.total = None]
             ELSE [next EXCEPT !.rows = None, !.total = None]
  /\ UNCHANGED <<table, history>>

\* One row too many says that there is a next page; its cursor is the last row shown.  A
\* cursor is written down as a function of the row: the walk goes on from it.
FromRow == [i \in Ids |-> [walk EXCEPT !.cursor = [id |-> i, key |-> 0]]]
NextCursor(q, Order, From) ==
  IF Cardinality(q) > Limit THEN From[Last(Take(Limit, q, Order), Order)] ELSE None
Answer(q, Order, From) == Serve(Take(Limit, q, Order), NextCursor(q, Order, From))

\* formatDate writes the time in Korea to the second; parseScheduleCursor and
\* parseFeedbackCursor read it as a time of the zone the server runs in.
WholeSecond(t) == t - (t % 2)
FromTime(shift) ==
  LET Parsed(t) == WholeSecond(t) + shift IN
  [i \in Ids |->
    [walk EXCEPT !.cursor = [id |-> i, key |-> Parsed(key[i])],
                 !.cut = IF Parsed(key[i]) = key[i] THEN @ ELSE @ \union {<<key[i], Parsed(key[i])>>}]]
FromLikes == [i \in Ids |-> [walk EXCEPT !.cursor = [id |-> i, key |-> key[i]]]]

Asked(l) == list = l /\ walk.pc = "walking"

getParties         == Asked("parties") /\ Answer(findPartiesByCursor, Newer, FromRow)
getMyParties       == Asked("myParties") /\ Answer(findPartiesByUserIdCursor, Newer, FromRow)
getMyPostList      == Asked("myPosts") /\ Answer(findByUserIdCursor, Newer, FromRow)
getMyHighlightList == Asked("myHighlights") /\ Answer(findHighlightsByUserId, Newer, FromRow)
getUserFeedbacks   == Asked("userFeedbacks") /\ Answer(findReceivedFeedbacks, Newer, FromRow)
getSchedules ==
  Asked("schedules") /\ \E s \in Shifts : Answer(findSchedulesByAzitId, Earlier, FromTime(s))
getFeedbacksMyPage ==
  Asked("feedbacks") /\ \E s \in Shifts : Answer(findFeedbacksByTargetIdWithCursor, Higher(key), FromTime(s))
getHighlightList ==
  /\ \E l \in {"highlights", "highlightsAscending", "highlightsByLikes", "highlightsByUpdate"} : Asked(l)
  /\ \E o \in HighlightOrders : Answer(findHighlightsByAzitId(o), o, FromRow)

\* A full page says that there is a next one.
getMessages ==
  /\ Asked("chats")
  /\ Serve(listChats, IF Cardinality(listChats) = Limit THEN FromRow[Last(listChats, Newer)] ELSE None)

SortedBy(q) == [i \in q |-> key[i]]
Read(w) == walk' = w /\ UNCHANGED <<table, shown, history>>

\* The first page is one query; a later one asks for the ids first and then
\* for the rows and their likes.
MostLikedIds ==
  /\ Asked("mostLiked") /\ walk.cursor # None /\ walk.rows = None
  /\ Read([walk EXCEPT !.rows = SortedBy(findPartiesMostLikedWithCursor)])
MostLikedRows ==
  /\ Asked("mostLiked")
  /\ \/ walk.cursor = None /\ Answer(findPartiesMostLikedWithCursor, Higher(key), FromLikes)
     \/ /\ walk.rows # None
        /\ Answer(DOMAIN walk.rows \intersect present, Higher(walk.rows), FromLikes)

ReadRows(qs) == walk.rows = None /\ \E q \in qs : Read([walk EXCEPT !.rows = SortedBy(q)])
ReadTotal   == walk.total = None /\ Read([walk EXCEPT !.total = Cardinality(present)])
\* Promise.all: in either order.
ReadBoth(qs) == ReadRows(qs) \/ ReadTotal

getPostList     == Asked("posts") /\ ReadBoth(findByGameId)
getAllPostList  == Asked("allPosts") /\ ReadBoth(findAll)
getReportList   == Asked("reports") /\ ReadBoth(findReportsByUserId)
getAzitMembers  == Asked("members") /\ ReadBoth(findMembersByAzitId)
getComments     == Asked("partyComments") /\ ReadBoth(findCommentsByPartyId)
getCommunityHighlightList ==
  /\ Asked("communityHighlights")
  /\ ReadRows(findCommunityHighlights) \/ (walk.rows # None /\ ReadTotal)
listItems ==
  /\ Asked("items")
  /\ ReadTotal \/ (walk.total # None /\ ReadRows(findItemsWithPagination))

\* page * size < total: there is a next page.
AnswerPage ==
  /\ list \in Pages /\ walk.pc = "walking" /\ walk.rows # None /\ walk.total # None
  /\ Serve(DOMAIN walk.rows, IF walk.page * Limit < walk.total
                      THEN [walk EXCEPT !.page = @ + 1] ELSE None)
-----------------------------------------------------------------------------
(* The other requests *)

Reading == walk.rows # None \/ walk.total # None

\* torn: a page is put together from two states of the list, or the row the
\* chat cursor names is gone.
Insert ==
  /\ nextId <= MaxId /\ nextId' = nextId + 1
  /\ present' = present \union {nextId}
  /\ \E k \in Values :
       /\ list \in Dated => \A i \in present \union changed : key[i] <= k
       /\ key' = [key EXCEPT ![nextId] = k]
  /\ changed' = changed \union {nextId} /\ inserted' = TRUE
  /\ torn' = (\/ torn
              \/ list = "mostLiked" /\ Reading
              \/ list \in NewestPages /\ walk.total # None /\ walk.rows = None)
  /\ UNCHANGED <<list, walk, shown, deleted>>

Delete ==
  /\ \E i \in present :
       /\ present' = present \ {i} /\ changed' = changed \union {i}
       /\ torn' = (\/ torn
                   \/ list = "mostLiked" /\ Reading
                   \/ list = "chats" /\ walk.cursor # None /\ walk.cursor.id = i)
  /\ deleted' = TRUE
  /\ UNCHANGED <<list, key, nextId, walk, shown, inserted>>

\* A like or an edit moves the row (createdAt never changes).
Touch ==
  /\ list \in Movable
  /\ \E i \in present, k \in Values :
       /\ k # key[i] /\ key' = [key EXCEPT ![i] = k] /\ changed' = changed \union {i}
       /\ torn' = (torn \/ Reading)
  /\ UNCHANGED <<list, present, nextId, walk, shown, inserted, deleted>>

Environment == walk.pc = "walking" /\ (Insert \/ Delete \/ Touch)

Cursors ==
  \/ getParties \/ getMyParties \/ getMyPostList \/ getMyHighlightList \/ getUserFeedbacks
  \/ getSchedules \/ getFeedbacksMyPage \/ getHighlightList \/ getMessages
  \/ MostLikedIds \/ MostLikedRows

Numbers ==
  \/ getPostList \/ getAllPostList \/ getReportList \/ getAzitMembers \/ getComments
  \/ getCommunityHighlightList \/ listItems \/ AnswerPage

Next == Cursors \/ Numbers \/ Environment
Spec == Init /\ [][Next]_vars
-----------------------------------------------------------------------------
(* Properties *)

\* What the query of a list cannot keep to: page numbers lose rows when one is deleted and
\* repeat rows when one is put in front; rows of one createdAt change places between two
\* queries; a cursor read back as another time loses or repeats the rows of the times
\* between the two.
Ahead == {i \in Ids : \E c \in walk.cut : c[1] <= key[i] /\ key[i] <= c[2]}
Back  == {i \in Ids : \E c \in walk.cut : c[2] <= key[i] /\ key[i] <= c[1]}
Tied  == {i \in Ids : list \in Dated /\ \E j \in (present \union changed) \ {i} : key[j] = key[i]}
MayMiss   == {i \in Ids : \/ torn \/ i \in Tied
                          \/ list \in Pages /\ deleted
                          \/ list = "schedules" /\ i \in Ahead
                          \/ list = "feedbacks" /\ i \in Back}
MayRepeat == {i \in Ids : \/ torn \/ i \in Tied
                          \/ list \in NewestPages /\ inserted
                          \/ list = "schedules" /\ i \in Back
                          \/ list = "feedbacks" /\ i \in Ahead}

\* A client that walks a list to its end has seen every row that was there all
\* the time and did not move exactly once, however the list changed between
\* its pages and between the reads of a page: the cursors and the queries of
\* every service agree on the order of the rows.
Complete ==
  walk.pc = "done" =>
    \A i \in present \ changed :
      /\ i \notin MayMiss => shown[i] > 0
      /\ i \notin MayRepeat => shown[i] < 2
=============================================================================

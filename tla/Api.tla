---------------------------------- MODULE Api ----------------------------------
(***************************************************************************)
(* The HTTP API: app.ts, its middlewares, and the routes the controllers   *)
(* declare with decorators, from which tsoa generates express routes in    *)
(* the order of declaration.  Express runs the first route that matches.   *)
(*                                                                         *)
(* A request passes the optional authentication, the route, the            *)
(* authentication the route asks for, the upload of its files and the      *)
(* validation of its input; then the handler awaits its service, sets the  *)
(* status and returns.  The generated route awaits the handler and reads   *)
(* the status for the response.  A controller is made for each request,    *)
(* but for the ones declared @singleton(): requests share them, and the    *)
(* status they set.                                                        *)
(***************************************************************************)
EXTENDS Naturals, Sequences

CONSTANTS
  Conns,    \* requests in flight
  Wide,     \* bound: those that may send anything; the others call `Few` properly
  Few,      \* bound: names of controllers
  Callers,  \* users with a token
  None      \* absent value

VARIABLES
  conn,     \* local state of every request
  statusOf  \* statusCode of the shared instance of a controller, None when never set

vars == <<conn, statusOf>>

\* guards: "jwt" @Security, "file" files are uploaded, "dto" validationMiddleware; "user":
\* the handler dereferences req.user; "quiet": it answers without a call of setStatus.
Route(verb, path, guards) == [verb |-> verb, path |-> path, guards |-> guards]

Id == ":id"   \* a path parameter, always a number

AuthController == <<
  Route("POST", <<"auth", "signup">>, {"dto"}),
  Route("POST", <<"auth", "login">>, {"dto"}),
  Route("POST", <<"auth", "phone", "send-certification">>, {"dto"}),
  Route("POST", <<"auth", "phone", "validate">>, {"dto"}),
  Route("POST", <<"auth", "nickname", "validate-duplicate">>, {"dto"}),
  Route("POST", <<"auth", "refresh">>, {"dto"})>>

AzitMemberController == <<
  Route("GET",    <<"azits", Id, "members">>, {"jwt", "dto"}),
  Route("POST",   <<"azits", Id, "members">>, {"jwt", "user", "dto"}),
  Route("DELETE", <<"azits", Id, "members", Id>>, {"jwt", "user"})>>

participants == <<"azits", Id, "schedules", Id, "participants">>
AzitScheduleParticipationController == <<
  Route("POST",   participants, {"jwt", "user"}),
  Route("GET",    Append(participants, "me"), {"jwt", "user"}),
  Route("GET",    participants, {"jwt", "user"}),
  Route("PATCH",  participants, {"jwt", "user", "dto"}),
  Route("DELETE", participants, {"jwt", "user"})>>

AzitScheduleController == <<
  Route("POST",   <<"azits", Id, "schedules">>, {"jwt", "user", "dto"}),
  Route("GET",    <<"azits", Id, "schedules">>, {"jwt", "user"}),
  Route("PATCH",  <<"azits", Id, "schedules", Id>>, {"jwt", "user", "dto"}),
  Route("DELETE", <<"azits", Id, "schedules", Id>>, {"jwt", "user"})>>

AzitController == <<
  Route("POST",   <<"azits">>, {"jwt", "user", "dto", "file"}),
  Route("GET",    <<"azits">>, {"jwt", "user"}),
  Route("PATCH",  <<"azits", Id>>, {"jwt", "user", "dto", "file"}),
  Route("DELETE", <<"azits", Id>>, {"jwt", "user"})>>

BanController == <<
  Route("GET",    <<"bans">>, {"jwt", "user"}),
  Route("GET",    <<"bans", "search">>, {"jwt", "user"}),
  Route("DELETE", <<"bans", Id>>, {"jwt", "user"})>>

AzitChatController == <<
  Route("POST", <<"azits", Id, "chat-rooms">>, {"jwt", "user", "dto"}),
  Route("GET",  <<"azits", Id, "chat-rooms">>, {"jwt", "user"})>>

ChatController == <<
  Route("GET",    <<"chat-rooms", Id, "messages">>, {"jwt", "user"}),
  Route("POST",   <<"chat-rooms", Id, "upload">>, {"jwt", "user", "file"}),
  Route("POST",   <<"chat-rooms", Id, "messages">>, {"jwt", "user", "dto"}),
  Route("DELETE", <<"chat-rooms", Id>>, {"jwt", "user", "quiet"}),
  Route("PATCH",  <<"chat-rooms", Id>>, {"jwt", "user", "dto"}),
  Route("POST",   <<"chat-rooms", Id, "invite">>, {"jwt", "user", "dto"}),
  Route("GET",    <<"chat-rooms", Id, "members">>, {"jwt", "user"})>>

CommunityHighlightController == <<
  Route("GET",    <<"community", "highlights">>, {}),
  Route("GET",    <<"community", "highlights", Id>>, {}),
  Route("POST",   <<"community", "highlights">>, {"jwt", "user", "dto", "file"}),
  Route("PATCH",  <<"community", "highlights", Id>>, {"jwt", "user", "dto"}),
  Route("DELETE", <<"community", "highlights", Id>>, {"jwt", "user"})>>

CommunityInteractionController == <<
  Route("POST",   <<"community", "likes">>, {"jwt", "user", "dto"}),
  Route("POST",   <<"community", "comments">>, {"jwt", "user", "dto"}),
  Route("GET",    <<"community", "comments">>, {"jwt", "user"}),
  Route("PATCH",  <<"community", "comments", Id>>, {"jwt", "user", "dto"}),
  Route("DELETE", <<"community", "comments", Id>>, {"jwt", "user"})>>

\* Mutant of CommunityPostController: the post is declared before the best posts.
CommunityPostControllerReordered == <<
  Route("GET",    <<"community", "games", Id, "posts">>, {}),
  Route("GET",    <<"community", "posts">>, {}),
  Route("GET",    <<"community", "me">>, {"jwt", "user"}),
  Route("GET",    <<"community", "posts", Id>>, {}),
  Route("GET",    <<"community", "posts", "best">>, {}),
  Route("POST",   <<"community", "posts">>, {"jwt", "user", "dto", "file"}),
  Route("PATCH",  <<"community", "posts", Id>>, {"jwt", "user", "dto"}),
  Route("DELETE", <<"community", "posts", Id>>, {"jwt", "user"})>>

CommunityPostController == <<
  Route("GET",    <<"community", "games", Id, "posts">>, {}),
  Route("GET",    <<"community", "posts">>, {}),
  Route("GET",    <<"community", "me">>, {"jwt", "user"}),
  Route("GET",    <<"community", "posts", "best">>, {}),
  Route("GET",    <<"community", "posts", Id>>, {}),
  Route("POST",   <<"community", "posts">>, {"jwt", "user", "dto", "file"}),
  Route("PATCH",  <<"community", "posts", Id>>, {"jwt", "user", "dto"}),
  Route("DELETE", <<"community", "posts", Id>>, {"jwt", "user"})>>

FeedbackController == <<
  Route("POST", <<"feedbacks">>, {"jwt", "user", "dto"}),
  Route("GET",  <<"feedbacks", "mypage">>, {"jwt", "user"}),
  Route("GET",  <<"feedbacks", "pending">>, {"jwt", "user"})>>

FriendController == <<
  Route("GET",    <<"friends">>, {"jwt", "user"}),
  Route("POST",   <<"friends", "requests">>, {"jwt", "user"}),
  Route("GET",    <<"friends", "requests", "sent">>, {"jwt", "user"}),
  Route("GET",    <<"friends", "requests", "received">>, {"jwt", "user"}),
  Route("PATCH",  <<"friends", "requests", Id>>, {"jwt", "user"}),
  Route("DELETE", <<"friends", Id>>, {"jwt", "user"}),
  Route("GET",    <<"friends", "search">>, {"jwt", "user"})>>

HighlightCreateController == <<
  Route("POST", <<"azits", Id, "highlights">>, {"jwt", "user", "dto", "file"}),
  Route("POST", <<"azits", "highlights">>, {"jwt", "user", "dto", "file"}),
  Route("GET",  <<"azits", Id, "highlights">>, {"jwt", "user", "dto"}),
  Route("GET",  <<"azits", Id, "highlights", Id>>, {"jwt", "user"})>>
HighlightCreateControllerEdit == <<
  Route("PUT",    <<"azits", Id, "highlights", Id>>, {"jwt", "user", "dto", "file"}),
  Route("DELETE", <<"azits", Id, "highlights", Id>>, {"jwt", "user"}),
  Route("POST",   <<"azits", Id, "highlights", Id, "likes">>, {"jwt", "user"}),
  Route("DELETE", <<"azits", Id, "highlights", Id, "likes">>, {"jwt", "user"})>>

HighlightMypageController == <<Route("GET", <<"highlights", "me">>, {"jwt", "user"})>>

PartyCommentController == <<
  Route("GET",    <<"parties", Id, "comments">>, {"quiet"}),
  Route("POST",   <<"parties", Id, "comments">>, {"jwt", "user"}),
  Route("PATCH",  <<"comments", Id>>, {"jwt", "user"}),
  Route("DELETE", <<"comments", Id>>, {"jwt", "user"})>>

PartyInteractionController == <<
  Route("GET",    <<"parties", "me", "applications">>, {"jwt", "user"}),
  Route("GET",    <<"parties", Id, "applications">>, {"jwt", "user"}),
  Route("POST",   <<"parties", Id, "applications">>, {"jwt", "user"}),
  Route("PATCH",  <<"parties", "applications", Id>>, {"jwt", "user"}),
  Route("POST",   <<"parties", Id, "likes">>, {"jwt", "user"}),
  Route("DELETE", <<"parties", "applications", Id>>, {"jwt", "user"})>>

PartyController == <<
  Route("GET",    <<"parties", "me">>, {"jwt", "user"}),
  Route("GET",    <<"parties">>, {}),
  Route("POST",   <<"parties">>, {"jwt", "user", "dto"}),
  Route("GET",    <<"parties", Id>>, {}),
  Route("PATCH",  <<"parties", Id>>, {"jwt", "user", "dto"}),
  Route("DELETE", <<"parties", Id>>, {"jwt", "user"})>>

ReportController == <<
  Route("GET",    <<"reports">>, {"jwt", "user"}),
  Route("GET",    <<"reports", Id>>, {"jwt", "user"}),
  Route("POST",   <<"reports">>, {"jwt", "user", "dto", "file"}),
  Route("PATCH",  <<"reports", Id>>, {"jwt", "user", "dto", "file"}),
  Route("DELETE", <<"reports", Id>>, {"jwt", "user"})>>

AdminItemController == <<
  Route("POST",   <<"admin", "items">>, {"jwt", "file"}),
  Route("PATCH",  <<"admin", "items", Id>>, {"jwt"}),
  Route("DELETE", <<"admin", "items", Id>>, {"jwt"})>>

ItemController == <<
  Route("GET", <<"items", "categories">>, {}),
  Route("GET", <<"items">>, {}),
  Route("GET", <<"items", Id>>, {})>>

UserController == <<
  Route("GET",  <<"users">>, {}),
  Route("GET",  <<"users", "me">>, {"jwt", "user"}),
  Route("GET",  <<"users", "me", "feedbacks">>, {"jwt", "user"}),
  Route("POST", <<"users", "me", "game-accounts">>, {"jwt", "user", "dto"})>>

VoiceController == <<Route("GET", <<"chat-rooms", Id, "voice-token">>, {"jwt", "user"})>>

\* controllerPathGlobs: the controllers in the order of their files.
Declared == <<
  <<"Auth", AuthController>>, <<"AzitMember", AzitMemberController>>,
  <<"Participation", AzitScheduleParticipationController>>, <<"Schedule", AzitScheduleController>>,
  <<"Azit", AzitController>>, <<"Ban", BanController>>, <<"AzitChat", AzitChatController>>,
  <<"Chat", ChatController>>, <<"CommunityHighlight", CommunityHighlightController>>,
  <<"CommunityInteraction", CommunityInteractionController>>,
  <<"CommunityPost", CommunityPostController>>, <<"Feedback", FeedbackController>>,
  <<"Friend", FriendController>>,
  <<"Highlight", HighlightCreateController \o HighlightCreateControllerEdit>>,
  <<"HighlightMypage", HighlightMypageController>>, <<"PartyComment", PartyCommentController>>,
  <<"PartyInteraction", PartyInteractionController>>, <<"Party", PartyController>>,
  <<"Report", ReportController>>, <<"AdminItem", AdminItemController>>,
  <<"Item", ItemController>>, <<"User", UserController>>, <<"Voice", VoiceController>>>>

Controllers == {Declared[k][1] : k \in DOMAIN Declared}

\* RegisterRoutes: a route has its place in its controller, and the controller its own.
Places == UNION {{k} \X (1..Len(Declared[k][2])) : k \in DOMAIN Declared}
On(p)  == Declared[p[1]][1]
At(p)  == Declared[p[1]][2][p[2]]
Precedes(p, q) == p[1] < q[1] \/ (p[1] = q[1] /\ p[2] < q[2])

\* A parameter matches any segment, the word of another route as well.
MatchesPath(pattern, path) ==
  /\ Len(pattern) = Len(path)
  /\ \A s \in DOMAIN path : pattern[s] \in {path[s], Id}

Matching(verb, path) == {p \in Places : At(p).verb = verb /\ MatchesPath(At(p).path, path)}

\* The first route registered that matches a request for route `asked`.
Dispatched ==
  [asked \in Places |->
    LET matching == Matching(At(asked).verb, At(asked).path) IN
    IF matching = {} THEN None ELSE CHOOSE p \in matching : \A q \in matching : ~ Precedes(q, p)]

\* Mutant of Shared: the comments of a party are served by a singleton, too.
SharedComments == {"CommunityHighlight", "PartyComment"}

\* @singleton() on the controller.
Shared == {"CommunityHighlight"}
-----------------------------------------------------------------------------
Stages == {"idle", "received", "routed", "secured", "uploaded", "validated", "called", "returned",
           "done"}
Statuses == {200, 400, 401, 404, 500}

\* asked: the route the client means; valid: body, query and parameters are well-formed;
\* result: statusCode of the Result of the service; others: history, what other requests
\* have set on its controller since its handler returned.
Idle == [stage |-> "idle", asked |-> None, route |-> None, token |-> None, valid |-> TRUE,
         user |-> None, result |-> None, status |-> None, others |-> {}]

TypeOK ==
  /\ statusOf \in [Controllers -> Statuses \union {None}]
  /\ \A c \in Conns :
       /\ conn[c].stage \in Stages
       /\ conn[c].asked \in Places \union {None}
       /\ conn[c].route \in Places \union {None}
       /\ conn[c].token \in Callers \union {"bad", None}
       /\ conn[c].user \in Callers \union {None}
       /\ conn[c].status \in Statuses \union {None}
       /\ conn[c].others \subseteq Statuses

Init ==
  /\ conn = [c \in Conns |-> Idle]
  /\ statusOf = [n \in Controllers |-> None]

Become(c, q) == conn' = [conn EXCEPT ![c] = q]
Goto(c, stage) == Become(c, [conn[c] EXCEPT !.stage = stage])
Guards(c) == At(conn[c].route).guards
Name(c)   == On(conn[c].route)

\* globalErrorHandler, and 404 of express when no route matches.
Fail(c, status) == Become(c, [Idle EXCEPT !.stage = "done", !.status = status])

Receive(c) ==
  /\ conn[c].stage = "idle"
  /\ \E k \in Places, t \in Callers \union {"bad", None}, v \in BOOLEAN :
       /\ c \in Wide \/ (On(k) \in Few /\ t \in Callers /\ v)
       /\ Become(c, [Idle EXCEPT !.stage = "received", !.asked = k, !.token = t, !.valid = v])
  /\ UNCHANGED statusOf

\* optionalAuthMiddleware, then the router.  A token that does not verify is ignored here.
OptionalAuth(c) ==
  LET q == conn[c]
      k == Dispatched[q.asked] IN
  /\ q.stage = "received"
  /\ IF k = None THEN Fail(c, 404)
     ELSE Become(c, [q EXCEPT !.stage = "routed", !.route = k,
                              !.user = IF q.token \in Callers THEN q.token ELSE None])
  /\ UNCHANGED statusOf

\* expressAuthentication: its user replaces the one before.
Authenticate(c) ==
  LET q == conn[c] IN
  /\ q.stage = "routed"
  /\ CASE "jwt" \notin Guards(c) -> Goto(c, "secured")
       [] "jwt" \in Guards(c) /\ q.token \in Callers ->
            Become(c, [q EXCEPT !.stage = "secured", !.user = q.token])
       [] OTHER -> Fail(c, 401)
  /\ UNCHANGED statusOf

\* multer: too many or too large files, or files of another type, are an error without a
\* status.
UploadFiles(c) ==
  /\ conn[c].stage = "secured"
  /\ Goto(c, "uploaded") \/ ("file" \in Guards(c) /\ Fail(c, 500))
  /\ UNCHANGED statusOf

\* validationMiddleware, and the validation of the arguments by tsoa.
Validate(c) ==
  /\ conn[c].stage = "uploaded"
  /\ IF conn[c].valid THEN Goto(c, "validated") ELSE Fail(c, 400)
  /\ UNCHANGED statusOf

\* The handler: without the user it dereferences it throws.  An exception of the service
\* is an error without a status.
Call(c) ==
  /\ conn[c].stage = "validated"
  /\ IF "user" \in Guards(c) /\ conn[c].user = None THEN Fail(c, 500)
     ELSE \/ Fail(c, 500)
          \/ \E s \in {200, 404} : Become(c, [Idle EXCEPT !.stage = "called", !.route = conn[c].route,
                                                       !.result = s])
  /\ UNCHANGED statusOf

\* What a handler sets, None for the two that never do.
Set(c) == IF "quiet" \in Guards(c) THEN None ELSE conn[c].result
Sharing(c) == {d \in Conns \ {c} : conn[d].stage = "returned" /\ Name(c) \in Shared /\ Name(d) = Name(c)}

\* The service has returned: setStatus, and the handler returns.
SetStatus(c) ==
  /\ conn[c].stage = "called"
  /\ conn' = [d \in Conns |->
       CASE d = c                             -> [conn[d] EXCEPT !.stage = "returned"]
         [] d \in Sharing(c) /\ Set(c) # None -> [conn[d] EXCEPT !.others = @ \union {Set(c)}]
         [] OTHER                             -> conn[d]]
  /\ statusOf' = IF Name(c) \in Shared /\ Set(c) # None THEN [statusOf EXCEPT ![Name(c)] = Set(c)]
                 ELSE statusOf

\* After the await of the handler, getStatus of the controller for the response; one that
\* was never set is 200.
Respond(c) ==
  LET status == IF Name(c) \in Shared THEN statusOf[Name(c)] ELSE Set(c) IN
  /\ conn[c].stage = "returned"
  /\ Become(c, [conn[c] EXCEPT !.stage = "done", !.status = IF status = None THEN 200 ELSE status])
  /\ UNCHANGED statusOf

Close(c) == conn[c].stage = "done" /\ Become(c, Idle) /\ UNCHANGED statusOf

Step(c) ==
  \/ Receive(c) \/ OptionalAuth(c) \/ Authenticate(c) \/ UploadFiles(c) \/ Validate(c)
  \/ Call(c) \/ SetStatus(c) \/ Respond(c) \/ Close(c)
Next == \E c \in Conns : Step(c)
Spec == Init /\ [][Next]_vars
-----------------------------------------------------------------------------
\* Every route can be reached: a request for it is served by it, no route declared before
\* takes it; and its handler runs with the user it needs, who is the owner of the token.
ServedAsDeclared ==
  \A c \in Conns :
    /\ conn[c].stage = "routed" => conn[c].route = conn[c].asked
    /\ conn[c].stage = "validated" =>
         /\ conn[c].user = IF conn[c].token \in Callers THEN conn[c].token ELSE None
         /\ "user" \in Guards(c) => conn[c].user # None

\* A response has the status of its own result, and 200 where the handler never sets one.
\* On a controller that requests share it may have the status of another request instead,
\* but only of one whose handler returned between this one's return and its response:
\* never a status left over from an earlier request.
StatusIsOwn ==
  \A c \in Conns :
    conn[c].stage = "done" /\ conn[c].result # None =>
      \/ conn[c].status = IF "quiet" \in Guards(c) THEN 200 ELSE conn[c].result
      \/ Name(c) \in Shared /\ conn[c].status \in conn[c].others
=============================================================================

\* Azit ids and files run out, and with no azit left nobody can act.
CHECK_DEADLOCK FALSE
CONSTANTS
  None = None
  Parts = {"membership", "times", "seats", "party", "attachments"}
  Users = {u1, u2}
  Requests = {r1, r2}
  Sockets = {s1}
  MaxTime = 3
  MaxMember = 3
  MaxFile = 3
  Conns = {c1, c2}
  Wide = {c1}
  Few = {"CommunityHighlight", "PartyComment"}
  Callers = {p1}
  Phones = {p1}
  Nicknames = {n1}
  Life = 2
  MaxCode = 2
  Lists = {"parties", "mostLiked", "myParties", "myPosts", "myHighlights", "userFeedbacks",
           "schedules", "feedbacks", "chats", "highlights", "highlightsAscending", "posts",
           "allPosts", "reports", "members", "partyComments", "communityHighlights", "items"}
  MaxId = 3
  MaxKey = 2
  Limit = 1
  Shifts = {0, 2}
  MaxHandlers = 3
  MaxRestart = 1
  MaxMedias = 2
  MaxItem = 1
  Urls = {0, 1}
  Orders = {1}
  Azits = {a1}
  MaxRoom = 1
  MaxChat = 1
  Names = {n1, n2}
  MaxAzit = 2
  MaxSchedule = 1
  MaxPost = 2
  MaxApp = 2
  Solo = r0
SPECIFICATION ServerSpec
SYMMETRY Symmetry
INVARIANTS
  GuardsHold
  IconStored
  BoundedOversubscription
  AcceptedAdmitted
  UploadsBounded
  FilesKept
PROPERTIES
  NameKeptIfNull
  AcceptanceFinal
  AzitGoesWithLastPost

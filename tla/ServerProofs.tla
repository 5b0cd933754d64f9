--------------------------- MODULE ServerProofs ---------------------------
(***************************************************************************)
(* What the parts of the server guarantee, for any number of users,        *)
(* requests, sockets and rows.  A theorem is about ServerSpec, whose       *)
(* behaviours are those of the parts (MCServer): its invariant says        *)
(* something of one part, and a step of the server is a step of that part  *)
(* or leaves its variables alone.                                          *)
(*                                                                         *)
(* Auth: a refresh token is exchanged by who still finds it stored.  Each  *)
(* request is counted as long as it may still exchange the token, so every *)
(* exchange is paid for by a request that can do so once less.             *)
(*                                                                         *)
(* ChatRoom: who changes a room has read that the caller is its creator,   *)
(* and a membership that has gone is never handed out again.  What a       *)
(* follower has still to be shown is with a request about to emit it.      *)
(*                                                                         *)
(* Presence: the invariants are those of PresenceProofs, whose constants   *)
(* and variables are the server's.                                         *)
(*                                                                         *)
(* Attachments: the invariant is that of AttachmentsProofs.                *)
(*                                                                         *)
(* Api: each handler of a shared controller sets a status before it        *)
(* returns, and what the response reads later is that one or one that      *)
(* another handler has set meanwhile.                                      *)
(* A request is served by its own route, because no route that comes first *)
(* matches it.                                                             *)
(*                                                                         *)
(* Paging: the rows behind a cursor have not been shown and those it has   *)
(* passed have, as the order of the query is the order the cursor compares *)
(* by, but for the times between a cursor and what it is read back as.  A  *)
(* page number holds while places only move one way.  A row whose          *)
(* createdAt no other shares stands where its id puts it (UntiedOrder).    *)
(*                                                                         *)
(* Azits and parties, one request at a time: the invariants are those of   *)
(* AzitMembershipProofs, AzitScheduleProofs and PartyApplicationProofs     *)
(* with the constants of the part, and so is the bound on the race for the *)
(* seats.  An instance of a proof module has copies of the definitions of  *)
(* the module it extends; lemmas Same... say that they are equivalent.     *)
(***************************************************************************)
EXTENDS MCServer, FiniteSetTheorems, WellFoundedInduction, SequenceTheorems, TLAPS

\* What a request of Auth may rely on.
SoundSession(q) ==
  /\ q.pc # "idle" => q.phone \in Phones
  /\ q.pc \in {"nickname", "insert"} => q.nickname \in Nicknames
  /\ q.pc \in {"stored", "keep"} => q.token \in Session!Time
  /\ q.pc = "keep" => q.token <= now
  /\ q.from # None => /\ q.pc \in {"user", "sign", "keep"} /\ q.from <= now
                      /\ q.pc = "keep" => q.from <= q.token
  /\ q.pc = "del" => q.code \in Session!Code /\ q.code < nextCode

\* A second a token was signed in has come; a code is newer than those sent before it.
SessionTypes ==
  /\ Session!TypeOK
  /\ \A p \in Phones : tokens[p] # None => tokens[p] <= now
  /\ \A p \in Phones : codes[p] # None => codes[p] < nextCode

SessionOK == SessionTypes /\ \A r \in Requests : SoundSession(req[r])
-----------------------------------------------------------------------------
LEMMA SessionNumbers ==
  /\ Session!Time \subseteq Nat /\ Session!Code \subseteq Nat
  /\ None \notin Session!Time /\ None \notin Session!Code
  /\ SessionTypes => /\ now \in Session!Time /\ now \in Nat
                     /\ nextCode \in Nat
BY ServerAssumption DEF Session!Time, Session!Code, SessionTypes, Session!TypeOK

LEMMA SessionIdle ==
  /\ Session!Idle \in Session!Request /\ SoundSession(Session!Idle)
  /\ Session!Idle.pc = "idle" /\ Session!Idle.from = None
  /\ Session!Idle.phone = None /\ Session!Idle.code = None
BY DEF Session!Idle, Session!Request, Session!Ops, Session!Pcs, SoundSession

\* The request that steps is replaced by q; the others stay.
LEMMA SessionUpdate ==
  ASSUME NEW r \in Requests, NEW q \in Session!Request, Session!TypeOK, Session!Become(r, q)
  PROVE  /\ req' \in [Requests -> Session!Request]
         /\ req'[r] = q
         /\ \A s \in Requests : s # r => req'[s] = req[s]
BY DEF Session!TypeOK, Session!Become

\* The steps that read: the request goes on with what it may rely on, or returns.
LEMMA SessionStarts ==
  ASSUME NEW r \in Requests, SessionOK,
         \/ Session!signUp(r) \/ Session!login(r) \/ Session!refresh(r)
         \/ Session!sendCertification(r) \/ Session!verifyCertification(r)
  PROVE  \E q \in Session!Request :
           /\ Session!Become(r, q) /\ SoundSession(q) /\ Session!Reads /\ req[r] = Session!Idle
           /\ q.from = None /\ q.pc # "keep"
           /\ q.pc = "del" => codes[q.phone] = q.code
<1> USE DEF Session!Begin, Session!Idle, Session!Request, Session!Ops, Session!Pcs
<1>1. CASE Session!signUp(r)
  <2>1. PICK p \in Phones, n \in Nicknames :
          Session!Begin(r, [Session!Idle EXCEPT !.op = "signUp", !.pc = "nickname",
                                                !.phone = p, !.nickname = n])
    BY <1>1 DEF Session!signUp
  <2> DEFINE q == [Session!Idle EXCEPT !.op = "signUp", !.pc = "nickname",
                                       !.phone = p, !.nickname = n]
  <2>2. q \in Session!Request /\ SoundSession(q) /\ q.from = None /\ q.pc = "nickname"
    BY DEF SoundSession
  <2> QED BY <1>1, <2>1, <2>2 DEF Session!signUp
<1>2. CASE Session!login(r)
  <2>1. PICK p \in DOMAIN users :
          Session!Begin(r, [Session!Idle EXCEPT !.op = "login", !.pc = "compare", !.phone = p])
    BY <1>2 DEF Session!login
  <2> DEFINE q == [Session!Idle EXCEPT !.op = "login", !.pc = "compare", !.phone = p]
  <2>2. p \in Phones
    BY DEF SessionOK, SessionTypes, Session!TypeOK
  <2>3. q \in Session!Request /\ SoundSession(q) /\ q.from = None /\ q.pc = "compare"
    BY <2>2 DEF SoundSession
  <2> QED BY <1>2, <2>1, <2>3 DEF Session!login
<1>3. CASE Session!refresh(r)
  <2>1. PICK x \in issued :
          Session!Begin(r, [Session!Idle EXCEPT !.op = "refresh", !.pc = "stored",
                                                !.phone = x[1], !.token = x[2]])
    BY <1>3 DEF Session!refresh
  <2> DEFINE q == [Session!Idle EXCEPT !.op = "refresh", !.pc = "stored",
                                       !.phone = x[1], !.token = x[2]]
  <2>2. x[1] \in Phones /\ x[2] \in Session!Time
    BY DEF SessionOK, SessionTypes, Session!TypeOK
  <2>3. q \in Session!Request /\ SoundSession(q) /\ q.from = None /\ q.pc = "stored"
    BY <2>2 DEF SoundSession
  <2> QED BY <1>3, <2>1, <2>3 DEF Session!refresh
<1>4. CASE Session!sendCertification(r)
  <2>1. PICK p \in Phones :
          Session!Begin(r, [Session!Idle EXCEPT !.op = "send", !.pc = "set", !.phone = p])
    BY <1>4 DEF Session!sendCertification
  <2> DEFINE q == [Session!Idle EXCEPT !.op = "send", !.pc = "set", !.phone = p]
  <2>2. q \in Session!Request /\ SoundSession(q) /\ q.from = None /\ q.pc = "set"
    BY DEF SoundSession
  <2> QED BY <1>4, <2>1, <2>2 DEF Session!sendCertification
<1>5. CASE Session!verifyCertification(r)
  <2>1. PICK p \in Phones :
          /\ codes[p] # None
          /\ Session!Begin(r, [Session!Idle EXCEPT !.op = "verify", !.pc = "del",
                                                   !.phone = p, !.code = codes[p]])
    BY <1>5 DEF Session!verifyCertification
  <2> DEFINE q == [Session!Idle EXCEPT !.op = "verify", !.pc = "del",
                                       !.phone = p, !.code = codes[p]]
  <2>2. codes[p] \in Session!Code /\ codes[p] < nextCode
    BY <2>1 DEF SessionOK, SessionTypes, Session!TypeOK
  <2>3. /\ q \in Session!Request /\ SoundSession(q) /\ q.from = None /\ q.pc = "del"
        /\ codes[q.phone] = q.code
    BY <2>2 DEF SoundSession
  <2> QED BY <1>5, <2>1, <2>3 DEF Session!verifyCertification
<1> QED BY <1>1, <1>2, <1>3, <1>4, <1>5

LEMMA SessionGoesOn ==
  ASSUME NEW r \in Requests, SessionOK,
         \/ Session!CheckNickname(r) \/ Session!ComparePassword(r) \/ Session!FindUser(r)
         \/ Session!SendSms(r)
  PROVE  \E q \in Session!Request :
           /\ Session!Become(r, q) /\ SoundSession(q) /\ Session!Reads
           /\ q.pc \notin {"keep", "del"}
           /\ q.from # None => q.from = req[r].from /\ q.phone = req[r].phone
<1>1. SoundSession(req[r]) /\ req[r] \in Session!Request
  BY DEF SessionOK, SessionTypes, Session!TypeOK
<1>2. CASE Session!Return(r)
  <2>1. Session!Become(r, Session!Idle) /\ Session!Reads
    BY <1>2 DEF Session!Return, Session!CheckNickname, Session!ComparePassword,
                Session!FindUser, Session!SendSms
  <2> QED BY <2>1, SessionIdle
<1>3. ASSUME NEW pc \in {"insert", "sign"}, Session!Goto(r, pc), Session!Reads,
             req[r].pc # "idle", pc = "insert" => req[r].nickname \in Nicknames,
             req[r].from # None => pc = "sign"
      PROVE  \E q \in Session!Request :
               /\ Session!Become(r, q) /\ SoundSession(q) /\ Session!Reads
               /\ q.pc \notin {"keep", "del"}
               /\ q.from # None => q.from = req[r].from /\ q.phone = req[r].phone
  <2> DEFINE q == [req[r] EXCEPT !.pc = pc]
  <2>1. /\ q \in Session!Request /\ q.pc = pc /\ q.from = req[r].from /\ q.phone = req[r].phone
        /\ q.nickname = req[r].nickname
    BY <1>1, <1>3 DEF Session!Request, Session!Pcs
  <2>2. Session!Become(r, q)
    BY <1>3 DEF Session!Goto
  <2> HIDE DEF q
  <2>3. SoundSession(q)
    BY <1>1, <1>3, <2>1 DEF SoundSession
  <2> QED BY <1>3, <2>1, <2>2, <2>3
<1>4. CASE Session!CheckNickname(r)
  BY <1>1, <1>2, <1>3, <1>4 DEF Session!CheckNickname, Session!At, SoundSession
<1>5. CASE Session!ComparePassword(r)
  BY <1>1, <1>2, <1>3, <1>5 DEF Session!ComparePassword, Session!At, SoundSession
<1>6. CASE Session!FindUser(r)
  BY <1>1, <1>2, <1>3, <1>6 DEF Session!FindUser, Session!At, SoundSession
<1>7. CASE Session!SendSms(r)
  BY <1>2, <1>7 DEF Session!SendSms
<1> QED BY <1>4, <1>5, <1>6, <1>7

\* A step that leaves the codes alone: who is about to accept a code has just read it.
KeepsCodes(r, q) ==
  /\ Session!Become(r, q) /\ UNCHANGED <<codes, nextCode, verified>>
  /\ q.pc = "del" => codes[q.phone] = q.code

\* A step that stores no token: one that is signed is of this second, one that is
\* accepted is stored.
KeepsTokens(r, q) ==
  /\ Session!Become(r, q) /\ UNCHANGED <<tokens, now, issued, spent, retired>>
  /\ req[r].pc # "keep"
  /\ q.pc = "keep" => q.token = now
  /\ q.from # None => \/ q.from = req[r].from /\ q.phone = req[r].phone
                      \/ tokens[q.phone] = q.from

UsersTyped == DOMAIN users \subseteq Phones /\ \A p \in DOMAIN users : users[p] \in Nicknames

LEMMA SessionComparesStored ==
  ASSUME NEW r \in Requests, SessionOK, Session!CompareStored(r)
  PROVE  \E q \in Session!Request :
           SoundSession(q) /\ KeepsTokens(r, q) /\ KeepsCodes(r, q) /\ Session!Reads
<1> DEFINE q == [req[r] EXCEPT !.pc = "user", !.from = req[r].token]
<1>1. req[r] \in Session!Request /\ SoundSession(req[r]) /\ req[r].pc = "stored"
  BY DEF SessionOK, SessionTypes, Session!TypeOK, Session!CompareStored, Session!At
<1>2. req[r].phone \in Phones /\ req[r].token \in Session!Time
  BY <1>1 DEF SoundSession
<1>3. Session!Reads
  BY DEF Session!CompareStored
<1>4. CASE Session!Accepted(req[r])
  <2>1. Session!Become(r, q)
    BY <1>4 DEF Session!CompareStored
  <2>2. /\ q \in Session!Request /\ q.pc = "user" /\ q.from = req[r].token
        /\ q.phone = req[r].phone
    BY <1>1, <1>2 DEF Session!Request, Session!Pcs
  <2> HIDE DEF q
  <2>3. tokens[q.phone] = q.from /\ q.from <= now
    BY <1>2, <1>4, <2>2, SessionNumbers DEF Session!Accepted, SessionOK, SessionTypes
  <2>4. SoundSession(q)
    BY <1>2, <2>2, <2>3 DEF SoundSession
  <2> QED
    BY <1>1, <1>3, <2>1, <2>2, <2>3, <2>4 DEF KeepsTokens, KeepsCodes, Session!Reads, Session!history
<1>5. CASE ~ Session!Accepted(req[r])
  <2>1. Session!Become(r, Session!Idle)
    BY <1>5 DEF Session!CompareStored, Session!Return
  <2> QED
    BY <1>1, <1>3, <2>1, SessionIdle DEF KeepsTokens, KeepsCodes, Session!Reads, Session!history
<1> QED BY <1>4, <1>5

LEMMA SessionSigns ==
  ASSUME NEW r \in Requests, SessionOK, Session!Sign(r)
  PROVE  \E q \in Session!Request :
           SoundSession(q) /\ KeepsTokens(r, q) /\ KeepsCodes(r, q) /\ Session!Reads
<1> DEFINE q == [req[r] EXCEPT !.pc = "keep", !.token = now]
<1>1. req[r] \in Session!Request /\ SoundSession(req[r]) /\ req[r].pc = "sign"
  BY DEF SessionOK, SessionTypes, Session!TypeOK, Session!Sign
<1>2. now \in Session!Time /\ now \in Nat
  BY SessionNumbers DEF SessionOK
<1>3. Session!Become(r, q) /\ Session!Reads
  BY DEF Session!Sign
<1>4. /\ q \in Session!Request /\ q.pc = "keep" /\ q.token = now /\ q.from = req[r].from
      /\ q.phone = req[r].phone
  BY <1>1, <1>2 DEF Session!Request, Session!Pcs
<1> HIDE DEF q
<1>5. SoundSession(q)
  BY <1>1, <1>2, <1>4 DEF SoundSession
<1> QED
  BY <1>1, <1>3, <1>4, <1>5 DEF KeepsTokens, KeepsCodes, Session!Reads, Session!history

LEMMA SessionInserts ==
  ASSUME NEW r \in Requests, SessionOK, Session!InsertUser(r)
  PROVE  /\ KeepsTokens(r, Session!Idle) /\ KeepsCodes(r, Session!Idle) /\ UsersTyped'
<1>1. SoundSession(req[r]) /\ req[r].pc = "insert"
  BY DEF SessionOK, Session!InsertUser, Session!At
<1>2. req[r].phone \in Phones /\ req[r].nickname \in Nicknames
  BY <1>1 DEF SoundSession
<1>3. UsersTyped'
  BY <1>2 DEF SessionOK, SessionTypes, Session!TypeOK, Session!InsertUser, UsersTyped
<1> QED
  BY <1>1, <1>3, SessionIdle
  DEF Session!InsertUser, Session!Return, KeepsTokens, KeepsCodes, Session!history

\* The steps of a request that store neither a token nor a code.
Reading(r) ==
  \/ Session!signUp(r) \/ Session!CheckNickname(r) \/ Session!InsertUser(r)
  \/ Session!login(r) \/ Session!ComparePassword(r)
  \/ Session!refresh(r) \/ Session!CompareStored(r) \/ Session!FindUser(r) \/ Session!Sign(r)
  \/ Session!sendCertification(r) \/ Session!SendSms(r) \/ Session!verifyCertification(r)

LEMMA SessionReads ==
  ASSUME NEW r \in Requests, SessionOK, Reading(r)
  PROVE  \E q \in Session!Request :
           SoundSession(q) /\ KeepsTokens(r, q) /\ KeepsCodes(r, q) /\ UsersTyped'
<1>1. UsersTyped
  BY DEF SessionOK, SessionTypes, Session!TypeOK, UsersTyped
<1>2. Session!Reads => UsersTyped'
  BY <1>1 DEF Session!Reads, UsersTyped
<1>3. CASE \/ Session!signUp(r) \/ Session!login(r) \/ Session!refresh(r)
           \/ Session!sendCertification(r) \/ Session!verifyCertification(r)
  BY <1>2, <1>3, SessionStarts, SessionIdle
  DEF KeepsTokens, KeepsCodes, Session!Reads, Session!history
<1>4. CASE \/ Session!CheckNickname(r) \/ Session!ComparePassword(r) \/ Session!FindUser(r)
           \/ Session!SendSms(r)
  <2>1. req[r].pc # "keep"
    BY <1>4 DEF Session!CheckNickname, Session!ComparePassword, Session!FindUser,
                Session!SendSms, Session!At
  <2>2. PICK q \in Session!Request :
           /\ Session!Become(r, q) /\ SoundSession(q) /\ Session!Reads
           /\ q.pc \notin {"keep", "del"}
           /\ q.from # None => q.from = req[r].from /\ q.phone = req[r].phone
    BY <1>4, SessionGoesOn
  <2> QED
    BY <1>2, <2>1, <2>2 DEF KeepsTokens, KeepsCodes, Session!Reads, Session!history
<1>5. CASE Session!CompareStored(r)
  BY <1>2, <1>5, SessionComparesStored
<1>6. CASE Session!Sign(r)
  BY <1>2, <1>6, SessionSigns
<1>7. CASE Session!InsertUser(r)
  BY <1>7, SessionInserts, SessionIdle
<1> QED BY <1>3, <1>4, <1>5, <1>6, <1>7 DEF Reading

LEMMA StoreTokenMoves ==
  ASSUME NEW r \in Requests, SessionOK, Session!StoreToken(r)
  PROVE  /\ KeepsCodes(r, Session!Idle) /\ req[r].phone \in Phones
         /\ req[r].token \in Session!Time /\ req[r].token <= now
         /\ req[r].from # None => req[r].from \in Session!Time /\ req[r].from <= req[r].token
<1>1. SoundSession(req[r]) /\ req[r].pc = "keep" /\ req[r] \in Session!Request
  BY DEF SessionOK, SessionTypes, Session!TypeOK, Session!StoreToken
<1>2. req[r].from # None => req[r].from \in Session!Time
  BY <1>1 DEF Session!Request
<1> QED
  BY <1>1, <1>2, SessionIdle DEF SoundSession, Session!StoreToken, Session!Return, KeepsCodes

LEMMA StoreCodeMoves ==
  ASSUME NEW r \in Requests, SessionOK, Session!StoreCode(r)
  PROVE  \E q \in Session!Request :
           /\ KeepsTokens(r, q) /\ SoundSession(q) /\ q.pc = "sms" /\ req[r].pc = "set"
           /\ req[r].phone \in Phones
<1> DEFINE q == [req[r] EXCEPT !.pc = "sms"]
<1>1. SoundSession(req[r]) /\ req[r].pc = "set" /\ req[r] \in Session!Request
  BY DEF SessionOK, SessionTypes, Session!TypeOK, Session!StoreCode, Session!At
<1>2. q \in Session!Request /\ q.pc = "sms" /\ q.from = req[r].from /\ q.phone = req[r].phone
  BY <1>1 DEF Session!Request, Session!Pcs
<1>3. Session!Become(r, q)
  BY DEF Session!StoreCode, Session!Goto
<1> HIDE DEF q
<1>4. SoundSession(q) /\ q.from = None
  BY <1>1, <1>2 DEF SoundSession
<1> QED
  BY <1>1, <1>2, <1>3, <1>4 DEF KeepsTokens, Session!StoreCode, Session!history, SoundSession

LEMMA DeleteCodeMoves ==
  ASSUME NEW r \in Requests, SessionOK, Session!DeleteCode(r)
  PROVE  /\ KeepsTokens(r, Session!Idle) /\ req[r].pc = "del" /\ req[r].phone \in Phones
         /\ req[r].code \in Session!Code /\ req[r].code < nextCode
<1>1. SoundSession(req[r]) /\ req[r].pc = "del"
  BY DEF SessionOK, Session!DeleteCode, Session!At
<1> QED
  BY <1>1, SessionIdle DEF SoundSession, Session!DeleteCode, Session!Return, KeepsTokens

\* A sound request stays sound while time passes and codes are sent.
LEMMA SoundSessionStays ==
  ASSUME NEW q \in Session!Request, SoundSession(q), SessionTypes,
         now' \in Nat, now <= now', nextCode' \in Nat, nextCode <= nextCode'
  PROVE  SoundSession(q)'
<1>1. /\ q.token # None => q.token \in Nat
      /\ q.from # None => q.from \in Nat
      /\ q.code # None => q.code \in Nat
      /\ q.pc = "keep" => q.token \in Nat
      /\ q.pc = "del" => q.code \in Nat
  BY SessionNumbers DEF Session!Request, SoundSession
<1> QED BY <1>1, SessionNumbers DEF SoundSession

LEMMA SessionRequestsStay ==
  ASSUME SessionOK, NEW r \in Requests, NEW q \in Session!Request, SoundSession(q),
         Session!Become(r, q),
         now' \in Nat, now <= now', nextCode' \in Nat, nextCode <= nextCode'
  PROVE  req' \in [Requests -> Session!Request] /\ \A s \in Requests : SoundSession(req[s])'
<1>1. /\ req' \in [Requests -> Session!Request]
      /\ req'[r] = q /\ \A s \in Requests : s # r => req'[s] = req[s]
  BY SessionUpdate DEF SessionOK, SessionTypes
<1>2. \A s \in Requests : SoundSession(req[s])'
  <2> SUFFICES ASSUME NEW s \in Requests PROVE SoundSession(req[s])'
    OBVIOUS
  <2>1. PICK p \in Session!Request : p = req'[s] /\ SoundSession(p)
    BY <1>1 DEF SessionOK, SessionTypes, Session!TypeOK
  <2>2. SoundSession(p)'
    BY <2>1, SoundSessionStays DEF SessionOK
  <2> QED BY <2>1, <2>2 DEF SoundSession
<1> QED BY <1>1, <1>2

LEMMA SessionStepKeepsOK ==
  ASSUME SessionOK, NEW r \in Requests, Session!Step(r)
  PROVE  SessionOK'
<1> USE SessionNumbers
<1>1. /\ now \in Nat /\ now \in Session!Time /\ nextCode \in Nat /\ Session!TypeOK
      /\ SessionTypes
  BY DEF SessionOK, SessionTypes
<1>2. CASE Reading(r)
  <2>1. PICK q \in Session!Request :
          SoundSession(q) /\ KeepsTokens(r, q) /\ KeepsCodes(r, q) /\ UsersTyped'
    BY <1>2, SessionReads
  <2>2. /\ UNCHANGED <<tokens, codes, nextCode, now, issued, spent, retired, verified>>
        /\ Session!Become(r, q)
    BY <2>1 DEF KeepsTokens, KeepsCodes
  <2>3. req' \in [Requests -> Session!Request] /\ \A s \in Requests : SoundSession(req[s])'
    BY <1>1, <2>1, <2>2, SessionRequestsStay
  <2> QED BY <1>1, <2>1, <2>2, <2>3 DEF SessionOK, SessionTypes, Session!TypeOK, UsersTyped
<1>3. CASE Session!StoreToken(r)
  <2>1. /\ UNCHANGED <<users, codes, nextCode, now, verified>>
        /\ Session!Become(r, Session!Idle)
    BY <1>3 DEF Session!StoreToken, Session!Return
  <2>2. req' \in [Requests -> Session!Request] /\ \A s \in Requests : SoundSession(req[s])'
    BY <1>1, <2>1, SessionIdle, SessionRequestsStay
  <2>3. /\ req[r].phone \in Phones /\ req[r].token \in Session!Time /\ req[r].token <= now
        /\ req[r].from # None => req[r].from \in Session!Time
    BY <1>3, StoreTokenMoves
  <2>4. /\ tokens' = [tokens EXCEPT ![req[r].phone] = req[r].token]
        /\ issued' = issued \union {<<req[r].phone, req[r].token>>}
        /\ \/ spent' = spent
           \/ /\ req[r].from # None
              /\ spent' = [spent EXCEPT ![<<req[r].phone, req[r].from>>] = @ + 1]
        /\ \/ retired' = retired
           \/ req[r].from # None /\ retired' = retired \union {<<req[r].phone, req[r].from>>}
    BY <1>3 DEF Session!StoreToken
  <2>5. tokens' \in [Phones -> Session!Time \union {None}]
    BY <1>1, <2>3, <2>4 DEF Session!TypeOK
  <2>6. \A p \in Phones : tokens'[p] # None => tokens'[p] <= now
    BY <1>1, <2>3, <2>4 DEF Session!TypeOK, SessionTypes
  <2>7. issued' \subseteq Phones \X Session!Time /\ retired' \subseteq Phones \X Session!Time
    BY <1>1, <2>3, <2>4 DEF Session!TypeOK
  <2>8. spent' \in [Phones \X Session!Time -> Nat]
    BY <1>1, <2>3, <2>4 DEF Session!TypeOK
  <2>9. Session!TypeOK'
    BY <1>1, <2>1, <2>2, <2>5, <2>7, <2>8 DEF Session!TypeOK
  <2>10. SessionTypes'
    BY <1>1, <2>1, <2>6, <2>9 DEF SessionTypes
  <2> QED BY <2>2, <2>10 DEF SessionOK
<1>4. CASE Session!StoreCode(r)
  <2>1. PICK q \in Session!Request :
          /\ KeepsTokens(r, q) /\ SoundSession(q) /\ q.pc = "sms" /\ req[r].pc = "set"
          /\ req[r].phone \in Phones
    BY <1>4, StoreCodeMoves
  <2>2. /\ UNCHANGED <<users, tokens, now, issued, spent, retired, verified>>
        /\ Session!Become(r, q) /\ nextCode <= MaxCode /\ nextCode' = nextCode + 1
        /\ codes' = [codes EXCEPT ![req[r].phone] = nextCode]
    BY <1>4, <2>1 DEF KeepsTokens, Session!StoreCode, Session!history
  <2>3. nextCode \in Session!Code /\ nextCode' \in 1..MaxCode + 1 /\ nextCode' \in Nat
    BY <1>1, <2>2, ServerAssumption DEF Session!TypeOK, Session!Code
  <2>4. req' \in [Requests -> Session!Request] /\ \A s \in Requests : SoundSession(req[s])'
    BY <1>1, <2>1, <2>2, <2>3, SessionRequestsStay
  <2>5. codes' \in [Phones -> Session!Code \union {None}]
    BY <1>1, <2>2, <2>3 DEF Session!TypeOK
  <2>6. \A p \in Phones : codes'[p] # None => codes'[p] < nextCode'
    <3>1. \A p \in Phones : codes[p] \in Nat \/ codes[p] = None
      BY <1>1 DEF Session!TypeOK
    <3> QED BY <1>1, <2>2, <3>1 DEF Session!TypeOK, SessionTypes
  <2>7. Session!TypeOK'
    BY <1>1, <2>2, <2>3, <2>4, <2>5 DEF Session!TypeOK
  <2>8. SessionTypes'
    BY <1>1, <2>2, <2>6, <2>7 DEF SessionTypes
  <2> QED BY <2>4, <2>8 DEF SessionOK
<1>5. CASE Session!DeleteCode(r)
  <2>1. /\ KeepsTokens(r, Session!Idle) /\ req[r].phone \in Phones
        /\ req[r].code \in Session!Code
    BY <1>5, DeleteCodeMoves
  <2>2. /\ UNCHANGED <<users, tokens, nextCode, now, issued, spent, retired>>
        /\ Session!Become(r, Session!Idle)
        /\ codes' = [codes EXCEPT ![req[r].phone] = None]
        /\ verified' = [verified EXCEPT ![req[r].code] = @ + 1]
    BY <1>5, <2>1 DEF KeepsTokens, Session!DeleteCode, Session!CodesLeft
  <2>3. req' \in [Requests -> Session!Request] /\ \A s \in Requests : SoundSession(req[s])'
    BY <1>1, <2>2, SessionIdle, SessionRequestsStay
  <2>4. codes' \in [Phones -> Session!Code \union {None}] /\ verified' \in [Session!Code -> Nat]
    <3>1. codes' \in [Phones -> Session!Code \union {None}]
      BY <1>1, <2>2 DEF Session!TypeOK
    <3>2. verified \in [Session!Code -> Nat]
      BY <1>1 DEF Session!TypeOK
    <3>3. verified[req[r].code] \in Nat
      BY <2>1, <3>2
    <3>4. PICK k \in Nat : k = verified[req[r].code] + 1
      BY <3>3
    <3>5. verified' = [verified EXCEPT ![req[r].code] = k]
      BY <2>2, <3>4
    <3>6. verified' \in [Session!Code -> Nat]
      BY <3>2, <3>4, <3>5
    <3> QED BY <3>1, <3>6
  <2>5. \A p \in Phones : codes'[p] # None => codes'[p] < nextCode
    BY <1>1, <2>2 DEF Session!TypeOK, SessionTypes
  <2>6. Session!TypeOK'
    BY <1>1, <2>2, <2>3, <2>4 DEF Session!TypeOK
  <2>7. SessionTypes'
    BY <1>1, <2>2, <2>5, <2>6 DEF SessionTypes
  <2> QED BY <2>3, <2>7 DEF SessionOK
<1> QED BY <1>2, <1>3, <1>4, <1>5 DEF Session!Step, Reading

LEMMA SessionClockKeepsOK ==
  ASSUME SessionOK, Session!ExpireCode \/ Session!Tick \/ Session!Restart
  PROVE  SessionOK'
<1>1. /\ now \in Nat /\ now \in Session!Time /\ nextCode \in Nat /\ Session!TypeOK
      /\ SessionTypes
  BY SessionNumbers DEF SessionOK, SessionTypes
<1>2. CASE Session!ExpireCode
  <2>1. PICK p \in Phones : codes' = [codes EXCEPT ![p] = None]
    BY <1>2 DEF Session!ExpireCode
  <2>2. UNCHANGED <<users, tokens, nextCode, now, req, issued, spent, retired, verified>>
    BY <1>2 DEF Session!ExpireCode, Session!history
  <2>3. codes' \in [Phones -> Session!Code \union {None}]
    BY <1>1, <2>1 DEF Session!TypeOK
  <2>4. \A o \in Phones : codes'[o] # None => codes'[o] < nextCode
    BY <1>1, <2>1 DEF Session!TypeOK, SessionTypes
  <2>5. Session!TypeOK'
    BY <1>1, <2>2, <2>3 DEF Session!TypeOK
  <2> QED BY <1>1, <2>2, <2>4, <2>5 DEF SessionOK, SessionTypes, SoundSession
<1>3. CASE Session!Tick
  <2>1. /\ UNCHANGED <<users, tokens, codes, nextCode, req, issued, spent, retired, verified>>
        /\ now < MaxTime /\ now' = now + 1
    BY <1>3 DEF Session!Tick, Session!history
  <2>2. now' \in Session!Time /\ now' \in Nat
    BY <1>1, <2>1, ServerAssumption DEF Session!Time
  <2>3. Session!TypeOK'
    BY <1>1, <2>1, <2>2 DEF Session!TypeOK
  <2>4. \A p \in Phones : tokens[p] # None => tokens[p] <= now'
    <3>1. \A p \in Phones : tokens[p] \in Nat \/ tokens[p] = None
      BY <1>1, SessionNumbers DEF Session!TypeOK
    <3> QED BY <1>1, <2>1, <3>1 DEF SessionTypes
  <2>5. \A s \in Requests : SoundSession(req[s])'
    <3> SUFFICES ASSUME NEW s \in Requests PROVE SoundSession(req[s])'
      OBVIOUS
    <3>1. PICK p \in Session!Request : p = req[s] /\ SoundSession(p)
      BY DEF SessionOK, SessionTypes, Session!TypeOK
    <3>2. SoundSession(p)'
      BY <1>1, <2>1, <2>2, <3>1, SoundSessionStays
    <3> QED BY <2>1, <3>1, <3>2 DEF SoundSession
  <2>6. SessionTypes'
    BY <1>1, <2>1, <2>3, <2>4 DEF SessionTypes
  <2> QED BY <2>5, <2>6 DEF SessionOK
<1>4. CASE Session!Restart
  <2>1. /\ UNCHANGED <<users, tokens, codes, nextCode, now, issued, spent, retired, verified>>
        /\ req' = [r \in Requests |-> Session!Idle]
    BY <1>4 DEF Session!Restart, Session!Reads, Session!history
  <2>2. req' \in [Requests -> Session!Request] /\ \A s \in Requests : SoundSession(req'[s])
    BY <2>1, SessionIdle
  <2> QED BY <1>1, <2>1, <2>2 DEF SessionOK, SessionTypes, Session!TypeOK, SoundSession
<1> QED BY <1>2, <1>3, <1>4
-----------------------------------------------------------------------------
\* Requests about to accept code c.
Deleting(c) == {r \in Requests : req[r].pc = "del" /\ req[r].code = c}

\* A code that is stored is stored for one phone, nobody has accepted it yet, and who
\* is about to do so has read it there.
CodesKnown ==
  \A p \in Phones : codes[p] # None =>
    /\ codes[p] < nextCode /\ verified[codes[p]] = 0
    /\ \A o \in Phones : codes[o] = codes[p] => o = p
    /\ \A r \in Deleting(codes[p]) : req[r].phone = p

\* Every request that accepted a code or is about to is counted once.
CodesBounded ==
  \A c \in Session!Code :
    /\ verified[c] + Cardinality(Deleting(c)) <= Cardinality(Requests)
    /\ c >= nextCode => verified[c] = 0

CodesOK == CodesKnown /\ CodesBounded

\* A number of requests.
LEMMA SomeRequests ==
  ASSUME NEW S \in SUBSET Requests
  PROVE  IsFiniteSet(S) /\ Cardinality(S) \in Nat /\ Cardinality(S) <= Cardinality(Requests)
         /\ Cardinality(Requests) \in Nat
BY ServerAssumption, FS_Subset, FS_CardinalityType

LEMMA KeepsCodesOK ==
  ASSUME SessionOK, CodesOK, NEW r \in Requests, NEW q \in Session!Request, SoundSession(q),
         KeepsCodes(r, q)
  PROVE  CodesOK'
<1>1. /\ req'[r] = q /\ \A s \in Requests : s # r => req'[s] = req[s]
      /\ UNCHANGED <<codes, nextCode, verified>>
      /\ q.pc = "del" => codes[q.phone] = q.code
  BY SessionUpdate DEF SessionOK, SessionTypes, KeepsCodes
<1>2. /\ codes \in [Phones -> Session!Code \union {None}] /\ verified \in [Session!Code -> Nat]
      /\ \A s \in Requests : SoundSession(req[s])
  BY DEF SessionOK, SessionTypes, Session!TypeOK
<1>3. req'[r].pc = "del" => codes[req'[r].phone] = req'[r].code
  BY <1>1
<1>4. CodesKnown'
  <2> SUFFICES ASSUME NEW p \in Phones, codes[p] # None
               PROVE  \A s \in Deleting(codes[p])' : req'[s].phone = p
    BY <1>1 DEF CodesOK, CodesKnown, Deleting
  <2> SUFFICES ASSUME NEW s \in Requests, req'[s].pc = "del", req'[s].code = codes[p]
               PROVE  req'[s].phone = p
    BY <1>1 DEF Deleting
  <2>1. CASE s # r
    <3>1. s \in Deleting(codes[p]) /\ req'[s] = req[s]
      BY <1>1, <2>1 DEF Deleting
    <3> QED BY <3>1 DEF CodesOK, CodesKnown
  <2>2. CASE s = r
    <3>1. q.pc = "del" /\ q.code = codes[p] /\ codes[q.phone] = codes[p]
      BY <1>1, <2>2
    <3>2. q.phone \in Phones
      BY <3>1 DEF SoundSession
    <3> QED BY <1>1, <2>2, <3>1, <3>2 DEF CodesOK, CodesKnown
  <2> QED BY <2>1, <2>2
<1>5. CodesBounded'
  <2> SUFFICES ASSUME NEW c \in Session!Code
               PROVE  verified[c] + Cardinality(Deleting(c)') <= Cardinality(Requests)
    BY <1>1 DEF CodesOK, CodesBounded, Deleting
  <2>1. Deleting(c) \in SUBSET Requests /\ Deleting(c)' \in SUBSET Requests
    BY DEF Deleting
  <2>2. /\ verified[c] \in Nat
        /\ verified[c] + Cardinality(Deleting(c)) <= Cardinality(Requests)
    BY <1>2 DEF CodesOK, CodesBounded
  <2>3. CASE q.pc = "del" /\ q.code = c
    <3>1. codes[q.phone] = c /\ q.phone \in Phones /\ c # None
      BY <1>1, <2>3, SessionNumbers DEF SoundSession
    <3>2. verified[c] = 0
      BY <3>1 DEF CodesOK, CodesKnown
    <3> QED BY <2>1, <3>2, SomeRequests
  <2>4. CASE ~ (q.pc = "del" /\ q.code = c)
    <3>1. Deleting(c)' \subseteq Deleting(c)
      BY <1>1, <2>4 DEF Deleting
    <3>2. Cardinality(Deleting(c)') <= Cardinality(Deleting(c))
      BY <2>1, <3>1, SomeRequests, FS_Subset
    <3>3. PICK k \in Nat : k = Cardinality(Deleting(c)')
      BY <2>1, SomeRequests
    <3>4. Cardinality(Deleting(c)) \in Nat /\ Cardinality(Requests) \in Nat
      BY <2>1, SomeRequests
    <3> QED BY <2>2, <3>2, <3>3, <3>4
  <2> QED BY <2>3, <2>4
<1> QED BY <1>4, <1>5 DEF CodesOK

LEMMA StoreCodeKeepsCodes ==
  ASSUME SessionOK, CodesOK, NEW r \in Requests, Session!StoreCode(r)
  PROVE  CodesOK'
<1>1. PICK q \in Session!Request :
        /\ KeepsTokens(r, q) /\ SoundSession(q) /\ q.pc = "sms" /\ req[r].pc = "set"
        /\ req[r].phone \in Phones
  BY StoreCodeMoves
<1> DEFINE o == req[r].phone
<1>2. /\ req'[r] = q /\ \A s \in Requests : s # r => req'[s] = req[s]
      /\ codes' = [codes EXCEPT ![o] = nextCode] /\ verified' = verified
      /\ nextCode' = nextCode + 1 /\ nextCode <= MaxCode
  BY <1>1, SessionUpdate
  DEF SessionOK, SessionTypes, KeepsTokens, Session!StoreCode, Session!history
<1>3. /\ codes \in [Phones -> Session!Code \union {None}] /\ verified \in [Session!Code -> Nat]
      /\ \A s \in Requests : SoundSession(req[s])
      /\ nextCode \in Nat /\ nextCode \in Session!Code
  BY <1>2, SessionNumbers, ServerAssumption
  DEF SessionOK, SessionTypes, Session!TypeOK, Session!Code
<1>4. \A c : Deleting(c)' = Deleting(c)
  BY <1>1, <1>2 DEF Deleting
<1>5. /\ codes'[o] = nextCode /\ \A p \in Phones : p # o => codes'[p] = codes[p]
      /\ o \in Phones
  BY <1>1, <1>2, <1>3
<1>6. \A p \in Phones : codes[p] # None =>
        codes[p] \in Nat /\ codes[p] < nextCode /\ codes[p] # nextCode
  <2> SUFFICES ASSUME NEW p \in Phones, codes[p] # None
               PROVE  codes[p] \in Nat /\ codes[p] < nextCode /\ codes[p] # nextCode
    OBVIOUS
  <2>1. codes[p] \in Nat
    BY <1>3, SessionNumbers
  <2>2. codes[p] < nextCode
    BY DEF CodesOK, CodesKnown
  <2> QED BY <1>3, <2>1, <2>2
<1>7. Deleting(nextCode) = {}
  <2> SUFFICES ASSUME NEW s \in Requests, req[s].pc = "del", req[s].code = nextCode
               PROVE  FALSE
    BY DEF Deleting
  <2>1. req[s].code < nextCode
    BY <1>3 DEF SoundSession
  <2> QED BY <1>3, <2>1
<1>8. verified[nextCode] = 0
  BY <1>3 DEF CodesOK, CodesBounded
<1>9. CodesKnown'
  <2> SUFFICES ASSUME NEW p \in Phones, codes'[p] # None
               PROVE  /\ codes'[p] < nextCode + 1 /\ verified[codes'[p]] = 0
                      /\ \A x \in Phones : codes'[x] = codes'[p] => x = p
                      /\ \A s \in Deleting(codes'[p]) : req'[s].phone = p
    BY <1>2, <1>4 DEF CodesKnown, Deleting
  <2>1. CASE p = o
    BY <1>3, <1>5, <1>6, <1>7, <1>8, <2>1, SessionNumbers
  <2>2. CASE p # o
    <3>1. codes'[p] = codes[p] /\ codes[p] # None
      BY <1>5, <2>2
    <3>2. \A s \in Deleting(codes[p]) : req'[s] = req[s]
      BY <1>1, <1>2 DEF Deleting
    <3> QED BY <1>3, <1>5, <1>6, <3>1, <3>2 DEF CodesOK, CodesKnown
  <2> QED BY <2>1, <2>2
<1>10. CodesBounded'
  <2> SUFFICES ASSUME NEW c \in Session!Code
               PROVE  /\ verified[c] + Cardinality(Deleting(c)) <= Cardinality(Requests)
                      /\ c >= nextCode + 1 => verified[c] = 0
    BY <1>2, <1>4 DEF CodesBounded
  <2>1. c \in Nat
    BY SessionNumbers
  <2> QED BY <1>3, <2>1 DEF CodesOK, CodesBounded
<1> QED BY <1>9, <1>10 DEF CodesOK

LEMMA DeleteCodeKeepsCodes ==
  ASSUME SessionOK, CodesOK, NEW r \in Requests, Session!DeleteCode(r)
  PROVE  CodesOK'
<1> DEFINE o == req[r].phone
           d == req[r].code
<1>1. /\ KeepsTokens(r, Session!Idle) /\ req[r].pc = "del" /\ o \in Phones
      /\ d \in Session!Code /\ d < nextCode
  BY DeleteCodeMoves
<1>2. /\ req'[r] = Session!Idle /\ \A s \in Requests : s # r => req'[s] = req[s]
      /\ codes' = [codes EXCEPT ![o] = None]
      /\ verified' = [verified EXCEPT ![d] = @ + 1] /\ nextCode' = nextCode
  BY <1>1, SessionIdle, SessionUpdate
  DEF SessionOK, SessionTypes, KeepsTokens, Session!DeleteCode, Session!CodesLeft
<1>3. /\ codes \in [Phones -> Session!Code \union {None}] /\ verified \in [Session!Code -> Nat]
      /\ nextCode \in Nat
  BY SessionNumbers DEF SessionOK, SessionTypes, Session!TypeOK
<1>4. r \in Deleting(d)
  BY <1>1 DEF Deleting
<1>5. /\ codes'[o] = None /\ \A p \in Phones : p # o => codes'[p] = codes[p]
      /\ verified'[d] = verified[d] + 1
      /\ \A c \in Session!Code : c # d => verified'[c] = verified[c]
  BY <1>1, <1>2, <1>3
<1>6. \A c : Deleting(c)' = Deleting(c) \ {r}
  BY <1>2, SessionIdle DEF Deleting
<1> HIDE DEF o
<1>7. CodesKnown'
  <2> SUFFICES ASSUME NEW p \in Phones, codes'[p] # None
               PROVE  /\ codes'[p] < nextCode /\ verified'[codes'[p]] = 0
                      /\ \A x \in Phones : codes'[x] = codes'[p] => x = p
                      /\ \A s \in Deleting(codes'[p]) \ {r} : req'[s].phone = p
    BY <1>2, <1>6 DEF CodesKnown, Deleting
  <2>1. p # o /\ codes'[p] = codes[p] /\ codes[p] # None
    BY <1>5
  <2>2. codes[p] # d
    BY <1>4, <2>1 DEF CodesOK, CodesKnown, o
  <2>3. verified'[codes[p]] = 0
    BY <1>3, <1>5, <2>1, <2>2 DEF CodesOK, CodesKnown
  <2>4. \A s \in Deleting(codes[p]) \ {r} : req'[s] = req[s]
    BY <1>2 DEF Deleting
  <2> QED BY <1>5, <2>1, <2>3, <2>4 DEF CodesOK, CodesKnown
<1>8. CodesBounded'
  <2> SUFFICES ASSUME NEW c \in Session!Code
               PROVE  /\ verified'[c] + Cardinality(Deleting(c) \ {r}) <= Cardinality(Requests)
                      /\ c >= nextCode => verified'[c] = 0
    BY <1>2, <1>6 DEF CodesBounded
  <2>1. /\ Deleting(c) \in SUBSET Requests /\ verified[c] \in Nat /\ c \in Nat
        /\ verified[c] + Cardinality(Deleting(c)) <= Cardinality(Requests)
        /\ c >= nextCode => verified[c] = 0
    BY <1>3, SessionNumbers DEF CodesOK, CodesBounded, Deleting
  <2>2. /\ IsFiniteSet(Deleting(c)) /\ Cardinality(Deleting(c)) \in Nat
        /\ Cardinality(Requests) \in Nat
    BY <2>1, SomeRequests
  <2>3. CASE c = d
    <3>1. Cardinality(Deleting(c) \ {r}) = Cardinality(Deleting(c)) - 1
      BY <1>4, <2>2, <2>3, FS_RemoveElement
    <3>2. ~ c >= nextCode
      BY <1>1, <1>3, <2>1, <2>3
    <3> HIDE DEF d
    <3> QED BY <1>5, <2>1, <2>2, <2>3, <3>1, <3>2
  <2>4. CASE c # d
    <3>1. r \notin Deleting(c)
      BY <2>4 DEF Deleting
    <3>2. Deleting(c) \ {r} = Deleting(c)
      BY <3>1
    <3> QED BY <1>5, <2>1, <2>4, <3>2
  <2> QED BY <2>3, <2>4
<1> QED BY <1>7, <1>8 DEF CodesOK

LEMMA ExpireCodeKeepsCodes ==
  ASSUME SessionOK, CodesOK, Session!ExpireCode
  PROVE  CodesOK'
<1>1. PICK o \in Phones : codes' = [codes EXCEPT ![o] = None]
  BY DEF Session!ExpireCode
<1>2. UNCHANGED <<nextCode, verified, req>> /\ codes \in [Phones -> Session!Code \union {None}]
  BY DEF SessionOK, SessionTypes, Session!TypeOK, Session!ExpireCode, Session!history
<1>3. \A p \in Phones : codes'[p] # None => codes'[p] = codes[p]
  BY <1>1, <1>2
<1>4. CodesKnown'
  BY <1>2, <1>3 DEF CodesOK, CodesKnown, Deleting
<1>5. CodesBounded'
  BY <1>2 DEF CodesOK, CodesBounded, Deleting
<1> QED BY <1>4, <1>5 DEF CodesOK

LEMMA RestartKeepsCodes ==
  ASSUME SessionOK, CodesOK, Session!Restart
  PROVE  CodesOK'
<1>1. /\ UNCHANGED <<codes, nextCode, verified>>
      /\ req' = [r \in Requests |-> Session!Idle]
  BY DEF Session!Restart, Session!Reads, Session!history
<1>2. \A c : Deleting(c)' = {}
  BY <1>1, SessionIdle DEF Deleting
<1>3. CodesKnown'
  BY <1>1, <1>2 DEF CodesOK, CodesKnown, Deleting
<1>4. CodesBounded'
  <2> SUFFICES ASSUME NEW c \in Session!Code
               PROVE  verified[c] + Cardinality({}) <= Cardinality(Requests)
    BY <1>1, <1>2 DEF CodesOK, CodesBounded
  <2>1. /\ Deleting(c) \in SUBSET Requests /\ verified[c] \in Nat
        /\ verified[c] + Cardinality(Deleting(c)) <= Cardinality(Requests)
    BY DEF SessionOK, SessionTypes, Session!TypeOK, CodesOK, CodesBounded, Deleting
  <2>2. Cardinality(Deleting(c)) \in Nat /\ Cardinality(Requests) \in Nat
    BY <2>1, SomeRequests
  <2> QED BY <2>1, <2>2, FS_EmptySet
<1> QED BY <1>3, <1>4 DEF CodesOK

LEMMA SessionNextKeepsCodes ==
  ASSUME SessionOK, CodesOK, Session!Next
  PROVE  CodesOK'
<1>1. CASE Session!ExpireCode
  BY <1>1, ExpireCodeKeepsCodes
<1>2. CASE Session!Tick
  BY <1>2 DEF Session!Tick, Session!history, CodesOK, CodesKnown, CodesBounded, Deleting
<1>3. CASE Session!Restart
  BY <1>3, RestartKeepsCodes
<1>4. ASSUME NEW r \in Requests, Session!Step(r)
      PROVE  CodesOK'
  <2>1. CASE Reading(r)
    <3>1. PICK q \in Session!Request : SoundSession(q) /\ KeepsCodes(r, q)
      BY <2>1, SessionReads
    <3> QED BY <3>1, KeepsCodesOK
  <2>2. CASE Session!StoreToken(r)
    BY <2>2, StoreTokenMoves, SessionIdle, KeepsCodesOK
  <2>3. CASE Session!StoreCode(r)
    BY <2>3, StoreCodeKeepsCodes
  <2>4. CASE Session!DeleteCode(r)
    BY <2>4, DeleteCodeKeepsCodes
  <2> QED BY <1>4, <2>1, <2>2, <2>3, <2>4 DEF Session!Step, Reading
<1> QED BY <1>1, <1>2, <1>3, <1>4 DEF Session!Next
-----------------------------------------------------------------------------
(* TokensSpent *)

\* Requests about to store the token of user p of second t.
Carriers(p, t) ==
  {r \in Requests : req[r].pc = "keep" /\ req[r].phone = p /\ req[r].token = t}

\* Requests that were given that token and are not about to bring it back.
Holders(p, t) == {r \in Requests \ Carriers(p, t) : req[r].phone = p /\ req[r].from = t}

Free(p, t) == Requests \ Carriers(p, t)

Pairs(k) == k * (k - 1)

\* k exchanges so far, a requests that will exchange, c requests that will not bring
\* the token back: it is stored, or it is not.
WhileStored(k, c)  == 2 * k <= Pairs(c)
WhileOut(k, a, c)  == 2 * k + 2 * a <= Pairs(c + 1)

Budget(p, t) ==
  IF tokens[p] = t THEN WhileStored(spent[<<p, t>>], Cardinality(Free(p, t)))
  ELSE WhileOut(spent[<<p, t>>], Cardinality(Holders(p, t)), Cardinality(Free(p, t)))

\* A token is exchanged only when its second is over, so that nobody signs it again:
\* who may bring it back grow fewer with every time it comes back.
SpentOK ==
  \A p \in Phones, t \in Session!Time : Budget(p, t) /\ (spent[<<p, t>>] # 0 => t < now)

\* Nobody holds a retired token and nobody is about to bring it back.
RetiredOK ==
  \A x \in retired :
    /\ x[2] < now /\ tokens[x[1]] # x[2]
    /\ Carriers(x[1], x[2]) = {}
    /\ \A r \in Requests : ~ (req[r].phone = x[1] /\ req[r].from = x[2])

TokensOK == SpentOK /\ RetiredOK

LEMMA PairsOfNat ==
  ASSUME NEW c \in Nat
  PROVE  Pairs(c) \in Nat /\ Pairs(c + 1) = Pairs(c) + 2 * c
<1>1. Pairs(c + 1) = (c + 1) * c /\ (c + 1) * c = c * c + c /\ c * (c - 1) = c * c - c
  BY DEF Pairs
<1>2. c * c >= c /\ c * c \in Nat
  <2>1. CASE c = 0
    BY <2>1
  <2>2. CASE c >= 1
    BY <2>2
  <2> QED BY <2>1, <2>2
<1> QED BY <1>1, <1>2 DEF Pairs

LEMMA PairsGrow ==
  ASSUME NEW c \in Nat, NEW d \in Nat, c <= d
  PROVE  Pairs(c) <= Pairs(d)
<1>1. CASE c = 0
  <2>1. Pairs(c) = 0
    BY <1>1 DEF Pairs
  <2> QED BY <2>1, PairsOfNat
<1>2. CASE c >= 1
  <2>1. PICK e \in Nat : d = c + e
    <3>1. d - c \in Nat /\ d = c + (d - c)
      OBVIOUS
    <3> QED BY <3>1
  <2>2. d * (d - 1) = c * (c - 1) + (2 * (c * e) + e * e - e)
    BY <2>1
  <2>3. e * e >= e /\ c * e \in Nat /\ e * e \in Nat
    <3>1. CASE e = 0
      BY <3>1
    <3>2. CASE e >= 1
      BY <3>2
    <3> QED BY <3>1, <3>2
  <2>4. c * (c - 1) \in Int
    OBVIOUS
  <2> QED BY <2>2, <2>3, <2>4 DEF Pairs
<1> QED BY <1>1, <1>2

\* The budget grows with those who will not bring the token back.
LEMMA BudgetGrows ==
  ASSUME NEW k \in Nat, NEW a \in Nat, NEW b \in Nat, NEW c \in Nat, NEW d \in Nat,
         c <= d, b <= a
  PROVE  /\ WhileStored(k, c) => WhileStored(k, d)
         /\ WhileOut(k, a, c) => WhileOut(k, b, d)
<1>1. Pairs(c) <= Pairs(d) /\ Pairs(c + 1) <= Pairs(d + 1)
  BY PairsGrow
<1>2. Pairs(c) \in Nat /\ Pairs(d) \in Nat /\ Pairs(c + 1) \in Nat /\ Pairs(d + 1) \in Nat
  BY PairsOfNat, SMTT(30)
<1> QED BY <1>1, <1>2 DEF WhileStored, WhileOut

\* One that would have brought the token back has done so.
LEMMA BudgetReturns ==
  ASSUME NEW k \in Nat, NEW a \in Nat, NEW c \in Nat,
         WhileStored(k, c) \/ WhileOut(k, a, c)
  PROVE  WhileStored(k, c + 1)
<1>1. Pairs(c) \in Nat /\ Pairs(c + 1) \in Nat /\ Pairs(c + 1) = Pairs(c) + 2 * c
  BY PairsOfNat, SMTT(30)
<1> QED BY <1>1 DEF WhileStored, WhileOut

\* The stored token gives way to another, perhaps in an exchange.
LEMMA BudgetExchanges ==
  ASSUME NEW k \in Nat, NEW a \in Nat, NEW c \in Nat, NEW m \in Nat, NEW b \in Nat,
         WhileStored(k, c) \/ WhileOut(k, a, c), a <= c, m + b <= k + a
  PROVE  WhileOut(m, b, c)
<1>1. Pairs(c) \in Nat /\ Pairs(c + 1) \in Nat /\ Pairs(c + 1) = Pairs(c) + 2 * c
  BY PairsOfNat
<1> QED BY <1>1 DEF WhileStored, WhileOut

\* As long as it was not exchanged, a token may be held and brought back by anybody.
LEMMA BudgetStarts ==
  ASSUME NEW a \in Nat, NEW c \in Nat, a <= c
  PROVE  WhileStored(0, c) /\ WhileOut(0, a, c)
<1>1. Pairs(c) \in Nat /\ Pairs(c + 1) = Pairs(c) + 2 * c
  BY PairsOfNat
<1> QED BY <1>1 DEF WhileStored, WhileOut

LEMMA BudgetBounds ==
  ASSUME NEW k \in Nat, NEW a \in Nat, NEW c \in Nat, NEW n \in Nat, c <= n,
         WhileStored(k, c) \/ WhileOut(k, a, c)
  PROVE  2 * k <= n * (n + 1)
<1>1. Pairs(c) \in Nat /\ Pairs(c + 1) \in Nat /\ Pairs(c + 1) = Pairs(c) + 2 * c
  BY PairsOfNat
<1>2. Pairs(c + 1) <= Pairs(n + 1) /\ Pairs(n + 1) \in Nat
  <2>1. c + 1 \in Nat /\ n + 1 \in Nat /\ c + 1 <= n + 1
    OBVIOUS
  <2> QED BY <2>1, PairsGrow, PairsOfNat
<1>3. Pairs(n + 1) = n * (n + 1)
  BY DEF Pairs
<1>4. 2 * k <= Pairs(n + 1)
  BY <1>1, <1>2 DEF WhileStored, WhileOut
<1> QED BY <1>3, <1>4

LEMMA FewerRequests ==
  ASSUME NEW S \in SUBSET Requests, NEW T \in SUBSET S
  PROVE  /\ Cardinality(T) \in Nat /\ Cardinality(S) \in Nat /\ Cardinality(Requests) \in Nat
         /\ Cardinality(T) <= Cardinality(S) /\ Cardinality(S) <= Cardinality(Requests)
<1>1. T \in SUBSET Requests /\ IsFiniteSet(S)
  BY SomeRequests
<1> QED BY <1>1, SomeRequests, FS_Subset

LEMMA TokenSets ==
  ASSUME NEW p, NEW t
  PROVE  /\ Carriers(p, t) \in SUBSET Requests /\ Free(p, t) \in SUBSET Requests
         /\ Holders(p, t) \in SUBSET Free(p, t)
         /\ Carriers(p, t)' \in SUBSET Requests /\ Free(p, t)' \in SUBSET Requests
         /\ Holders(p, t)' \in SUBSET Free(p, t)'
BY DEF Carriers, Free, Holders

LEMMA KeepsTokensSpent ==
  ASSUME SessionOK, SpentOK, NEW r \in Requests, NEW q \in Session!Request, KeepsTokens(r, q)
  PROVE  SpentOK'
<1>1. /\ req'[r] = q /\ \A s \in Requests : s # r => req'[s] = req[s]
      /\ UNCHANGED <<tokens, now, spent, retired>> /\ req[r].pc # "keep"
      /\ q.pc = "keep" => q.token = now
      /\ q.from # None => \/ q.from = req[r].from /\ q.phone = req[r].phone
                          \/ tokens[q.phone] = q.from
  BY SessionUpdate DEF SessionOK, SessionTypes, KeepsTokens
<1>2. now \in Nat /\ spent \in [Phones \X Session!Time -> Nat] /\ Session!Time \subseteq Nat
      /\ None \notin Session!Time
  BY SessionNumbers DEF SessionOK, SessionTypes, Session!TypeOK
<1> SUFFICES ASSUME NEW p \in Phones, NEW t \in Session!Time
             PROVE  Budget(p, t)' /\ (spent[<<p, t>>] # 0 => t < now)
  BY <1>1 DEF SpentOK
<1>3. Budget(p, t) /\ (spent[<<p, t>>] # 0 => t < now) /\ spent[<<p, t>>] \in Nat /\ t # None
      /\ t \in Nat
  BY <1>2 DEF SpentOK
<1> DEFINE k == spent[<<p, t>>]
<1>4. PICK a \in Nat, c \in Nat : /\ a = Cardinality(Holders(p, t))
                                  /\ c = Cardinality(Free(p, t))
  BY TokenSets, FewerRequests
<1>5. PICK b \in Nat, d \in Nat : /\ b = Cardinality(Holders(p, t)') /\ b <= d
                                  /\ d = Cardinality(Free(p, t)')
  BY TokenSets, FewerRequests
<1>6. Budget(p, t)  <=> IF tokens[p] = t THEN WhileStored(k, c) ELSE WhileOut(k, a, c)
  BY <1>4 DEF Budget
<1>7. Budget(p, t)' <=> IF tokens[p] = t THEN WhileStored(k, d) ELSE WhileOut(k, b, d)
  BY <1>1, <1>5 DEF Budget, WhileStored, WhileOut
<1> HIDE DEF k
<1>8. CASE k = 0
  <2>1. WhileStored(0, d) /\ WhileOut(0, b, d)
    BY <1>5, BudgetStarts
  <2> QED BY <1>3, <1>7, <1>8, <2>1
<1>9. CASE k # 0
  <2>1. t # now
    BY <1>2, <1>3, <1>9 DEF k
  <2>2. Carriers(p, t)' = Carriers(p, t)
    BY <1>1, <2>1 DEF Carriers
  <2>3. Free(p, t)' = Free(p, t)
    BY <2>2 DEF Free
  <2>4. c = d
    BY <1>4, <1>5, <2>3
  <2>5. CASE tokens[p] = t
    BY <1>3, <1>6, <1>7, <2>4, <2>5
  <2>6. CASE tokens[p] # t
    <3>1. Holders(p, t)' \subseteq Holders(p, t)
      BY <1>1, <1>3, <2>2, <2>6 DEF Holders, Carriers
    <3>2. b <= a
      <4>1. Holders(p, t) \in SUBSET Requests
        BY TokenSets
      <4> QED BY <1>4, <1>5, <3>1, <4>1, FewerRequests
    <3> QED BY <1>3, <1>6, <1>7, <2>4, <2>6, <3>2, BudgetGrows DEF k
  <2> QED BY <2>5, <2>6
<1> QED BY <1>3, <1>8, <1>9

LEMMA KeepsTokensRetired ==
  ASSUME SessionOK, RetiredOK, NEW r \in Requests, NEW q \in Session!Request, KeepsTokens(r, q)
  PROVE  RetiredOK'
<1>1. /\ req'[r] = q /\ \A s \in Requests : s # r => req'[s] = req[s]
      /\ UNCHANGED <<tokens, now, spent, retired>> /\ req[r].pc # "keep"
      /\ q.pc = "keep" => q.token = now
      /\ q.from # None => \/ q.from = req[r].from /\ q.phone = req[r].phone
                          \/ tokens[q.phone] = q.from
  BY SessionUpdate DEF SessionOK, SessionTypes, KeepsTokens
<1> SUFFICES ASSUME NEW x \in retired
             PROVE  /\ x[2] < now /\ tokens[x[1]] # x[2]
                    /\ Carriers(x[1], x[2])' = {}
                    /\ \A s \in Requests : ~ (req'[s].phone = x[1] /\ req'[s].from = x[2])
  BY <1>1 DEF RetiredOK, Carriers
<1>2. /\ x[2] < now /\ tokens[x[1]] # x[2] /\ Carriers(x[1], x[2]) = {}
      /\ \A s \in Requests : ~ (req[s].phone = x[1] /\ req[s].from = x[2])
  BY DEF RetiredOK
<1>3. x[2] \in Nat /\ now \in Nat /\ x[2] # None
  BY SessionNumbers DEF SessionOK, SessionTypes, Session!TypeOK
<1>4. x[2] # now
  BY <1>2, <1>3
<1>5. Carriers(x[1], x[2])' = {}
  BY <1>1, <1>2, <1>4 DEF Carriers
<1>6. \A s \in Requests : ~ (req'[s].phone = x[1] /\ req'[s].from = x[2])
  BY <1>1, <1>2, <1>3
<1> QED BY <1>2, <1>5, <1>6

\* What StoreToken changes of one token.
LEMMA StoreTokenChanges ==
  ASSUME SessionOK, NEW r \in Requests, Session!StoreToken(r)
  PROVE  /\ req' = [req EXCEPT ![r] = Session!Idle]
         /\ tokens' = [tokens EXCEPT ![req[r].phone] = req[r].token]
         /\ now' = now /\ req[r].pc = "keep"
         /\ req[r].phone \in Phones /\ req[r].token \in Session!Time /\ req[r].token <= now
         /\ req[r].from # None => req[r].from \in Session!Time /\ req[r].from <= req[r].token
         /\ \A p \in Phones, t \in Session!Time :
              spent'[<<p, t>>] = IF p = req[r].phone /\ t = req[r].from /\ t # req[r].token
                                 THEN spent[<<p, t>>] + 1 ELSE spent[<<p, t>>]
<1>1. /\ req[r].phone \in Phones /\ req[r].token \in Session!Time /\ req[r].token <= now
      /\ req[r].from # None => req[r].from \in Session!Time /\ req[r].from <= req[r].token
  BY StoreTokenMoves
<1>2. spent \in [Phones \X Session!Time -> Nat] /\ None \notin Session!Time
  BY SessionNumbers DEF SessionOK, SessionTypes, Session!TypeOK
<1>3. spent' = IF req[r].from \in {None, req[r].token} THEN spent
               ELSE [spent EXCEPT ![<<req[r].phone, req[r].from>>] = @ + 1]
  BY DEF Session!StoreToken
<1>4. \A p \in Phones, t \in Session!Time :
        spent'[<<p, t>>] = IF p = req[r].phone /\ t = req[r].from /\ t # req[r].token
                           THEN spent[<<p, t>>] + 1 ELSE spent[<<p, t>>]
  <2>1. CASE req[r].from \in {None, req[r].token}
    BY <1>2, <1>3, <2>1
  <2>2. CASE req[r].from \notin {None, req[r].token}
    <3>1. spent' = [spent EXCEPT ![<<req[r].phone, req[r].from>>] = @ + 1]
      BY <1>3, <2>2
    <3>2. <<req[r].phone, req[r].from>> \in Phones \X Session!Time
      BY <1>1, <2>2
    <3> QED BY <1>2, <2>2, <3>1, <3>2
  <2> QED BY <2>1, <2>2
<1> QED BY <1>1, <1>4 DEF Session!StoreToken, Session!Return, Session!Become

LEMMA StoreTokenSpent ==
  ASSUME SessionOK, SpentOK, NEW r \in Requests, Session!StoreToken(r)
  PROVE  SpentOK'
<1> DEFINE u == req[r].phone
           m == req[r].token
           f == req[r].from
<1>1. /\ req' = [req EXCEPT ![r] = Session!Idle]
      /\ tokens' = [tokens EXCEPT ![u] = m]
      /\ now' = now /\ req[r].pc = "keep"
      /\ u \in Phones /\ m \in Session!Time /\ m <= now
      /\ f # None => f \in Session!Time /\ f <= m
      /\ \A p \in Phones, t \in Session!Time :
           spent'[<<p, t>>] = IF p = u /\ t = f /\ t # m
                              THEN spent[<<p, t>>] + 1 ELSE spent[<<p, t>>]
  BY StoreTokenChanges
<1>2. /\ now \in Nat /\ spent \in [Phones \X Session!Time -> Nat] /\ Session!Time \subseteq Nat
      /\ None \notin Session!Time /\ tokens \in [Phones -> Session!Time \union {None}]
      /\ req \in [Requests -> Session!Request]
  BY SessionNumbers DEF SessionOK, SessionTypes, Session!TypeOK
<1>3. /\ req'[r].pc = "idle" /\ req'[r].phone = None /\ req'[r].from = None
      /\ \A s \in Requests : s # r => req'[s] = req[s]
  BY <1>1, <1>2, SessionIdle
<1> SUFFICES ASSUME NEW p \in Phones, NEW t \in Session!Time
             PROVE  Budget(p, t)' /\ (spent'[<<p, t>>] # 0 => t < now)
  BY <1>1 DEF SpentOK
<1>4. /\ Budget(p, t) /\ (spent[<<p, t>>] # 0 => t < now) /\ spent[<<p, t>>] \in Nat /\ t # None
      /\ t \in Nat /\ p # None
  BY <1>2, ServerAssumption DEF SpentOK
<1>5. PICK k \in Nat : k = spent[<<p, t>>]
  BY <1>4
<1>6. PICK a \in Nat, c \in Nat : /\ a = Cardinality(Holders(p, t)) /\ a <= c
                                  /\ c = Cardinality(Free(p, t))
  BY TokenSets, FewerRequests
<1>7. PICK b \in Nat, d \in Nat : /\ b = Cardinality(Holders(p, t)') /\ b <= d
                                  /\ d = Cardinality(Free(p, t)')
  BY TokenSets, FewerRequests
<1>8. PICK l \in Nat : l = spent'[<<p, t>>]
  BY <1>1, <1>4
<1>9. IF tokens[p] = t THEN WhileStored(k, c) ELSE WhileOut(k, a, c)
  BY <1>4, <1>5, <1>6 DEF Budget
<1>10. Budget(p, t)' <=> IF tokens'[p] = t THEN WhileStored(l, d) ELSE WhileOut(l, b, d)
  BY <1>7, <1>8 DEF Budget, WhileStored, WhileOut
<1>11. l = IF p = u /\ t = f /\ t # m THEN k + 1 ELSE k
  BY <1>1, <1>5, <1>8
<1>12. Holders(p, t) \in SUBSET Requests /\ Free(p, t) \in SUBSET Requests
  BY TokenSets
<1> HIDE DEF u, m, f
<1>13. l # 0 => t < now
  <2>1. CASE p = u /\ t = f /\ t # m
    <3>1. m \in Nat /\ t <= m /\ m <= now
      BY <1>1, <1>2, <1>4, <2>1
    <3> QED BY <1>2, <1>4, <2>1, <3>1
  <2>2. CASE ~ (p = u /\ t = f /\ t # m)
    BY <1>4, <1>5, <1>11, <2>2
  <2> QED BY <2>1, <2>2
<1>14. CASE p # u
  <2>1. Carriers(p, t)' = Carriers(p, t)
    BY <1>3, <1>4, <1>14 DEF Carriers, u
  <2>2. Free(p, t)' = Free(p, t)
    BY <2>1 DEF Free
  <2>3. Holders(p, t)' = Holders(p, t)
    BY <1>3, <1>4, <1>14, <2>1 DEF Holders, u
  <2>4. tokens'[p] = tokens[p] /\ l = k /\ d = c /\ b = a
    BY <1>1, <1>2, <1>6, <1>7, <1>11, <1>14, <2>2, <2>3
  <2> QED BY <1>8, <1>9, <1>10, <1>13, <2>4
<1>15. CASE p = u /\ t = m
  <2>1. r \in Carriers(p, t)
    BY <1>1, <1>15 DEF Carriers, u, m
  <2>2. Carriers(p, t)' = Carriers(p, t) \ {r}
    BY <1>3, <1>4 DEF Carriers
  <2>3. Free(p, t)' = Free(p, t) \union {r} /\ r \notin Free(p, t)
    BY <2>1, <2>2 DEF Free
  <2>4. d = c + 1
    BY <1>6, <1>7, <1>12, <2>3, SomeRequests, FS_AddElement
  <2>5. tokens'[p] = t /\ l = k
    BY <1>1, <1>2, <1>11, <1>15
  <2>6. WhileStored(k, c + 1)
    BY <1>9, BudgetReturns
  <2> QED BY <1>8, <1>10, <1>13, <2>4, <2>5, <2>6
<1>16. CASE p = u /\ t # m
  <2>1. Carriers(p, t)' = Carriers(p, t) /\ r \notin Carriers(p, t)
    BY <1>3, <1>4, <1>16 DEF Carriers, m
  <2>2. Free(p, t)' = Free(p, t)
    BY <2>1 DEF Free
  <2>3. Holders(p, t)' = Holders(p, t) \ {r}
    BY <1>3, <1>4, <2>1 DEF Holders
  <2>4. d = c /\ tokens'[p] # t
    BY <1>1, <1>2, <1>6, <1>7, <1>16, <2>2
  <2>5. l + b <= k + a
    <3>1. IsFiniteSet(Holders(p, t))
      BY <1>12, SomeRequests
    <3>2. CASE t = f
      <4>1. r \in Holders(p, t)
        BY <1>16, <2>1, <3>2 DEF Holders, u, f
      <4>2. b = a - 1
        BY <1>6, <1>7, <2>3, <3>1, <4>1, FS_RemoveElement, ZenonT(40)
      <4>3. l = k + 1
        BY <1>11, <1>16, <3>2
      <4> QED BY <4>2, <4>3
    <3>3. CASE t # f
      <4>1. b <= a
        BY <1>6, <1>7, <1>12, <2>3, FewerRequests
      <4>2. l = k
        BY <1>11, <3>3
      <4> QED BY <4>1, <4>2
    <3> QED BY <3>2, <3>3
  <2>6. WhileOut(l, b, c)
    BY <1>6, <1>9, <2>5, BudgetExchanges
  <2> QED BY <1>8, <1>10, <1>13, <2>4, <2>6
<1> QED BY <1>14, <1>15, <1>16

LEMMA StoreTokenRetired ==
  ASSUME SessionOK, RetiredOK, NEW r \in Requests, Session!StoreToken(r)
  PROVE  RetiredOK'
<1> DEFINE u == req[r].phone
           m == req[r].token
           f == req[r].from
<1>1. /\ req' = [req EXCEPT ![r] = Session!Idle]
      /\ tokens' = [tokens EXCEPT ![u] = m]
      /\ now' = now /\ req[r].pc = "keep"
      /\ u \in Phones /\ m \in Session!Time /\ m <= now
      /\ f # None => f \in Session!Time /\ f <= m
  BY StoreTokenChanges
<1>2. retired' = IF f \in {None, m} \/ \E s \in Requests \ {r} : req[s] # Session!Idle
                 THEN retired ELSE retired \union {<<u, f>>}
  BY DEF Session!StoreToken
<1>3. /\ now \in Nat /\ Session!Time \subseteq Nat /\ tokens \in [Phones -> Session!Time \union {None}]
      /\ retired \subseteq Phones \X Session!Time
      /\ req \in [Requests -> Session!Request]
  BY SessionNumbers DEF SessionOK, SessionTypes, Session!TypeOK
<1>4. /\ req'[r].pc = "idle" /\ req'[r].phone = None /\ req'[r].from = None
      /\ \A s \in Requests : s # r => req'[s] = req[s]
  BY <1>1, <1>3, SessionIdle
<1>5. r \in Carriers(u, m)
  BY <1>1 DEF Carriers
<1> HIDE DEF u, m, f
<1> SUFFICES ASSUME NEW x \in retired'
             PROVE  /\ x[2] < now /\ tokens'[x[1]] # x[2]
                    /\ Carriers(x[1], x[2])' = {}
                    /\ \A s \in Requests : ~ (req'[s].phone = x[1] /\ req'[s].from = x[2])
  BY <1>1 DEF RetiredOK, Carriers
<1>6. CASE x \in retired
  <2>1. /\ x[2] < now /\ tokens[x[1]] # x[2] /\ Carriers(x[1], x[2]) = {}
        /\ \A s \in Requests : ~ (req[s].phone = x[1] /\ req[s].from = x[2])
        /\ x[1] \in Phones /\ x[1] # None
    BY <1>3, <1>6, ServerAssumption DEF RetiredOK
  <2>2. ~ (x[1] = u /\ x[2] = m)
    BY <1>5, <2>1
  <2>3. tokens'[x[1]] # x[2]
    BY <1>1, <1>3, <2>1, <2>2
  <2>4. Carriers(x[1], x[2])' = {}
    BY <1>4, <2>1 DEF Carriers
  <2>5. \A s \in Requests : ~ (req'[s].phone = x[1] /\ req'[s].from = x[2])
    BY <1>4, <2>1
  <2> QED BY <2>1, <2>3, <2>4, <2>5
<1>7. CASE x \notin retired
  <2>1. x = <<u, f>> /\ f # None /\ f # m /\ \A s \in Requests : s # r => req[s] = Session!Idle
    BY <1>2, <1>7
  <2>2. x[1] = u /\ x[2] = f /\ u # None
    BY <1>1, <2>1, ServerAssumption
  <2>3. f < now
    <3>1. f \in Nat /\ m \in Nat /\ f <= m /\ m <= now
      BY <1>1, <1>3, <2>1
    <3> QED BY <1>3, <2>1, <3>1
  <2>4. tokens'[u] # f
    BY <1>1, <1>3, <2>1
  <2>5. \A s \in Requests : req'[s].pc = "idle" /\ req'[s].phone = None
    BY <1>4, <2>1, SessionIdle
  <2>6. Carriers(x[1], x[2])' = {}
    BY <2>5 DEF Carriers
  <2> QED BY <2>2, <2>3, <2>4, <2>5, <2>6
<1> QED BY <1>6, <1>7

LEMMA RestartKeepsTokens ==
  ASSUME SessionOK, TokensOK, Session!Restart
  PROVE  TokensOK'
<1>1. /\ UNCHANGED <<tokens, now, spent, retired>>
      /\ req' = [r \in Requests |-> Session!Idle]
  BY DEF Session!Restart, Session!Reads, Session!history
<1>2. \A s \in Requests : req'[s].pc = "idle" /\ req'[s].phone = None /\ req'[s].from = None
  BY <1>1, SessionIdle
<1>3. /\ spent \in [Phones \X Session!Time -> Nat] /\ None \notin Session!Time
      /\ retired \subseteq Phones \X Session!Time
  BY SessionNumbers DEF SessionOK, SessionTypes, Session!TypeOK
<1>4. ASSUME NEW p \in Phones, NEW t \in Session!Time
      PROVE  Budget(p, t)' /\ (spent[<<p, t>>] # 0 => t < now)
  <2>1. Budget(p, t) /\ (spent[<<p, t>>] # 0 => t < now) /\ t # None
    BY <1>3 DEF TokensOK, SpentOK
  <2>2. PICK k \in Nat : k = spent[<<p, t>>]
    BY <1>3
  <2>3. PICK a \in Nat, c \in Nat : /\ a = Cardinality(Holders(p, t))
                                    /\ c = Cardinality(Free(p, t))
                                    /\ c <= Cardinality(Requests)
    BY TokenSets, FewerRequests
  <2>4. Carriers(p, t)' = {} /\ Holders(p, t)' = {} /\ Free(p, t)' = Requests
    BY <1>2, <2>1 DEF Carriers, Holders, Free
  <2>5. PICK n \in Nat : n = Cardinality(Requests)
    BY SomeRequests
  <2>6. Cardinality(Holders(p, t)') = 0 /\ Cardinality(Free(p, t)') = n
    BY <2>4, <2>5, FS_EmptySet
  <2>7. IF tokens[p] = t THEN WhileStored(k, c) ELSE WhileOut(k, a, c)
    BY <2>1, <2>2, <2>3 DEF Budget
  <2>8. Budget(p, t)' <=> IF tokens[p] = t THEN WhileStored(k, n) ELSE WhileOut(k, 0, n)
    BY <1>1, <2>2, <2>6 DEF Budget, WhileStored, WhileOut
  <2>9. c <= n /\ 0 <= a /\ 0 \in Nat
    BY <2>3, <2>5
  <2> QED BY <2>1, <2>7, <2>8, <2>9, BudgetGrows
<1>5. SpentOK'
  BY <1>1, <1>4 DEF SpentOK
<1>6. RetiredOK'
  <2> SUFFICES ASSUME NEW x \in retired
               PROVE  /\ x[2] < now /\ tokens[x[1]] # x[2]
                      /\ Carriers(x[1], x[2])' = {}
                      /\ \A s \in Requests : ~ (req'[s].phone = x[1] /\ req'[s].from = x[2])
    BY <1>1 DEF RetiredOK, Carriers
  <2>1. x[2] # None
    BY <1>3
  <2> QED BY <1>2, <2>1 DEF TokensOK, RetiredOK, Carriers
<1> QED BY <1>5, <1>6 DEF TokensOK

LEMMA TickKeepsTokens ==
  ASSUME SessionOK, TokensOK, Session!Tick
  PROVE  TokensOK'
<1>1. UNCHANGED <<tokens, req, spent, retired>> /\ now' = now + 1
  BY DEF Session!Tick, Session!history
<1>2. now \in Nat /\ Session!Time \subseteq Nat /\ retired \subseteq Phones \X Session!Time
  BY SessionNumbers DEF SessionOK, SessionTypes, Session!TypeOK
<1>3. \A t \in Nat : t < now => t < now + 1
  BY <1>2
<1>4. SpentOK'
  <2>1. \A p \in Phones, t \in Session!Time : Budget(p, t)' = Budget(p, t)
    BY <1>1 DEF Budget, WhileStored, WhileOut, Carriers, Holders, Free
  <2> QED BY <1>1, <1>2, <1>3, <2>1 DEF TokensOK, SpentOK
<1>5. RetiredOK'
  <2>1. \A x \in retired : x[2] \in Nat
    BY <1>2
  <2> QED BY <1>1, <1>3, <2>1 DEF TokensOK, RetiredOK, Carriers
<1> QED BY <1>4, <1>5 DEF TokensOK

LEMMA SessionNextKeepsTokens ==
  ASSUME SessionOK, TokensOK, Session!Next
  PROVE  TokensOK'
<1>1. CASE Session!ExpireCode
  <2>1. UNCHANGED <<tokens, req, spent, retired, now>>
    BY <1>1 DEF Session!ExpireCode, Session!history
  <2> QED BY <2>1, ZenonT(40) DEF TokensOK, SpentOK, RetiredOK, Budget, WhileStored, WhileOut,
                      Carriers, Holders, Free
<1>2. CASE Session!Tick
  BY <1>2, TickKeepsTokens
<1>3. CASE Session!Restart
  BY <1>3, RestartKeepsTokens
<1>4. ASSUME NEW r \in Requests, Session!Step(r)
      PROVE  TokensOK'
  <2>1. CASE Session!StoreToken(r)
    BY <2>1, StoreTokenSpent, StoreTokenRetired DEF TokensOK
  <2>2. CASE ~ Session!StoreToken(r)
    <3>1. PICK q \in Session!Request : KeepsTokens(r, q)
      <4>1. CASE Reading(r)
        BY <4>1, SessionReads
      <4>2. CASE Session!StoreCode(r)
        BY <4>2, StoreCodeMoves
      <4>3. CASE Session!DeleteCode(r)
        BY <4>3, DeleteCodeMoves, SessionIdle
      <4> QED BY <1>4, <2>2, <4>1, <4>2, <4>3 DEF Session!Step, Reading
    <3> QED BY <3>1, KeepsTokensSpent, KeepsTokensRetired DEF TokensOK
  <2> QED BY <2>1, <2>2
<1> QED BY <1>1, <1>2, <1>3, <1>4 DEF Session!Next
-----------------------------------------------------------------------------
SessionInv == SessionOK /\ CodesOK /\ TokensOK

LEMMA SessionInitInv == Session!Init => SessionInv
<1> SUFFICES ASSUME Session!Init PROVE SessionInv
  OBVIOUS
<1>1. /\ users = [p \in {} |-> None] /\ DOMAIN users = {}
      /\ tokens = [p \in Phones |-> None] /\ codes = [p \in Phones |-> None]
      /\ nextCode = 1 /\ now = 0 /\ req = [r \in Requests |-> Session!Idle]
      /\ issued = {} /\ retired = {}
      /\ spent = [x \in Phones \X Session!Time |-> 0] /\ verified = [c \in Session!Code |-> 0]
  BY DEF Session!Init
<1>2. 1 \in 1..MaxCode + 1 /\ 0 \in Session!Time
  BY ServerAssumption DEF Session!Time
<1>3. Session!TypeOK
  BY <1>1, <1>2, SessionIdle DEF Session!TypeOK
<1>4. SessionOK
  BY <1>1, <1>3, SessionIdle DEF SessionOK, SessionTypes
<1>5. \A r \in Requests : req[r].pc = "idle" /\ req[r].phone = None /\ req[r].from = None
  BY <1>1, SessionIdle
<1>6. CodesOK
  <2>1. \A c : Deleting(c) = {}
    BY <1>5 DEF Deleting
  <2>2. Cardinality({}) = 0 /\ Cardinality(Requests) \in Nat
    BY FS_EmptySet, SomeRequests
  <2>3. CodesBounded
    <3> SUFFICES ASSUME NEW c \in Session!Code
                 PROVE  /\ verified[c] + Cardinality(Deleting(c)) <= Cardinality(Requests)
                        /\ verified[c] = 0
      BY DEF CodesBounded
    <3>1. verified[c] = 0
      BY <1>1
    <3>2. Cardinality(Deleting(c)) = 0
      BY <2>1, <2>2
    <3> QED BY <2>2, <3>1, <3>2
  <2> QED BY <1>1, <2>3 DEF CodesOK, CodesKnown
<1>7. SpentOK
  <2> SUFFICES ASSUME NEW p \in Phones, NEW t \in Session!Time
               PROVE  Budget(p, t) /\ spent[<<p, t>>] = 0
    BY DEF SpentOK
  <2>1. spent[<<p, t>>] = 0
    BY <1>1
  <2>2. PICK a \in Nat, c \in Nat : /\ a = Cardinality(Holders(p, t)) /\ a <= c
                                    /\ c = Cardinality(Free(p, t))
    BY TokenSets, FewerRequests
  <2> QED BY <2>1, <2>2, BudgetStarts DEF Budget
<1> QED BY <1>1, <1>4, <1>6, <1>7 DEF SessionInv, TokensOK, RetiredOK

LEMMA SessionNextInv ==
  ASSUME SessionInv, Session!Next
  PROVE  SessionInv'
<1>1. SessionOK'
  BY SessionStepKeepsOK, SessionClockKeepsOK DEF SessionInv, Session!Next
<1> QED BY <1>1, SessionNextKeepsCodes, SessionNextKeepsTokens DEF SessionInv

\* What the parts have in common: a part keeps to itself.
SessionPart == which = "session" => SessionInv

LEMMA SessionPartInit == ServerInit => SessionPart
BY SessionInitInv
DEF ServerInit, ClientInit, UserInit, AzitInit, SessionPart

LEMMA SessionPartNext == SessionPart /\ [ServerNext]_serverVars => SessionPart'
<1> SUFFICES ASSUME SessionPart, [ServerNext]_serverVars, which' = "session"
             PROVE  SessionInv'
  BY DEF SessionPart
<1>1. CASE UNCHANGED serverVars
  <2>1. UNCHANGED <<which, req, now, users, tokens, codes, nextCode, issued, spent, retired, verified>>
    BY <1>1 DEF serverVars, shared, clientParts, session
  <2>2. SessionOK' = SessionOK
    BY <2>1 DEF SessionOK, SessionTypes, Session!TypeOK, SoundSession
  <2>3. CodesOK' = CodesOK
    BY <2>1 DEF CodesOK, CodesKnown, CodesBounded, Deleting
  <2>4. TokensOK' = TokensOK
    BY <2>1 DEF TokensOK, SpentOK, RetiredOK, Budget, WhileStored, WhileOut,
                Carriers, Holders, Free
  <2> QED BY <2>1, <2>2, <2>3, <2>4 DEF SessionPart, SessionInv
<1>2. CASE ServerNext
  <2>1. which = "session" /\ Session!Next
    BY <1>2 DEF ServerNext, ClientStep, UserStep, AzitStep, HttpStep, SessionStep, ListsStep,
                PresenceStep, AttachmentsStep, ChatStep, MembershipStep, TimesStep, SeatsStep,
                PartyStep
  <2> QED BY <2>1, SessionNextInv DEF SessionPart
<1> QED BY <1>1, <1>2

LEMMA SessionCardinality == \A S : Session!Cardinality(S) = Cardinality(S)
BY DEF Session!Cardinality, Cardinality

\* A verification code is accepted no more often than there are requests that can
\* have looked it up before the first of them deleted it.
THEOREM CodesSpentOnce == ServerSpec => []CodesSpent
<1>1. SessionPart => CodesSpent
  <2> SUFFICES ASSUME which = "session", SessionInv PROVE Session!CodesSpent
    BY DEF SessionPart, CodesSpent
  <2> SUFFICES ASSUME NEW c \in Session!Code
               PROVE  verified[c] <= Cardinality(Requests)
    BY SessionCardinality DEF Session!CodesSpent
  <2>1. /\ verified[c] + Cardinality(Deleting(c)) <= Cardinality(Requests)
        /\ verified[c] \in Nat /\ Deleting(c) \in SUBSET Requests
    BY DEF SessionInv, SessionOK, SessionTypes, Session!TypeOK, CodesOK, CodesBounded, Deleting
  <2>2. Cardinality(Deleting(c)) \in Nat /\ Cardinality(Requests) \in Nat
    BY <2>1, SomeRequests
  <2> QED BY <2>1, <2>2
<1> QED BY <1>1, SessionPartInit, SessionPartNext, PTL DEF ServerSpec

\* A refresh token that n concurrent requests may hold is exchanged at most
\* n + (n - 1) + ... times, and never once a request that was alone has exchanged it.
THEOREM TokensSpentBounded == ServerSpec => []TokensSpent
<1>1. SessionPart => TokensSpent
  <2> SUFFICES ASSUME which = "session", SessionInv PROVE Session!TokensSpent
    BY DEF SessionPart, TokensSpent
  <2>1. ASSUME NEW p \in Phones, NEW t \in Session!Time
        PROVE  2 * spent[<<p, t>>] <= Cardinality(Requests) * (Cardinality(Requests) + 1)
    <3>1. Budget(p, t)
      BY DEF SessionInv, TokensOK, SpentOK
    <3>2. PICK k \in Nat : k = spent[<<p, t>>]
      BY DEF SessionInv, SessionOK, SessionTypes, Session!TypeOK
    <3>3. PICK a \in Nat, c \in Nat : /\ a = Cardinality(Holders(p, t))
                                      /\ c = Cardinality(Free(p, t))
                                      /\ c <= Cardinality(Requests)
      BY TokenSets, FewerRequests
    <3>4. WhileStored(k, c) \/ WhileOut(k, a, c)
      BY <3>1, <3>2, <3>3 DEF Budget
    <3>5. PICK n \in Nat : n = Cardinality(Requests)
      BY SomeRequests
    <3> QED BY <3>2, <3>3, <3>4, <3>5, BudgetBounds
  <2>2. ASSUME NEW r \in Requests, req[r].from # None
        PROVE  <<req[r].phone, req[r].from>> \notin retired
    BY DEF SessionInv, TokensOK, RetiredOK
  <2> QED BY <2>1, <2>2, SessionCardinality, Zenon DEF Session!TokensSpent
<1> QED BY <1>1, SessionPartInit, SessionPartNext, PTL DEF ServerSpec
-----------------------------------------------------------------------------

Changing == {"update", "delete", "invite"}

\* What a request of ChatRoom may rely on.  Who changes a room acts as its creator; what
\* the caller's membership was read as may be gone by now, but no other has taken the
\* place of the creator's.
SoundChat(q) ==
  /\ q.op \in {"join", "read"} => q.socket \in Sockets /\ q.room \in Chatted!RoomId
  /\ q.op = "create" => q.azit \in Azits /\ q.pc = "act"
  /\ q.room # None => q.room < nextRoom
  /\ q.pc = "private" => q.op = "read"
  /\ q.pc = "creator" => q.op \in Changing
  /\ q.pc = "invited" => q.op = "invite"
  /\ q.pc = "member" /\ q.room \in DOMAIN rooms => q.azit = rooms[q.room].azit
  /\ /\ q.pc = "creator" /\ q.room \in DOMAIN rooms
     /\ rooms[q.room].creator \in Chatted!MemberOf(q.user, rooms[q.room].azit)
     => q.member = rooms[q.room].creator
  /\ q.op \in Changing /\ q.pc \in {"invited", "act"} /\ q.room \in DOMAIN rooms
     => q.member = rooms[q.room].creator
  /\ q.pc = "emit" =>
       /\ q.op = "send" /\ q.chat \in Chatted!ChatId /\ q.chat < nextChat
       /\ q.chat \in DOMAIN chats => chats[q.chat].room = q.room

\* Ids are handed out once; a user has one membership of an azit; a socket that follows
\* a room is connected.
ChatTypes ==
  /\ Chatted!TypeOK
  /\ \A m \in DOMAIN members : m < nextMember
  /\ \A k \in DOMAIN rooms : k < nextRoom /\ rooms[k].creator < nextMember
  /\ \A c \in DOMAIN chats : c < nextChat
  /\ \A m, n \in DOMAIN members : members[m] = members[n] => m = n
  /\ \A x \in subs : Chatted!Live(x[1])

ChatOK == ChatTypes /\ \A r \in Requests : SoundChat(req[r])

LEMMA ChatNumbers ==
  /\ Chatted!MemberId \subseteq Nat /\ Chatted!RoomId \subseteq Nat /\ Chatted!ChatId \subseteq Nat
  /\ None \notin Chatted!MemberId /\ None \notin Chatted!RoomId /\ None \notin Chatted!ChatId
  /\ ChatTypes => /\ nextMember \in Nat /\ nextRoom \in Nat /\ nextChat \in Nat
                  /\ nextMember <= MaxMember => nextMember \in Chatted!MemberId
                  /\ nextRoom <= MaxRoom => nextRoom \in Chatted!RoomId
                  /\ nextChat <= MaxChat => nextChat \in Chatted!ChatId
BY ServerAssumption
DEF Chatted!MemberId, Chatted!RoomId, Chatted!ChatId, ChatTypes, Chatted!TypeOK

LEMMA ChatIdle ==
  /\ Chatted!Idle \in Chatted!Request
  /\ Chatted!Idle.op = "idle" /\ Chatted!Idle.pc = "idle"
  /\ Chatted!Idle.room = None /\ Chatted!Idle.chat = None
  /\ SoundChat(Chatted!Idle)
BY DEF Chatted!Idle, Chatted!Request, Chatted!Ops, Chatted!Pcs, SoundChat, Changing

\* The request that steps is replaced by q; the others stay.
LEMMA ChatUpdate ==
  ASSUME NEW r \in Requests, NEW q \in Chatted!Request, Chatted!TypeOK, Chatted!Become(r, q)
  PROVE  /\ req' \in [Requests -> Chatted!Request]
         /\ req'[r] = q
         /\ \A s \in Requests : s # r => req'[s] = req[s]
BY DEF Chatted!TypeOK, Chatted!Become

\* Rows of ids handed out before come from rows that were there, with what never changes.
RowsKept ==
  /\ DOMAIN rooms' \subseteq Chatted!RoomId
  /\ nextMember <= nextMember' /\ nextRoom <= nextRoom' /\ nextChat <= nextChat'
  /\ \A m \in DOMAIN members' : m < nextMember => m \in DOMAIN members /\ members'[m] = members[m]
  /\ \A k \in DOMAIN rooms' : k < nextRoom =>
       /\ k \in DOMAIN rooms /\ rooms'[k].azit = rooms[k].azit
       /\ rooms'[k].creator = rooms[k].creator
  /\ \A c \in DOMAIN chats' : c < nextChat => c \in DOMAIN chats /\ chats'[c] = chats[c]

LEMMA SoundChatStays ==
  ASSUME NEW q \in Chatted!Request, SoundChat(q), ChatTypes, RowsKept,
         nextMember' \in Nat, nextRoom' \in Nat, nextChat' \in Nat
  PROVE  SoundChat(q)'
<1>1. nextMember \in Nat /\ nextRoom \in Nat /\ nextChat \in Nat
  BY ChatNumbers
<1>2. q.room # None => q.room \in Nat /\ q.room < nextRoom /\ q.room < nextRoom'
  <2>1. q.room # None => q.room \in Nat
    BY ChatNumbers DEF Chatted!Request
  <2>2. q.room # None => q.room < nextRoom
    BY DEF SoundChat
  <2>3. nextRoom <= nextRoom'
    BY DEF RowsKept
  <2> QED BY <1>1, <2>1, <2>2, <2>3
<1>3. ASSUME q.room \in DOMAIN rooms'
      PROVE  /\ q.room \in DOMAIN rooms
             /\ rooms'[q.room].azit = rooms[q.room].azit
             /\ rooms'[q.room].creator = rooms[q.room].creator
             /\ rooms[q.room].creator < nextMember
  <2>1. q.room # None
    BY <1>3, ChatNumbers DEF RowsKept
  <2>2. /\ q.room \in DOMAIN rooms
        /\ rooms'[q.room].azit = rooms[q.room].azit
        /\ rooms'[q.room].creator = rooms[q.room].creator
    BY <1>2, <1>3, <2>1 DEF RowsKept
  <2> QED BY <2>2 DEF ChatTypes
<1>4. ASSUME q.room \in DOMAIN rooms',
             (rooms[q.room].creator \in Chatted!MemberOf(q.user, rooms[q.room].azit))'
      PROVE  rooms[q.room].creator \in Chatted!MemberOf(q.user, rooms[q.room].azit)
  <2>1. PICK k : k = rooms[q.room].creator
    OBVIOUS
  <2>2. PICK a : a = rooms[q.room].azit
    OBVIOUS
  <2>3. k \in DOMAIN members' /\ members'[k] = [user |-> q.user, azit |-> a] /\ k < nextMember
    BY <1>3, <1>4, <2>1, <2>2 DEF Chatted!MemberOf
  <2>4. k \in DOMAIN members /\ members[k] = [user |-> q.user, azit |-> a]
    BY <2>3 DEF RowsKept
  <2> QED BY <2>1, <2>2, <2>4 DEF Chatted!MemberOf
<1>5. ASSUME q.pc = "emit"
      PROVE  /\ q.op = "send" /\ q.chat \in Chatted!ChatId /\ q.chat < nextChat'
             /\ q.chat \in DOMAIN chats' => chats'[q.chat].room = q.room
  <2>1. /\ q.op = "send" /\ q.chat \in Chatted!ChatId /\ q.chat < nextChat /\ q.chat \in Nat
        /\ q.chat \in DOMAIN chats => chats[q.chat].room = q.room
    BY <1>5, ChatNumbers DEF SoundChat
  <2>2. q.chat < nextChat'
    BY <1>1, <2>1 DEF RowsKept
  <2> QED BY <2>1, <2>2 DEF RowsKept
<1>6. ASSUME q.pc = "member" /\ q.room \in DOMAIN rooms' PROVE q.azit = rooms'[q.room].azit
  BY <1>3, <1>6 DEF SoundChat
<1>7. ASSUME q.pc = "creator", q.room \in DOMAIN rooms',
             (rooms[q.room].creator \in Chatted!MemberOf(q.user, rooms[q.room].azit))'
      PROVE  q.member = rooms'[q.room].creator
  BY <1>3, <1>4, <1>7 DEF SoundChat
<1>8. ASSUME q.op \in Changing /\ q.pc \in {"invited", "act"} /\ q.room \in DOMAIN rooms'
      PROVE  q.member = rooms'[q.room].creator
  BY <1>3, <1>8 DEF SoundChat
<1> QED BY <1>2, <1>5, <1>6, <1>7, <1>8 DEF SoundChat

LEMMA ChatRequestsStay ==
  ASSUME ChatOK, RowsKept, nextMember' \in Nat, nextRoom' \in Nat, nextChat' \in Nat,
         NEW r \in Requests, NEW q \in Chatted!Request, Chatted!Become(r, q), SoundChat(q)'
  PROVE  req' \in [Requests -> Chatted!Request] /\ \A s \in Requests : SoundChat(req[s])'
<1>1. /\ req' \in [Requests -> Chatted!Request]
      /\ req'[r] = q /\ \A s \in Requests : s # r => req'[s] = req[s]
  BY ChatUpdate DEF ChatOK, ChatTypes
<1>2. ASSUME NEW s \in Requests PROVE SoundChat(req[s])'
  <2>1. CASE s = r
    BY <1>1, <2>1 DEF SoundChat
  <2>2. CASE s # r
    <3>1. PICK p \in Chatted!Request : p = req[s] /\ SoundChat(p)
      BY DEF ChatOK, ChatTypes, Chatted!TypeOK
    <3>2. SoundChat(p)'
      BY <3>1, SoundChatStays DEF ChatOK
    <3> QED BY <1>1, <2>2, <3>1, <3>2 DEF SoundChat
  <2> QED BY <2>1, <2>2
<1> QED BY <1>1, <1>2
-----------------------------------------------------------------------------
(* The steps of a request that write nothing *)

\* A request that starts on a room has read what the room never changes.
LEMMA ChatFinds ==
  ASSUME ChatOK, NEW op \in Chatted!Ops, NEW u \in Users, NEW k \in DOMAIN rooms
  PROVE  LET q == Chatted!RoomRead(op, u, k) IN
         /\ q \in Chatted!Request /\ q.op = op /\ q.pc = "member" /\ q.room = k
         /\ q.azit = rooms[k].azit
<1>1. k \in Chatted!RoomId /\ rooms[k] \in Chatted!Room
  BY DEF ChatOK, ChatTypes, Chatted!TypeOK
<1>2. rooms[k].azit \in Azits /\ rooms[k].private \in BOOLEAN
  BY <1>1 DEF Chatted!Room
<1> QED BY <1>1, <1>2, ChatIdle DEF Chatted!RoomRead, Chatted!Idle, Chatted!Request, Chatted!Pcs

Starting(r) ==
  \/ Chatted!handleJoinRoom(r) \/ Chatted!handleSendMessage(r) \/ Chatted!getMessages(r)
  \/ Chatted!createChatRoom(r) \/ Chatted!updateChatRoom(r) \/ Chatted!deleteChatRoom(r)
  \/ Chatted!inviteToChatRoom(r)

LEMMA ChatFindRoom ==
  ASSUME ChatOK, NEW r \in Requests, NEW op \in Chatted!Ops, op \notin {"join", "read", "create"},
         Chatted!FindRoom(r, op)
  PROVE  \E q \in Chatted!Request : Chatted!Become(r, q) /\ SoundChat(q) /\ q.pc = "member"
<1>1. PICK u \in Users, k \in DOMAIN rooms : Chatted!Begin(r, Chatted!RoomRead(op, u, k))
  BY DEF Chatted!FindRoom
<1>2. PICK q \in Chatted!Request : /\ q = Chatted!RoomRead(op, u, k) /\ q.op = op
                                   /\ q.pc = "member" /\ q.room = k /\ q.azit = rooms[k].azit
  BY ChatFinds
<1>3. SoundChat(q)
  BY <1>2 DEF SoundChat, ChatOK, ChatTypes
<1> QED BY <1>1, <1>2, <1>3 DEF Chatted!Begin

LEMMA ChatFindRoomOf ==
  ASSUME ChatOK, NEW r \in Requests, NEW op \in Chatted!Ops, op # "create",
         Chatted!FindRoomOf(r, op)
  PROVE  \E q \in Chatted!Request : Chatted!Become(r, q) /\ SoundChat(q) /\ q.pc = "member"
<1>1. PICK s \in Sockets, k \in DOMAIN rooms :
        /\ Chatted!Live(s)
        /\ Chatted!Begin(r, [Chatted!RoomRead(op, sockets[s], k) EXCEPT !.socket = s])
  BY DEF Chatted!FindRoomOf
<1>2. sockets[s] \in Users
  BY <1>1 DEF Chatted!Live
<1>3. PICK p \in Chatted!Request : /\ p = Chatted!RoomRead(op, sockets[s], k) /\ p.op = op
                                   /\ p.pc = "member" /\ p.room = k /\ p.azit = rooms[k].azit
  BY <1>2, ChatFinds
<1> DEFINE q == [p EXCEPT !.socket = s]
<1>4. /\ q \in Chatted!Request /\ q.op = op /\ q.socket = s
      /\ q.pc = "member" /\ q.room = k /\ q.azit = rooms[k].azit
  BY <1>3 DEF Chatted!Request
<1>5. Chatted!Become(r, q)
  BY <1>1, <1>3 DEF Chatted!Begin
<1> HIDE DEF q
<1>6. k \in Chatted!RoomId /\ k < nextRoom
  BY DEF ChatOK, ChatTypes, Chatted!TypeOK
<1>7. SoundChat(q)
  BY <1>4, <1>6 DEF SoundChat
<1> QED BY <1>4, <1>5, <1>7

LEMMA ChatInvites ==
  ASSUME ChatOK, NEW r \in Requests, Chatted!inviteToChatRoom(r)
  PROVE  \E q \in Chatted!Request : Chatted!Become(r, q) /\ SoundChat(q) /\ q.pc = "member"
<1>1. PICK u \in Users, k \in DOMAIN rooms, ms \in SUBSET (1..nextMember - 1) \ {{}} :
        Chatted!Begin(r, [Chatted!RoomRead("invite", u, k) EXCEPT !.invites = ms])
  BY DEF Chatted!inviteToChatRoom
<1>2. ms \subseteq Chatted!MemberId
  BY ServerAssumption DEF ChatOK, ChatTypes, Chatted!TypeOK, Chatted!MemberId
<1>3. PICK p \in Chatted!Request : /\ p = Chatted!RoomRead("invite", u, k) /\ p.op = "invite"
                                   /\ p.pc = "member" /\ p.room = k /\ p.azit = rooms[k].azit
  <2>1. "invite" \in Chatted!Ops
    BY DEF Chatted!Ops
  <2> QED BY <2>1, ChatFinds
<1> DEFINE q == [p EXCEPT !.invites = ms]
<1>4. /\ q \in Chatted!Request /\ q.op = "invite"
      /\ q.pc = "member" /\ q.room = k /\ q.azit = rooms[k].azit
  BY <1>2, <1>3 DEF Chatted!Request
<1>5. Chatted!Become(r, q)
  BY <1>1, <1>3 DEF Chatted!Begin
<1> HIDE DEF q
<1>6. SoundChat(q)
  BY <1>4 DEF SoundChat, ChatOK, ChatTypes
<1> QED BY <1>4, <1>5, <1>6

LEMMA ChatCreates ==
  ASSUME ChatOK, NEW r \in Requests, Chatted!createChatRoom(r)
  PROVE  \E q \in Chatted!Request : Chatted!Become(r, q) /\ SoundChat(q) /\ q.pc = "act"
<1>1. PICK m \in DOMAIN members, private \in BOOLEAN :
        Chatted!Begin(r, [Chatted!Idle EXCEPT !.op = "create", !.pc = "act",
                            !.azit = members[m].azit, !.private = private, !.member = m])
  BY DEF Chatted!createChatRoom
<1>2. m \in Chatted!MemberId /\ members[m].azit \in Azits
  BY DEF ChatOK, ChatTypes, Chatted!TypeOK, Chatted!Member
<1> DEFINE q == [Chatted!Idle EXCEPT !.op = "create", !.pc = "act",
                   !.azit = members[m].azit, !.private = private, !.member = m]
<1>3. /\ q \in Chatted!Request /\ q.op = "create" /\ q.pc = "act" /\ q.azit \in Azits
      /\ q.room = None
  BY <1>2 DEF Chatted!Idle, Chatted!Request, Chatted!Ops, Chatted!Pcs
<1>4. Chatted!Become(r, q)
  BY <1>1 DEF Chatted!Begin
<1> HIDE DEF q
<1>5. SoundChat(q)
  BY <1>3 DEF SoundChat, Changing
<1> QED BY <1>3, <1>4, <1>5

LEMMA ChatStarts ==
  ASSUME ChatOK, NEW r \in Requests, Starting(r)
  PROVE  \E q \in Chatted!Request : /\ Chatted!Become(r, q) /\ SoundChat(q) /\ Chatted!Reads
                                    /\ req[r].pc # "emit"
<1>1. /\ \A op \in {"join", "read", "send", "update", "delete"} : op \in Chatted!Ops
      /\ Chatted!Idle.pc # "emit"
  BY ChatIdle DEF Chatted!Ops
<1>2. Chatted!Reads /\ req[r] = Chatted!Idle
  BY DEF Starting, Chatted!handleJoinRoom, Chatted!handleSendMessage, Chatted!getMessages,
         Chatted!createChatRoom, Chatted!updateChatRoom, Chatted!deleteChatRoom,
         Chatted!inviteToChatRoom, Chatted!FindRoom, Chatted!FindRoomOf, Chatted!Begin
<1>3. \E q \in Chatted!Request : Chatted!Become(r, q) /\ SoundChat(q)
  BY <1>1, ChatFindRoom, ChatFindRoomOf, ChatInvites, ChatCreates
  DEF Starting, Chatted!handleJoinRoom, Chatted!handleSendMessage, Chatted!getMessages,
      Chatted!updateChatRoom, Chatted!deleteChatRoom
<1> QED BY <1>1, <1>2, <1>3

\* What is forgotten is needed no more.
LEMMA ChatForgets ==
  ASSUME NEW q \in Chatted!Request, NEW pc \in Chatted!Pcs, NEW m \in Chatted!MemberId \union {None}
  PROVE  LET n == Chatted!Forget([q EXCEPT !.pc = pc, !.member = m]) IN
         /\ n \in Chatted!Request /\ n.op = q.op /\ n.pc = pc /\ n.room = q.room
         /\ n.socket = q.socket /\ n.chat = q.chat
         /\ pc # "act" => n.user = q.user
         /\ q.op \in Changing => n.member = m
<1> DEFINE p == [q EXCEPT !.pc = pc, !.member = m]
<1>1. /\ p \in Chatted!Request /\ p.op = q.op /\ p.pc = pc /\ p.room = q.room /\ p.user = q.user
      /\ p.socket = q.socket /\ p.chat = q.chat /\ p.member = m
  BY DEF Chatted!Request
<1> HIDE DEF p
<1> DEFINE n == Chatted!Forget(p)
<1>2. n = [p EXCEPT !.azit = None, !.private = FALSE,
                    !.user = IF p.pc = "act" THEN None ELSE @,
                    !.member = IF p.op \in {"join", "read"} THEN None ELSE @]
  BY DEF Chatted!Forget
<1>3. /\ n \in Chatted!Request /\ n.op = p.op /\ n.pc = p.pc /\ n.room = p.room
      /\ n.socket = p.socket /\ n.chat = p.chat
      /\ n.user = IF p.pc = "act" THEN None ELSE p.user
      /\ n.member = IF p.op \in {"join", "read"} THEN None ELSE p.member
  <2> DEFINE u == IF p.pc = "act" THEN None ELSE p.user
             b == IF p.op \in {"join", "read"} THEN None ELSE p.member
  <2>1. u \in Users \union {None} /\ b \in Chatted!MemberId \union {None}
    BY <1>1 DEF Chatted!Request
  <2>2. n = [p EXCEPT !.azit = None, !.private = FALSE, !.user = u, !.member = b]
    BY <1>1, <1>2 DEF Chatted!Request
  <2> HIDE DEF n, u, b
  <2>3. /\ n \in Chatted!Request /\ n.op = p.op /\ n.pc = p.pc /\ n.room = p.room
        /\ n.socket = p.socket /\ n.chat = p.chat /\ n.user = u /\ n.member = b
    BY <1>1, <2>1, <2>2 DEF Chatted!Request
  <2> QED BY <2>3 DEF u, b
<1> QED BY <1>1, <1>3 DEF p, Changing

\* The step after the membership, for every kind of request.
LEMMA ChatAfterMember ==
  ASSUME NEW q \in Chatted!Request
  PROVE  /\ Chatted!AfterMember(q) \in {"private", "creator", "idle", "act"}
         /\ Chatted!AfterMember(q) = "private" => q.op = "read"
         /\ Chatted!AfterMember(q) = "creator" => q.op \in Changing
         /\ q.op \in Changing => Chatted!AfterMember(q) # "act"
<1> USE DEF Changing
<1>1. q.op \in Chatted!Ops /\ q.private \in BOOLEAN
  BY DEF Chatted!Request
<1>2. CASE q.op = "read"
  BY <1>1, <1>2 DEF Chatted!AfterMember
<1>3. CASE q.op \in {"update", "delete"}
  BY <1>1, <1>3 DEF Chatted!AfterMember
<1>4. CASE q.op = "invite"
  BY <1>1, <1>4 DEF Chatted!AfterMember
<1>5. CASE q.op \notin {"read", "update", "delete", "invite"}
  BY <1>1, <1>5 DEF Chatted!AfterMember
<1> QED BY <1>2, <1>3, <1>4, <1>5

LEMMA ChatFindsMember ==
  ASSUME ChatOK, NEW r \in Requests, Chatted!FindMember(r)
  PROVE  \E q \in Chatted!Request : /\ Chatted!Become(r, q) /\ SoundChat(q) /\ Chatted!Reads
                                    /\ req[r].pc # "emit"
<1>1. PICK o \in Chatted!Request : o = req[r] /\ SoundChat(o) /\ o.pc = "member"
  BY DEF ChatOK, ChatTypes, Chatted!TypeOK, Chatted!FindMember
<1>2. Chatted!Reads
  BY DEF Chatted!FindMember
<1>3. CASE Chatted!Return(r)
  BY <1>1, <1>2, <1>3, ChatIdle DEF Chatted!Return
<1>4. CASE ~ Chatted!Return(r)
  <2> DEFINE pc == Chatted!AfterMember(o)
  <2>1. PICK m \in Chatted!MemberOf(o.user, o.azit) :
          Chatted!Become(r, Chatted!Forget([o EXCEPT !.pc = pc, !.member = m]))
    BY <1>1, <1>4 DEF Chatted!FindMember
  <2>2. pc \in {"private", "creator", "act"}
    BY <1>1, <1>4, ChatAfterMember DEF Chatted!FindMember
  <2>3. /\ pc = "private" => o.op = "read"
        /\ pc = "creator" => o.op \in Changing
        /\ o.op \in Changing => pc # "act"
    BY ChatAfterMember
  <2> HIDE DEF pc
  <2>4. m \in DOMAIN members /\ members[m] = [user |-> o.user, azit |-> o.azit]
    BY DEF Chatted!MemberOf
  <2>5. pc \in Chatted!Pcs /\ m \in Chatted!MemberId \union {None}
    BY <2>2, <2>4 DEF Chatted!Pcs, ChatOK, ChatTypes, Chatted!TypeOK
  <2>6. PICK q \in Chatted!Request :
          /\ q = Chatted!Forget([o EXCEPT !.pc = pc, !.member = m])
          /\ q.op = o.op /\ q.pc = pc /\ q.room = o.room
          /\ q.socket = o.socket /\ q.chat = o.chat
          /\ pc # "act" => q.user = o.user
          /\ o.op \in Changing => q.member = m
    BY <2>5, ChatForgets
  <2>7. q.op # "create"
    BY <1>1, <2>6 DEF SoundChat
  <2>8. ASSUME q.pc = "creator", q.room \in DOMAIN rooms,
               rooms[q.room].creator \in Chatted!MemberOf(q.user, rooms[q.room].azit)
        PROVE  q.member = rooms[q.room].creator
    <3>1. /\ q.user = o.user /\ o.azit = rooms[q.room].azit /\ q.member = m
          /\ q.room = o.room
      BY <1>1, <2>3, <2>6, <2>8 DEF SoundChat
    <3>2. /\ rooms[q.room].creator \in DOMAIN members
          /\ members[rooms[q.room].creator] = members[m]
      BY <2>4, <2>8, <3>1 DEF Chatted!MemberOf
    <3> QED BY <2>4, <3>1, <3>2 DEF ChatOK, ChatTypes
  <2>9. SoundChat(q)
    BY <1>1, <2>2, <2>3, <2>6, <2>7, <2>8 DEF SoundChat
  <2> QED BY <1>1, <1>2, <2>1, <2>6, <2>9
<1> QED BY <1>3, <1>4

\* The checks of rights: a request that passes the creator's acts as the creator.
LEMMA ChatChecks ==
  ASSUME ChatOK, NEW r \in Requests,
         Chatted!CheckPrivate(r) \/ Chatted!CheckCreator(r) \/ Chatted!CheckInvited(r)
  PROVE  \E q \in Chatted!Request : /\ Chatted!Become(r, q) /\ SoundChat(q) /\ Chatted!Reads
                                    /\ req[r].pc # "emit"
<1>1. PICK o \in Chatted!Request : o = req[r] /\ SoundChat(o)
  BY DEF ChatOK, ChatTypes, Chatted!TypeOK
<1>2. Chatted!Reads /\ o.pc \in {"private", "creator", "invited"}
  BY <1>1 DEF Chatted!CheckPrivate, Chatted!CheckCreator, Chatted!CheckInvited, Chatted!Check
<1>3. CASE Chatted!Return(r)
  BY <1>1, <1>2, <1>3, ChatIdle DEF Chatted!Return
<1>4. CASE ~ Chatted!Return(r)
  <2>1. PICK pc \in {"act", "invited"} :
          /\ Chatted!Become(r, Chatted!Forget([o EXCEPT !.pc = pc]))
          /\ pc = "invited" => o.op = "invite"
          /\ o.pc = "creator" => Chatted!MayChange(o.room, o.user)
    BY <1>1, <1>4
    DEF Chatted!CheckPrivate, Chatted!CheckCreator, Chatted!CheckInvited, Chatted!Check
  <2>2. [o EXCEPT !.pc = pc] = [o EXCEPT !.pc = pc, !.member = o.member]
    BY DEF Chatted!Request
  <2>3. pc \in Chatted!Pcs /\ o.member \in Chatted!MemberId \union {None}
    BY <2>1 DEF Chatted!Pcs, Chatted!Request
  <2>4. PICK q \in Chatted!Request :
          /\ q = Chatted!Forget([o EXCEPT !.pc = pc])
          /\ q.op = o.op /\ q.pc = pc /\ q.room = o.room
          /\ q.socket = o.socket /\ q.chat = o.chat
          /\ o.op \in Changing => q.member = o.member
    BY <2>2, <2>3, ChatForgets, ZenonT(40)
  <2>5. ASSUME q.op \in Changing, q.room \in DOMAIN rooms
        PROVE  q.member = rooms[q.room].creator
    <3>1. CASE o.pc = "creator"
      BY <1>1, <2>1, <2>4, <2>5, <3>1
      DEF SoundChat, Chatted!MayChange, Chatted!IsRoomCreator
    <3>2. CASE o.pc = "invited"
      BY <1>1, <2>4, <2>5, <3>2 DEF SoundChat
    <3>3. CASE o.pc = "private"
      BY <1>1, <2>4, <2>5, <3>3 DEF SoundChat, Changing
    <3> QED BY <1>2, <3>1, <3>2, <3>3
  <2>6. q.op # "create" 
    BY <1>1, <1>2, <2>4 DEF SoundChat
  <2>7. SoundChat(q)
    BY <1>1, <2>1, <2>4, <2>5, <2>6 DEF SoundChat
  <2> QED BY <1>1, <1>2, <2>1, <2>4, <2>7
<1> QED BY <1>3, <1>4
-----------------------------------------------------------------------------
(* What the steps write: tables, or the sockets that follow rooms *)

Tables ==
  /\ standing \subseteq Azits
  /\ DOMAIN members \subseteq Chatted!MemberId /\ members \in [DOMAIN members -> Chatted!Member]
  /\ DOMAIN rooms \subseteq Chatted!RoomId /\ rooms \in [DOMAIN rooms -> Chatted!Room]
  /\ joined \subseteq Chatted!MemberId \X Chatted!RoomId
  /\ DOMAIN chats \subseteq Chatted!ChatId /\ chats \in [DOMAIN chats -> Chatted!Chat]
  /\ nextMember \in 1..MaxMember + 1 /\ nextRoom \in 1..MaxRoom + 1 /\ nextChat \in 1..MaxChat + 1
  /\ \A m \in DOMAIN members : m < nextMember
  /\ \A k \in DOMAIN rooms : k < nextRoom /\ rooms[k].creator < nextMember
  /\ \A c \in DOMAIN chats : c < nextChat
  /\ \A m, n \in DOMAIN members : members[m] = members[n] => m = n

Followers ==
  /\ sockets \in [Sockets -> Users \union {None, "closed"}]
  /\ subs \subseteq Sockets \X Chatted!RoomId /\ caughtUp \subseteq subs
  /\ seen \in [Sockets -> SUBSET Chatted!ChatId]
  /\ \A x \in subs : Chatted!Live(x[1])

LEMMA ChatTypesParts ==
  ChatTypes <=> Tables /\ Followers /\ req \in [Requests -> Chatted!Request]
BY DEF ChatTypes, Chatted!TypeOK, Tables, Followers

\* The same of the next state.
LEMMA ChatTypesJoin ==
  ASSUME Tables', Followers', req' \in [Requests -> Chatted!Request]
  PROVE  ChatTypes'
BY DEF ChatTypes, Chatted!TypeOK, Tables, Followers

LEMMA TablesKept ==
  ASSUME Tables, UNCHANGED Chatted!database
  PROVE  Tables' /\ RowsKept
<1>1. UNCHANGED <<standing, members, rooms, joined, chats, nextMember, nextRoom, nextChat>>
  BY DEF Chatted!database
<1>2. nextMember \in Nat /\ nextRoom \in Nat /\ nextChat \in Nat
  BY ServerAssumption DEF Tables
<1> QED BY <1>1, <1>2 DEF Tables, RowsKept

LEMMA FollowersKept ==
  ASSUME Followers, UNCHANGED Chatted!clients
  PROVE  Followers'
BY DEF Followers, Chatted!clients, Chatted!Live

LEMMA InsertRoomTables ==
  ASSUME ChatOK, NEW r \in Requests, Chatted!InsertRoom(r)
  PROVE  Tables' /\ RowsKept
<1>1. PICK q \in Chatted!Request : q = req[r] /\ SoundChat(q)
  BY DEF ChatOK, ChatTypes, Chatted!TypeOK
<1>2. /\ Tables /\ nextMember \in Nat /\ nextRoom \in Nat /\ nextChat \in Nat
      /\ q.op = "create" /\ nextRoom <= MaxRoom /\ nextRoom \in Chatted!RoomId
      /\ nextRoom + 1 \in 1..MaxRoom + 1
      /\ UNCHANGED <<standing, members, chats, nextMember, nextChat>>
  BY <1>1, ChatNumbers, ChatTypesParts, ServerAssumption
  DEF ChatOK, Chatted!InsertRoom, Chatted!At, Tables
<1>3. CASE q.member \notin DOMAIN members
  <2>1. UNCHANGED Chatted!database
    BY <1>1, <1>2, <1>3 DEF Chatted!InsertRoom, Chatted!database
  <2> QED BY <1>2, <2>1, TablesKept
<1>4. CASE q.member \in DOMAIN members
  <2> DEFINE n == [azit |-> q.azit, private |-> q.private, creator |-> q.member]
  <2>1. n \in Chatted!Room /\ n.creator < nextMember
    BY <1>1, <1>2, <1>4 DEF Chatted!Room, SoundChat, Chatted!Request, Tables
  <2> HIDE DEF n
  <2>2. /\ rooms' = [k \in DOMAIN rooms \union {nextRoom} |-> IF k = nextRoom THEN n ELSE rooms[k]]
        /\ joined' = joined \union {<<q.member, nextRoom>>}
        /\ nextRoom' = nextRoom + 1
    BY <1>1, <1>4 DEF Chatted!InsertRoom, n
  <2>3. nextRoom \notin DOMAIN rooms
    BY <1>2 DEF Tables
  <2>4. /\ DOMAIN rooms' = DOMAIN rooms \union {nextRoom} /\ rooms'[nextRoom] = n
        /\ \A k \in DOMAIN rooms : rooms'[k] = rooms[k]
        /\ rooms' \in [DOMAIN rooms' -> Chatted!Room]
    BY <1>2, <2>1, <2>2, <2>3 DEF Tables
  <2>5. joined' \subseteq Chatted!MemberId \X Chatted!RoomId
    BY <1>2, <1>4, <2>2 DEF Tables
  <2>6. \A k \in DOMAIN rooms' : k < nextRoom' /\ rooms'[k].creator < nextMember
    <3>1. \A k \in DOMAIN rooms : k \in Nat /\ k < nextRoom /\ rooms[k].creator < nextMember
      BY <1>2, ChatNumbers DEF Tables
    <3> QED BY <1>2, <2>1, <2>2, <2>4, <3>1
  <2>7. Tables'
    BY <1>2, <2>2, <2>4, <2>5, <2>6 DEF Tables
  <2>8. \A k \in DOMAIN rooms' : k < nextRoom =>
          k \in DOMAIN rooms /\ rooms'[k] = rooms[k]
    BY <1>2, <2>4
  <2>9. DOMAIN rooms' \subseteq Chatted!RoomId
    BY <1>2, <2>4 DEF Tables
  <2> QED BY <1>2, <2>2, <2>7, <2>8, <2>9 DEF RowsKept
<1> QED BY <1>3, <1>4

LEMMA UpdateRoomTables ==
  ASSUME ChatOK, NEW r \in Requests, Chatted!UpdateRoom(r)
  PROVE  Tables' /\ RowsKept
<1>1. Tables /\ nextMember \in Nat /\ nextRoom \in Nat /\ nextChat \in Nat
  BY ChatNumbers, ChatTypesParts DEF ChatOK
<1>2. UNCHANGED <<standing, members, joined, chats, nextMember, nextRoom, nextChat>>
  BY DEF Chatted!UpdateRoom
<1>3. CASE rooms' = rooms
  <2>1. UNCHANGED Chatted!database
    BY <1>2, <1>3 DEF Chatted!database
  <2> QED BY <1>1, <2>1, TablesKept
<1>4. CASE rooms' # rooms
  <2>1. PICK private \in BOOLEAN :
          req[r].room \in DOMAIN rooms /\ rooms' = [rooms EXCEPT ![req[r].room].private = private]
    BY <1>4 DEF Chatted!UpdateRoom
  <2>2. PICK x \in DOMAIN rooms : x = req[r].room
    BY <2>1
  <2>3. PICK n \in Chatted!Room : /\ n = [rooms[x] EXCEPT !.private = private]
                                  /\ n.azit = rooms[x].azit /\ n.creator = rooms[x].creator
    <3>1. PICK o \in Chatted!Room : o = rooms[x]
      BY <1>1 DEF Tables
    <3>2. /\ [o EXCEPT !.private = private] \in Chatted!Room
          /\ [o EXCEPT !.private = private].azit = o.azit
          /\ [o EXCEPT !.private = private].creator = o.creator
      BY DEF Chatted!Room
    <3> QED BY <3>1, <3>2
  <2>4. rooms' = [rooms EXCEPT ![x] = n]
    BY <2>1, <2>2, <2>3
  <2>5. /\ DOMAIN rooms' = DOMAIN rooms /\ rooms' \in [DOMAIN rooms' -> Chatted!Room]
        /\ \A k \in DOMAIN rooms : /\ rooms'[k].azit = rooms[k].azit
                                   /\ rooms'[k].creator = rooms[k].creator
    BY <1>1, <2>3, <2>4 DEF Tables
  <2>6. Tables'
    BY <1>1, <1>2, <2>5 DEF Tables
  <2>7. DOMAIN rooms' \subseteq Chatted!RoomId
    BY <1>1, <2>5 DEF Tables
  <2> QED BY <1>1, <1>2, <2>5, <2>6, <2>7 DEF RowsKept
<1> QED BY <1>3, <1>4

\* Rows go, and those that stay are as they were.
LEMMA EraseTables ==
  ASSUME ChatOK, NEW ms, NEW ks, Chatted!Erase(ms, ks), standing' \subseteq standing
  PROVE  /\ Tables' /\ RowsKept /\ UNCHANGED Chatted!clients /\ joined' \subseteq joined
         /\ \A c \in DOMAIN chats' : c \in DOMAIN chats /\ chats'[c] = chats[c]
         /\ DOMAIN rooms' = DOMAIN rooms \ ks /\ \A k \in DOMAIN rooms' : rooms'[k] = rooms[k]
<1>1. Tables /\ nextMember \in Nat /\ nextRoom \in Nat /\ nextChat \in Nat
  BY ChatNumbers, ChatTypesParts DEF ChatOK
<1>2. /\ UNCHANGED <<nextMember, nextRoom, nextChat>> /\ UNCHANGED Chatted!clients
      /\ members' = [m \in DOMAIN members \ ms |-> members[m]]
      /\ rooms' = [k \in DOMAIN rooms \ ks |-> rooms[k]]
      /\ joined' \subseteq joined
      /\ chats' = [c \in {d \in DOMAIN chats : chats[d].member \notin ms /\ chats[d].room \notin ks} |-> chats[c]]
  BY DEF Chatted!Erase
<1>3. /\ DOMAIN members' \subseteq DOMAIN members /\ \A m \in DOMAIN members' : members'[m] = members[m]
      /\ members' \in [DOMAIN members' -> Chatted!Member]
  BY <1>1, <1>2 DEF Tables
<1>4. /\ DOMAIN rooms' = DOMAIN rooms \ ks /\ \A k \in DOMAIN rooms' : rooms'[k] = rooms[k]
      /\ rooms' \in [DOMAIN rooms' -> Chatted!Room]
  BY <1>1, <1>2 DEF Tables
<1>5. /\ DOMAIN chats' \subseteq DOMAIN chats /\ \A c \in DOMAIN chats' : chats'[c] = chats[c]
      /\ chats' \in [DOMAIN chats' -> Chatted!Chat]
  BY <1>1, <1>2 DEF Tables
<1>6. Tables'
  BY <1>1, <1>2, <1>3, <1>4, <1>5 DEF Tables
<1>7. DOMAIN rooms' \subseteq Chatted!RoomId
  BY <1>1, <1>4 DEF Tables
<1> QED BY <1>1, <1>2, <1>3, <1>4, <1>5, <1>6, <1>7 DEF RowsKept

LEMMA DeleteRoomTables ==
  ASSUME ChatOK, NEW r \in Requests, Chatted!DeleteRoom(r)
  PROVE  /\ Tables' /\ RowsKept /\ UNCHANGED Chatted!clients /\ joined' \subseteq joined
         /\ \A c \in DOMAIN chats' : c \in DOMAIN chats /\ chats'[c] = chats[c]
         /\ DOMAIN rooms' = DOMAIN rooms \ {req[r].room}
         /\ \A k \in DOMAIN rooms' : rooms'[k] = rooms[k]
<1>1. PICK ks : ks = {req[r].room}
  OBVIOUS
<1>2. Chatted!Erase({}, ks) /\ standing' \subseteq standing
  BY <1>1 DEF Chatted!DeleteRoom
<1> QED BY <1>1, <1>2, EraseTables

LEMMA InsertInvitesTables ==
  ASSUME ChatOK, NEW r \in Requests, Chatted!InsertInvites(r)
  PROVE  Tables' /\ RowsKept
<1>1. Tables /\ nextMember \in Nat /\ nextRoom \in Nat /\ nextChat \in Nat
  BY ChatNumbers, ChatTypesParts DEF ChatOK
<1>2. UNCHANGED <<standing, members, rooms, chats, nextMember, nextRoom, nextChat>>
  BY DEF Chatted!InsertInvites
<1>3. joined' \subseteq Chatted!MemberId \X Chatted!RoomId
  BY <1>1 DEF Chatted!InsertInvites, Tables
<1>4. Tables'
  BY <1>1, <1>2, <1>3 DEF Tables
<1>5. DOMAIN rooms' \subseteq Chatted!RoomId
  BY <1>1, <1>2 DEF Tables
<1> QED BY <1>1, <1>2, <1>4, <1>5 DEF RowsKept

LEMMA InsertChatTables ==
  ASSUME ChatOK, NEW r \in Requests, Chatted!InsertChat(r)
  PROVE  Tables' /\ RowsKept
<1>1. /\ Tables /\ nextMember \in Nat /\ nextRoom \in Nat /\ nextChat \in Nat
      /\ nextChat <= MaxChat /\ nextChat \in Chatted!ChatId /\ nextChat + 1 \in 1..MaxChat + 1
      /\ UNCHANGED <<standing, members, rooms, joined, nextMember, nextRoom>>
  BY ChatNumbers, ChatTypesParts, ServerAssumption DEF ChatOK, Chatted!InsertChat
<1>2. CASE UNCHANGED <<chats, nextChat>>
  <2>1. UNCHANGED Chatted!database
    BY <1>1, <1>2 DEF Chatted!database
  <2> QED BY <1>1, <2>1, TablesKept
<1>3. CASE ~ UNCHANGED <<chats, nextChat>>
  <2>1. PICK n : n = [room |-> req[r].room, member |-> req[r].member]
    OBVIOUS
  <2>2. /\ req[r].room \in DOMAIN rooms /\ req[r].member \in DOMAIN members
        /\ chats' = [c \in DOMAIN chats \union {nextChat} |-> IF c = nextChat THEN n ELSE chats[c]]
        /\ nextChat' = nextChat + 1
    BY <1>3, <2>1 DEF Chatted!InsertChat
  <2>3. n \in Chatted!Chat
    BY <1>1, <2>1, <2>2 DEF Chatted!Chat, Tables
  <2>4. nextChat \notin DOMAIN chats
    BY <1>1 DEF Tables
  <2>5. /\ DOMAIN chats' = DOMAIN chats \union {nextChat}
        /\ \A c \in DOMAIN chats : chats'[c] = chats[c]
        /\ chats' \in [DOMAIN chats' -> Chatted!Chat]
    BY <1>1, <2>2, <2>3, <2>4 DEF Tables
  <2>6. \A c \in DOMAIN chats' : c < nextChat'
    <3>1. \A c \in DOMAIN chats : c \in Nat /\ c < nextChat
      BY <1>1, ChatNumbers DEF Tables
    <3> QED BY <1>1, <2>2, <2>5, <3>1
  <2>7. Tables'
    BY <1>1, <2>2, <2>5, <2>6 DEF Tables
  <2>8. \A c \in DOMAIN chats' : c < nextChat => c \in DOMAIN chats /\ chats'[c] = chats[c]
    BY <1>1, <2>5
  <2>9. DOMAIN rooms' \subseteq Chatted!RoomId
    BY <1>1 DEF Tables
  <2> QED BY <1>1, <2>2, <2>7, <2>8, <2>9 DEF RowsKept
<1> QED BY <1>2, <1>3

LEMMA JoinAzitTables ==
  ASSUME ChatOK, Chatted!JoinAzit
  PROVE  Tables' /\ RowsKept
<1>1. /\ Tables /\ nextMember \in Nat /\ nextRoom \in Nat /\ nextChat \in Nat
      /\ nextMember <= MaxMember /\ nextMember \in Chatted!MemberId
      /\ nextMember + 1 \in 1..MaxMember + 1 /\ nextMember' = nextMember + 1
      /\ UNCHANGED <<standing, rooms, joined, chats, nextRoom, nextChat>>
  BY ChatNumbers, ChatTypesParts, ServerAssumption DEF ChatOK, Chatted!JoinAzit
<1>2. PICK u \in Users, a \in standing :
        /\ Chatted!MemberOf(u, a) = {}
        /\ members' = [m \in DOMAIN members \union {nextMember} |->
                         IF m = nextMember THEN [user |-> u, azit |-> a] ELSE members[m]]
  BY DEF Chatted!JoinAzit
<1>3. PICK n \in Chatted!Member : n = [user |-> u, azit |-> a]
  BY <1>1 DEF Chatted!Member, Tables
<1>4. nextMember \notin DOMAIN members
  BY <1>1 DEF Tables
<1>5. /\ DOMAIN members' = DOMAIN members \union {nextMember} /\ members'[nextMember] = n
      /\ \A m \in DOMAIN members : members'[m] = members[m] /\ members[m] # n
      /\ members' \in [DOMAIN members' -> Chatted!Member]
  BY <1>1, <1>2, <1>3, <1>4 DEF Tables, Chatted!MemberOf
<1>6. /\ \A m \in DOMAIN members' : m < nextMember'
      /\ \A k \in DOMAIN rooms : rooms[k].creator < nextMember'
  <2>1. \A m \in DOMAIN members : m \in Nat /\ m < nextMember
    BY <1>1, ChatNumbers DEF Tables
  <2>2. \A k \in DOMAIN rooms : rooms[k].creator \in Nat /\ rooms[k].creator < nextMember
    BY <1>1, ChatNumbers DEF Tables, Chatted!Room
  <2> QED BY <1>1, <1>5, <2>1, <2>2
<1>7. \A m, o \in DOMAIN members' : members'[m] = members'[o] => m = o
  BY <1>1, <1>5 DEF Tables
<1>8. Tables'
  BY <1>1, <1>5, <1>6, <1>7 DEF Tables
<1>9. \A m \in DOMAIN members' : m < nextMember => m \in DOMAIN members /\ members'[m] = members[m]
  BY <1>1, <1>5
<1>10. DOMAIN rooms' \subseteq Chatted!RoomId
  BY <1>1 DEF Tables
<1> QED BY <1>1, <1>8, <1>9, <1>10 DEF RowsKept

\* Somebody leaves an azit, or it goes with its rooms.
LEMMA LeavingTables ==
  ASSUME ChatOK, Chatted!LeaveAzit \/ Chatted!DeleteAzit
  PROVE  /\ Tables' /\ RowsKept /\ UNCHANGED Chatted!clients /\ joined' \subseteq joined
         /\ UNCHANGED req
         /\ \A c \in DOMAIN chats' : c \in DOMAIN chats /\ chats'[c] = chats[c]
         /\ \A k \in DOMAIN rooms' : rooms'[k] = rooms[k]
         /\ \A k \in DOMAIN rooms \ DOMAIN rooms' : rooms[k].azit \in standing \ standing'
<1>1. CASE Chatted!LeaveAzit
  <2>1. PICK m \in DOMAIN members : Chatted!Erase({m}, {})
    BY <1>1 DEF Chatted!LeaveAzit
  <2>2. standing' \subseteq standing /\ UNCHANGED req
    BY <1>1 DEF Chatted!LeaveAzit
  <2>3. PICK ms, ks : ms = {m} /\ ks = {}
    OBVIOUS
  <2>4. Chatted!Erase(ms, ks)
    BY <2>1, <2>3
  <2>5. /\ Tables' /\ RowsKept /\ UNCHANGED Chatted!clients /\ joined' \subseteq joined
        /\ \A c \in DOMAIN chats' : c \in DOMAIN chats /\ chats'[c] = chats[c]
        /\ DOMAIN rooms' = DOMAIN rooms \ ks /\ \A k \in DOMAIN rooms' : rooms'[k] = rooms[k]
    BY <2>2, <2>4, EraseTables
  <2> QED BY <2>2, <2>3, <2>5
<1>2. CASE Chatted!DeleteAzit
  <2>1. PICK a \in standing :
          /\ standing' = standing \ {a}
          /\ Chatted!Erase({m \in DOMAIN members : members[m].azit = a},
                           {k \in DOMAIN rooms : rooms[k].azit = a})
    BY <1>2 DEF Chatted!DeleteAzit
  <2>2. UNCHANGED req
    BY <1>2 DEF Chatted!DeleteAzit
  <2>3. PICK ms, ks : /\ ms = {m \in DOMAIN members : members[m].azit = a}
                      /\ ks = {k \in DOMAIN rooms : rooms[k].azit = a}
    OBVIOUS
  <2>4. Chatted!Erase(ms, ks) /\ standing' \subseteq standing
    BY <2>1, <2>3
  <2>5. /\ Tables' /\ RowsKept /\ UNCHANGED Chatted!clients /\ joined' \subseteq joined
        /\ \A c \in DOMAIN chats' : c \in DOMAIN chats /\ chats'[c] = chats[c]
        /\ DOMAIN rooms' = DOMAIN rooms \ ks /\ \A k \in DOMAIN rooms' : rooms'[k] = rooms[k]
    BY <2>4, EraseTables
  <2> QED BY <2>1, <2>2, <2>3, <2>5
<1> QED BY <1>1, <1>2

\* The steps that change who follows a room and what a follower was shown.
LEMMA ChatSends ==
  ASSUME ChatOK, NEW r \in Requests, req[r].pc = "emit"
  PROVE  /\ req[r].op = "send" /\ req[r].chat \in Chatted!ChatId /\ req[r].chat < nextChat
         /\ req[r].chat \in DOMAIN chats => chats[req[r].chat].room = req[r].room
BY DEF ChatOK, SoundChat

LEMMA SubscribeFollowers ==
  ASSUME ChatOK, NEW r \in Requests, Chatted!Subscribe(r)
  PROVE  Followers'
<1>1. PICK q \in Chatted!Request : q = req[r] /\ SoundChat(q)
  BY DEF ChatOK, ChatTypes, Chatted!TypeOK
<1>2. Followers /\ UNCHANGED <<sockets, seen, caughtUp>> /\ q.op = "join"
  BY <1>1, ChatTypesParts DEF ChatOK, Chatted!Subscribe, Chatted!At
<1>3. CASE subs' = subs
  BY <1>2, <1>3 DEF Followers, Chatted!Live
<1>4. CASE subs' # subs
  <2>1. /\ subs' = subs \union {<<q.socket, q.room>>} /\ Chatted!Live(q.socket)
        /\ q.socket \in Sockets
    BY <1>1, <1>2, <1>4 DEF Chatted!Subscribe, SoundChat
  <2>2. q.room \in Chatted!RoomId
    BY <1>1, <1>2 DEF SoundChat
  <2> QED BY <1>2, <2>1, <2>2 DEF Followers, Chatted!Live
<1> QED BY <1>3, <1>4

LEMMA BroadcastFollowers ==
  ASSUME ChatOK, NEW r \in Requests, Chatted!Broadcast(r)
  PROVE  Followers'
<1>1. /\ Followers /\ UNCHANGED <<sockets, subs, caughtUp>> /\ req[r].chat \in Chatted!ChatId
  BY ChatSends, ChatTypesParts DEF ChatOK, Chatted!Broadcast, Chatted!At
<1>2. seen' \in [Sockets -> SUBSET Chatted!ChatId]
  BY <1>1 DEF Chatted!Broadcast, Followers
<1> QED BY <1>1, <1>2 DEF Followers, Chatted!Live

LEMMA ListChatsFollowers ==
  ASSUME ChatOK, NEW r \in Requests, Chatted!ListChats(r)
  PROVE  Followers'
<1>1. Followers /\ UNCHANGED <<sockets, subs, chats>> /\ DOMAIN chats \subseteq Chatted!ChatId
  BY ChatTypesParts DEF ChatOK, Chatted!ListChats, Chatted!database, Tables
<1>2. CASE UNCHANGED <<seen, caughtUp>>
  BY <1>1, <1>2 DEF Followers, Chatted!Live
<1>3. CASE ~ UNCHANGED <<seen, caughtUp>>
  <2> DEFINE s == req[r].socket
             k == req[r].room
  <2>1. /\ <<s, k>> \in subs /\ seen' = [seen EXCEPT ![s] = @ \union Chatted!ChatsOf(k)]
        /\ caughtUp' = caughtUp \union {<<s, k>>}
    BY <1>3 DEF Chatted!ListChats
  <2>2. Chatted!ChatsOf(k) \subseteq Chatted!ChatId
    BY <1>1 DEF Chatted!ChatsOf
  <2> HIDE DEF s, k
  <2>3. seen' \in [Sockets -> SUBSET Chatted!ChatId] /\ caughtUp' \subseteq subs
    BY <1>1, <2>1, <2>2 DEF Followers
  <2> QED BY <1>1, <2>3 DEF Followers, Chatted!Live
<1> QED BY <1>2, <1>3

LEMMA LeaveFollowers ==
  ASSUME ChatOK, NEW s \in Sockets, NEW k \in Chatted!RoomId, Chatted!handleLeaveRoom(s, k)
  PROVE  Followers'
<1>1. /\ Followers /\ UNCHANGED sockets /\ subs' = subs \ {<<s, k>>}
      /\ caughtUp' = caughtUp \ {<<s, k>>}
      /\ seen' = [seen EXCEPT ![s] = @ \ Chatted!ChatsOf(k)]
  BY ChatTypesParts DEF ChatOK, Chatted!handleLeaveRoom, Chatted!Unsubscribe
<1>2. seen' \in [Sockets -> SUBSET Chatted!ChatId]
  BY <1>1 DEF Followers
<1> QED BY <1>1, <1>2 DEF Followers, Chatted!Live

LEMMA ConnectFollowers ==
  ASSUME ChatOK, NEW s \in Sockets, Chatted!Connect(s)
  PROVE  Followers'
<1>1. Followers /\ UNCHANGED <<subs, seen, caughtUp>>
  BY ChatTypesParts DEF ChatOK, Chatted!Connect
<1>2. PICK u \in Users : sockets' = [sockets EXCEPT ![s] = u]
  BY DEF Chatted!Connect
<1> QED BY <1>1, <1>2 DEF Followers, Chatted!Live

LEMMA CloseFollowers ==
  ASSUME ChatOK, NEW ss \in SUBSET Sockets, Chatted!Close(ss)
  PROVE  Followers'
<1>1. /\ Followers
      /\ sockets' = [s \in Sockets |-> IF s \in ss THEN "closed" ELSE sockets[s]]
      /\ subs' = {x \in subs : x[1] \notin ss} /\ caughtUp' = {x \in caughtUp : x[1] \notin ss}
      /\ seen' = [s \in Sockets |-> IF s \in ss THEN {} ELSE seen[s]]
  BY ChatTypesParts DEF ChatOK, Chatted!Close
<1>2. sockets' \in [Sockets -> Users \union {None, "closed"}]
  BY <1>1 DEF Followers
<1>3. seen' \in [Sockets -> SUBSET Chatted!ChatId]
  BY <1>1 DEF Followers
<1>4. \A x \in subs' : sockets'[x[1]] \in Users
  BY <1>1 DEF Followers, Chatted!Live
<1> QED BY <1>1, <1>2, <1>3, <1>4 DEF Followers, Chatted!Live

\* A request that has written and returned.
LEMMA ChatReturns ==
  ASSUME ChatOK, NEW r \in Requests, Chatted!Return(r), Tables', RowsKept, Followers'
  PROVE  ChatOK'
<1>1. nextMember' \in Nat /\ nextRoom' \in Nat /\ nextChat' \in Nat
  BY ServerAssumption DEF Tables
<1>2. SoundChat(Chatted!Idle)'
  BY ChatIdle DEF SoundChat, Changing
<1>3. req' \in [Requests -> Chatted!Request] /\ \A s \in Requests : SoundChat(req[s])'
  BY <1>1, <1>2, ChatIdle, ChatRequestsStay DEF Chatted!Return
<1> QED BY <1>3, ChatTypesJoin DEF ChatOK

\* A step of no request.
LEMMA ChatOthers ==
  ASSUME ChatOK, UNCHANGED req, Tables', RowsKept, Followers'
  PROVE  ChatOK'
<1>1. nextMember' \in Nat /\ nextRoom' \in Nat /\ nextChat' \in Nat
  BY ServerAssumption DEF Tables
<1>2. ASSUME NEW s \in Requests PROVE SoundChat(req[s])'
  <2>1. PICK p \in Chatted!Request : p = req[s] /\ SoundChat(p)
    BY DEF ChatOK, ChatTypes, Chatted!TypeOK
  <2>2. SoundChat(p)'
    BY <1>1, <2>1, SoundChatStays DEF ChatOK
  <2> QED BY <2>1, <2>2 DEF SoundChat
<1>3. req' \in [Requests -> Chatted!Request]
  BY DEF ChatOK, ChatTypes, Chatted!TypeOK
<1> QED BY <1>2, <1>3, ChatTypesJoin DEF ChatOK

LEMMA InsertChatOK ==
  ASSUME ChatOK, NEW r \in Requests, Chatted!InsertChat(r)
  PROVE  ChatOK'
<1>1. Tables' /\ RowsKept
  BY InsertChatTables
<1>2. Followers'
  BY FollowersKept, ChatTypesParts DEF ChatOK, Chatted!InsertChat
<1>3. CASE Chatted!Return(r)
  BY <1>1, <1>2, <1>3, ChatReturns
<1>4. CASE ~ Chatted!Return(r)
  <2>1. PICK o \in Chatted!Request : o = req[r] /\ SoundChat(o) /\ o.op = "send"
    BY DEF ChatOK, ChatTypes, Chatted!TypeOK, Chatted!InsertChat, Chatted!At
  <2>2. /\ Chatted!Become(r, [o EXCEPT !.pc = "emit", !.chat = nextChat])
        /\ nextChat' = nextChat + 1 /\ nextChat <= MaxChat
        /\ o.room \in DOMAIN rooms
        /\ chats' = [c \in DOMAIN chats \union {nextChat} |->
                       IF c = nextChat THEN [room |-> o.room, member |-> o.member] ELSE chats[c]]
    BY <1>4, <2>1 DEF Chatted!InsertChat
  <2>3. nextChat \in Nat /\ nextChat \in Chatted!ChatId /\ nextRoom \in Nat
    BY <2>2, ChatNumbers DEF ChatOK
  <2>4. PICK q \in Chatted!Request :
          /\ q = [o EXCEPT !.pc = "emit", !.chat = nextChat]
          /\ q.op = "send" /\ q.pc = "emit" /\ q.chat = nextChat /\ q.room = o.room
    <3> DEFINE n == [o EXCEPT !.pc = "emit", !.chat = nextChat]
    <3>1. /\ n \in Chatted!Request /\ n.op = "send" /\ n.pc = "emit" /\ n.chat = nextChat
          /\ n.room = o.room
      BY <2>1, <2>3 DEF Chatted!Request, Chatted!Pcs
    <3> HIDE DEF n
    <3>2. PICK q \in Chatted!Request : q = n
      BY <3>1
    <3> QED BY <3>1, <3>2 DEF n
  <2>5. chats'[nextChat].room = q.room
    BY <2>2, <2>4
  <2>6. q.room # None => q.room < nextRoom'
    BY <2>1, <2>4 DEF SoundChat, Chatted!InsertChat
  <2>7. SoundChat(q)'
    <3>1. q.chat \in Chatted!ChatId /\ q.chat < nextChat'
      BY <2>2, <2>3, <2>4
    <3>2. q.op = "send" /\ q.pc = "emit"
      BY <2>4
    <3>3. chats'[q.chat].room = q.room
      BY <2>4, <2>5
    <3> QED BY <2>6, <3>1, <3>2, <3>3 DEF SoundChat, Changing
  <2>8. nextMember' \in Nat /\ nextRoom' \in Nat /\ nextChat' \in Nat
    BY <1>1, ServerAssumption DEF Tables
  <2>9. req' \in [Requests -> Chatted!Request] /\ \A s \in Requests : SoundChat(req[s])'
    <3>1. q \in Chatted!Request /\ Chatted!Become(r, q)
      BY <2>2, <2>4
    <3> QED BY <1>1, <2>7, <2>8, <3>1, ChatRequestsStay
  <2> QED BY <1>1, <1>2, <2>9, ChatTypesJoin DEF ChatOK
<1> QED BY <1>3, <1>4

\* The steps of a request that write nothing, and those that write and return.
ChatReading(r) ==
  \/ Starting(r) \/ Chatted!FindMember(r)
  \/ Chatted!CheckPrivate(r) \/ Chatted!CheckCreator(r) \/ Chatted!CheckInvited(r)
WritesTables(r) ==
  \/ Chatted!InsertRoom(r) \/ Chatted!UpdateRoom(r) \/ Chatted!DeleteRoom(r)
  \/ Chatted!InsertInvites(r)
WritesFollowers(r) == Chatted!Subscribe(r) \/ Chatted!Broadcast(r) \/ Chatted!ListChats(r)

LEMMA ChatStepParts ==
  ASSUME NEW r \in Requests, Chatted!Step(r)
  PROVE  ChatReading(r) \/ WritesTables(r) \/ WritesFollowers(r) \/ Chatted!InsertChat(r)
BY DEF Chatted!Step, ChatReading, WritesTables, WritesFollowers, Starting

LEMMA ChatReads ==
  ASSUME ChatOK, NEW r \in Requests, ChatReading(r)
  PROVE  \E q \in Chatted!Request : /\ Chatted!Become(r, q) /\ SoundChat(q) /\ Chatted!Reads
                                    /\ req[r].pc # "emit"
BY ChatStarts, ChatFindsMember, ChatChecks DEF ChatReading

LEMMA ChatStepOK ==
  ASSUME ChatOK, NEW r \in Requests, Chatted!Step(r)
  PROVE  ChatOK'
<1>1. CASE ChatReading(r)
  <2>1. PICK q \in Chatted!Request :
          Chatted!Become(r, q) /\ SoundChat(q) /\ Chatted!Reads /\ req[r].pc # "emit"
    BY <1>1, ChatReads
  <2>2. Tables' /\ RowsKept /\ Followers'
    BY <2>1, TablesKept, FollowersKept, ChatTypesParts DEF ChatOK, Chatted!Reads
  <2>3. SoundChat(q)'
    BY <2>1 DEF SoundChat, Chatted!Reads, Chatted!database, Chatted!MemberOf
  <2>4. nextMember' \in Nat /\ nextRoom' \in Nat /\ nextChat' \in Nat
    BY <2>2, ServerAssumption DEF Tables
  <2>5. req' \in [Requests -> Chatted!Request] /\ \A s \in Requests : SoundChat(req[s])'
    BY <2>1, <2>2, <2>3, <2>4, ChatRequestsStay
  <2> QED BY <2>2, <2>5, ChatTypesJoin DEF ChatOK
<1>2. CASE WritesTables(r)
  <2>1. Tables' /\ RowsKept
    BY <1>2, InsertRoomTables, UpdateRoomTables, DeleteRoomTables, InsertInvitesTables
    DEF WritesTables
  <2>2. Chatted!Return(r) /\ UNCHANGED Chatted!clients
    BY <1>2, DeleteRoomTables DEF WritesTables, Chatted!InsertRoom, Chatted!UpdateRoom,
                                  Chatted!DeleteRoom, Chatted!InsertInvites
  <2>3. Followers'
    BY <2>2, FollowersKept, ChatTypesParts DEF ChatOK
  <2> QED BY <2>1, <2>2, <2>3, ChatReturns
<1>3. CASE WritesFollowers(r)
  <2>1. Followers'
    BY <1>3, SubscribeFollowers, BroadcastFollowers, ListChatsFollowers DEF WritesFollowers
  <2>2. Chatted!Return(r) /\ UNCHANGED Chatted!database
    BY <1>3 DEF WritesFollowers, Chatted!Subscribe, Chatted!Broadcast, Chatted!ListChats
  <2>3. Tables' /\ RowsKept
    BY <2>2, TablesKept, ChatTypesParts DEF ChatOK
  <2> QED BY <2>1, <2>2, <2>3, ChatReturns
<1>4. CASE Chatted!InsertChat(r)
  BY <1>4, InsertChatOK
<1> QED BY <1>1, <1>2, <1>3, <1>4, ChatStepParts

LEMMA ChatRestartOK ==
  ASSUME ChatOK, Chatted!Restart
  PROVE  ChatOK'
<1>1. /\ Chatted!Close({s \in Sockets : Chatted!Live(s)}) /\ UNCHANGED Chatted!database
      /\ req' = [r \in Requests |-> Chatted!Idle]
  BY DEF Chatted!Restart
<1>2. Followers'
  BY <1>1, CloseFollowers
<1>3. Tables'
  BY <1>1, TablesKept, ChatTypesParts DEF ChatOK
<1>4. SoundChat(Chatted!Idle)'
  BY ChatIdle DEF SoundChat, Changing
<1>5. req' \in [Requests -> Chatted!Request] /\ \A s \in Requests : req'[s] = Chatted!Idle
  BY <1>1, ChatIdle
<1>6. \A s \in Requests : SoundChat(req[s])'
  BY <1>4, <1>5 DEF SoundChat
<1> QED BY <1>2, <1>3, <1>5, <1>6, ChatTypesJoin DEF ChatOK

LEMMA ChatNextOK ==
  ASSUME ChatOK, Chatted!Next
  PROVE  ChatOK'
<1>1. CASE \E r \in Requests : Chatted!Step(r)
  BY <1>1, ChatStepOK
<1>2. CASE \E s \in Sockets : \/ Chatted!Connect(s) \/ Chatted!Disconnect(s)
                              \/ \E k \in Chatted!RoomId : Chatted!handleLeaveRoom(s, k)
  <2>1. PICK s \in Sockets : \/ Chatted!Connect(s) \/ Chatted!Disconnect(s)
                             \/ \E k \in Chatted!RoomId : Chatted!handleLeaveRoom(s, k)
    BY <1>2
  <2>2. UNCHANGED req /\ UNCHANGED Chatted!database
    BY <2>1 DEF Chatted!Connect, Chatted!Disconnect, Chatted!handleLeaveRoom
  <2>3. Tables' /\ RowsKept
    BY <2>2, TablesKept, ChatTypesParts DEF ChatOK
  <2>4. Followers'
    <3>1. CASE Chatted!Connect(s)
      BY <3>1, ConnectFollowers
    <3>2. CASE Chatted!Disconnect(s)
      <4>1. {s} \in SUBSET Sockets /\ Chatted!Close({s})
        BY <3>2 DEF Chatted!Disconnect
      <4> QED BY <4>1, CloseFollowers
    <3>3. CASE \E k \in Chatted!RoomId : Chatted!handleLeaveRoom(s, k)
      BY <3>3, LeaveFollowers
    <3> QED BY <2>1, <3>1, <3>2, <3>3
  <2> QED BY <2>2, <2>3, <2>4, ChatOthers
<1>3. CASE Chatted!JoinAzit \/ Chatted!LeaveAzit \/ Chatted!DeleteAzit
  <2>1. UNCHANGED req /\ UNCHANGED Chatted!clients
    BY <1>3, LeavingTables DEF Chatted!JoinAzit
  <2>2. Followers'
    BY <2>1, FollowersKept, ChatTypesParts DEF ChatOK
  <2>3. Tables' /\ RowsKept
    BY <1>3, JoinAzitTables, LeavingTables
  <2> QED BY <2>1, <2>2, <2>3, ChatOthers
<1>4. CASE Chatted!Restart
  BY <1>4, ChatRestartOK
<1> QED BY <1>1, <1>2, <1>3, <1>4 DEF Chatted!Next
-----------------------------------------------------------------------------
(* FollowersMissNothing *)

\* Messages that are stored and about to be broadcast.
Emitting == {c \in Chatted!ChatId :
               \E r \in Requests : Chatted!At(r, "send", "emit") /\ req[r].chat = c}

\* What a follower of a room has still to be shown is on its way.
Shown == \A x \in caughtUp : Chatted!ChatsOf(x[2]) \subseteq seen[x[1]] \union Emitting

LEMMA ShownIsFollowed ==
  ChatOK => (Chatted!FollowersMissNothing <=> Shown)
<1> SUFFICES ASSUME ChatOK PROVE Chatted!FollowersMissNothing <=> Shown
  OBVIOUS
<1>1. DOMAIN chats \subseteq Chatted!ChatId
  BY DEF ChatOK, ChatTypes, Chatted!TypeOK
<1> QED BY <1>1 DEF Chatted!FollowersMissNothing, Shown, Emitting, Chatted!ChatsOf

\* Nothing that was on its way is lost, no follower forgets and no message is new.
LEMMA ShownStays ==
  ASSUME Shown, caughtUp' \subseteq caughtUp, Emitting \subseteq Emitting',
         \A x \in caughtUp' : seen'[x[1]] = seen[x[1]],
         \A c \in DOMAIN chats' : c \in DOMAIN chats /\ chats'[c] = chats[c]
  PROVE  Shown'
BY DEF Shown, Chatted!ChatsOf

\* Only Broadcast takes a message off its way.
LEMMA EmittingStays ==
  ASSUME ChatOK, NEW r \in Requests, NEW q \in Chatted!Request, Chatted!Become(r, q),
         req[r].pc # "emit"
  PROVE  Emitting \subseteq Emitting'
<1>1. \A s \in Requests : s # r => req'[s] = req[s]
  BY ChatUpdate DEF ChatOK, ChatTypes
<1> QED BY <1>1 DEF Emitting, Chatted!At

LEMMA ChatStepShown ==
  ASSUME ChatOK, Shown, NEW r \in Requests, Chatted!Step(r)
  PROVE  Shown'
<1>1. Tables /\ Followers
  BY ChatTypesParts DEF ChatOK
<1>2. CASE ChatReading(r)
  <2>1. PICK q \in Chatted!Request : /\ Chatted!Become(r, q) /\ Chatted!Reads
                                     /\ req[r].pc # "emit"
    BY <1>2, ChatReads
  <2>2. Emitting \subseteq Emitting'
    BY <2>1, EmittingStays
  <2> QED BY <2>1, <2>2, ShownStays DEF Chatted!Reads, Chatted!database, Chatted!clients
<1>3. CASE WritesTables(r)
  <2>1. Chatted!Return(r) /\ UNCHANGED <<seen, caughtUp>> /\ req[r].pc # "emit"
    BY <1>3, DeleteRoomTables DEF WritesTables, Chatted!InsertRoom, Chatted!UpdateRoom, Chatted!DeleteRoom,
                Chatted!InsertInvites, Chatted!clients, Chatted!At
  <2>2. Emitting \subseteq Emitting'
    BY <2>1, EmittingStays, ChatIdle DEF Chatted!Return
  <2>3. \A c \in DOMAIN chats' : c \in DOMAIN chats /\ chats'[c] = chats[c]
    BY <1>3, DeleteRoomTables DEF WritesTables, Chatted!InsertRoom, Chatted!UpdateRoom,
                                  Chatted!InsertInvites
  <2> QED BY <2>1, <2>2, <2>3, ShownStays
<1>4. CASE Chatted!Subscribe(r)
  <2>1. Chatted!Return(r) /\ UNCHANGED <<seen, caughtUp, chats>> /\ req[r].pc # "emit"
    BY <1>4 DEF Chatted!Subscribe, Chatted!database, Chatted!At
  <2>2. Emitting \subseteq Emitting'
    BY <2>1, EmittingStays, ChatIdle DEF Chatted!Return
  <2> QED BY <2>1, <2>2, ShownStays
<1>5. CASE Chatted!Broadcast(r)
  <2> DEFINE b == req[r].chat
  <2>1. /\ UNCHANGED <<chats, subs, caughtUp>> /\ Chatted!Return(r) /\ req[r].pc = "emit"
        /\ \A s \in Sockets : seen'[s] = IF <<s, req[r].room>> \in subs THEN seen[s] \union {b}
                                         ELSE seen[s]
    BY <1>5 DEF Chatted!Broadcast, Chatted!At, Chatted!database, Chatted!Audience
  <2>2. b \in DOMAIN chats => chats[b].room = req[r].room
    BY <2>1, ChatSends
  <2> HIDE DEF b
  <2>3. Emitting \subseteq Emitting' \union {b}
    <3>1. \A s \in Requests : s # r => req'[s] = req[s]
      BY <2>1, ChatIdle, ChatUpdate DEF ChatOK, ChatTypes, Chatted!Return
    <3> QED BY <3>1 DEF Emitting, Chatted!At, b
  <2>4. SUFFICES ASSUME NEW x \in caughtUp, NEW c \in Chatted!ChatsOf(x[2])
                 PROVE  c \in seen'[x[1]] \/ c \in Emitting'
    BY <2>1 DEF Shown, Chatted!ChatsOf
  <2>5. x \in subs /\ x[1] \in Sockets /\ x = <<x[1], x[2]>> /\ x \in caughtUp
    BY <1>1 DEF Followers
  <2>6. c \in seen[x[1]] \/ c \in Emitting
    BY <2>4 DEF Shown
  <2>7. CASE c = b
    BY <2>1, <2>2, <2>5, <2>7, ZenonT(40) DEF Chatted!ChatsOf
  <2>8. CASE c # b
    BY <2>1, <2>3, <2>5, <2>6, <2>8
  <2> QED BY <2>7, <2>8
<1>6. CASE Chatted!ListChats(r)
  <2> DEFINE s == req[r].socket
             k == req[r].room
  <2>1. Chatted!Return(r) /\ UNCHANGED chats /\ req[r].pc # "emit"
    BY <1>6 DEF Chatted!ListChats, Chatted!database, Chatted!At
  <2>2. Emitting \subseteq Emitting'
    BY <2>1, EmittingStays, ChatIdle DEF Chatted!Return
  <2>3. CASE UNCHANGED <<seen, caughtUp>>
    BY <2>1, <2>2, <2>3, ShownStays
  <2>4. CASE ~ UNCHANGED <<seen, caughtUp>>
    <3>1. /\ <<s, k>> \in subs /\ seen' = [seen EXCEPT ![s] = @ \union Chatted!ChatsOf(k)]
          /\ caughtUp' = caughtUp \union {<<s, k>>}
      BY <1>6, <2>4 DEF Chatted!ListChats
    <3> HIDE DEF s, k
    <3>2. SUFFICES ASSUME NEW x \in caughtUp \union {<<s, k>>}, NEW c \in Chatted!ChatsOf(x[2])
                   PROVE  c \in seen'[x[1]] \/ c \in Emitting'
      BY <2>1, <3>1 DEF Shown, Chatted!ChatsOf
    <3>3. CASE x = <<s, k>>
      BY <1>1, <3>1, <3>3 DEF Followers
    <3>4. CASE x \in caughtUp
      <4>1. x[1] \in Sockets
        BY <1>1, <3>4 DEF Followers
      <4>2. seen[x[1]] \subseteq seen'[x[1]]
        BY <1>1, <3>1, <4>1 DEF Followers
      <4> QED BY <2>2, <3>2, <3>4, <4>2 DEF Shown
    <3> QED BY <3>2, <3>3, <3>4
  <2> QED BY <2>3, <2>4
<1>7. CASE Chatted!InsertChat(r)
  <2>1. UNCHANGED <<seen, caughtUp>> /\ req[r].pc # "emit"
    BY <1>7 DEF Chatted!InsertChat, Chatted!clients, Chatted!At
  <2>2. CASE Chatted!Return(r) /\ UNCHANGED chats
    <3>1. Emitting \subseteq Emitting'
      BY <2>1, <2>2, EmittingStays, ChatIdle DEF Chatted!Return
    <3> QED BY <2>1, <2>2, <3>1, ShownStays
  <2>3. CASE ~ (Chatted!Return(r) /\ UNCHANGED chats)
    <3>1. PICK o \in Chatted!Request : o = req[r] /\ o.op = "send"
      BY <1>7 DEF ChatOK, ChatTypes, Chatted!TypeOK, Chatted!InsertChat, Chatted!At
    <3>2. /\ Chatted!Become(r, [o EXCEPT !.pc = "emit", !.chat = nextChat])
          /\ nextChat <= MaxChat
          /\ chats' = [c \in DOMAIN chats \union {nextChat} |->
                 IF c = nextChat THEN [room |-> o.room, member |-> o.member] ELSE chats[c]]
      BY <1>7, <2>3, <3>1 DEF Chatted!InsertChat
    <3>3. nextChat \in Chatted!ChatId
      BY <3>2, ChatNumbers DEF ChatOK
    <3>4. PICK q \in Chatted!Request :
            /\ q = [o EXCEPT !.pc = "emit", !.chat = nextChat]
            /\ q.op = "send" /\ q.pc = "emit" /\ q.chat = nextChat
      <4> DEFINE n == [o EXCEPT !.pc = "emit", !.chat = nextChat]
      <4>1. n \in Chatted!Request /\ n.op = "send" /\ n.pc = "emit" /\ n.chat = nextChat
        BY <3>1, <3>3 DEF Chatted!Request, Chatted!Pcs
      <4> HIDE DEF n
      <4>2. PICK q \in Chatted!Request : q = n
        BY <4>1
      <4> QED BY <4>1, <4>2 DEF n
    <3>5. Emitting \subseteq Emitting' /\ req'[r] = q
      BY <2>1, <3>2, <3>4, EmittingStays, ChatUpdate DEF ChatOK, ChatTypes
    <3>6. nextChat \in Emitting'
      <4>1. PICK n \in Chatted!ChatId : n = nextChat
        BY <3>3
      <4>2. req'[r].op = "send" /\ req'[r].pc = "emit" /\ req'[r].chat = n
        BY <3>4, <3>5, <4>1
      <4>3. n \in Emitting'
        BY <4>2 DEF Emitting, Chatted!At
      <4> QED BY <4>1, <4>3
    <3>7. \A k : Chatted!ChatsOf(k)' \subseteq Chatted!ChatsOf(k) \union {nextChat}
      BY <3>2 DEF Chatted!ChatsOf
    <3> QED BY <2>1, <3>5, <3>6, <3>7 DEF Shown
  <2> QED BY <2>2, <2>3
<1> QED BY <1>2, <1>3, <1>4, <1>5, <1>6, <1>7, ChatStepParts DEF WritesFollowers

LEMMA ChatNextShown ==
  ASSUME ChatOK, Shown, Chatted!Next
  PROVE  Shown'
<1>1. Tables /\ Followers
  BY ChatTypesParts DEF ChatOK
<1>2. CASE \E r \in Requests : Chatted!Step(r)
  BY <1>2, ChatStepShown
<1>3. UNCHANGED req => Emitting' = Emitting
  BY DEF Emitting, Chatted!At
<1>4. ASSUME NEW ss \in SUBSET Sockets, Chatted!Close(ss), UNCHANGED <<req, chats>>
      PROVE  Shown'
  <2>1. /\ caughtUp' = {x \in caughtUp : x[1] \notin ss}
        /\ seen' = [s \in Sockets |-> IF s \in ss THEN {} ELSE seen[s]]
    BY <1>4 DEF Chatted!Close
  <2>2. \A x \in caughtUp' : seen'[x[1]] = seen[x[1]]
    BY <1>1, <2>1 DEF Followers
  <2> QED BY <1>3, <1>4, <2>1, <2>2, ShownStays
<1>5. ASSUME NEW s \in Sockets, Chatted!Connect(s) PROVE Shown'
  BY <1>3, <1>5, ShownStays DEF Chatted!Connect, Chatted!database
<1>6. ASSUME NEW s \in Sockets, Chatted!Disconnect(s) PROVE Shown'
  <2>1. {s} \in SUBSET Sockets /\ Chatted!Close({s}) /\ UNCHANGED <<req, chats>>
    BY <1>6 DEF Chatted!Disconnect, Chatted!database
  <2> QED BY <1>4, <2>1
<1>7. ASSUME NEW s \in Sockets, NEW k \in Chatted!RoomId, Chatted!handleLeaveRoom(s, k)
      PROVE  Shown'
  <2>1. /\ UNCHANGED <<req, chats>>
        /\ caughtUp' = caughtUp \ {<<s, k>>}
        /\ seen' = [seen EXCEPT ![s] = @ \ Chatted!ChatsOf(k)]
    BY <1>7 DEF Chatted!handleLeaveRoom, Chatted!Unsubscribe, Chatted!database
  <2> SUFFICES ASSUME NEW x \in caughtUp', NEW c \in Chatted!ChatsOf(x[2])
               PROVE  c \in seen'[x[1]] \/ c \in Emitting
    BY <1>3, <2>1 DEF Shown, Chatted!ChatsOf
  <2>2. /\ x \in caughtUp /\ x # <<s, k>> /\ x = <<x[1], x[2]>> /\ x[1] \in Sockets
        /\ c \in seen[x[1]] \/ c \in Emitting
    BY <1>1, <2>1 DEF Shown, Followers
  <2>3. CASE x[1] = s
    <3>1. x[2] # k
      BY <2>2, <2>3
    <3>2. c \notin Chatted!ChatsOf(k)
      BY <3>1 DEF Chatted!ChatsOf
    <3> QED BY <1>1, <2>1, <2>2, <2>3, <3>2 DEF Followers
  <2>4. CASE x[1] # s
    BY <1>1, <2>1, <2>2, <2>4 DEF Followers
  <2> QED BY <2>3, <2>4
<1>8. CASE Chatted!JoinAzit \/ Chatted!LeaveAzit \/ Chatted!DeleteAzit
  <2>1. UNCHANGED <<req, seen, caughtUp>>
    BY <1>8, LeavingTables DEF Chatted!JoinAzit, Chatted!clients
  <2>2. \A c \in DOMAIN chats' : c \in DOMAIN chats /\ chats'[c] = chats[c]
    BY <1>8, LeavingTables DEF Chatted!JoinAzit
  <2> QED BY <1>3, <2>1, <2>2, ShownStays
<1>9. CASE Chatted!Restart
  <2>1. caughtUp' = {x \in caughtUp : x[1] \notin {s \in Sockets : Chatted!Live(s)}}
    BY <1>9 DEF Chatted!Restart, Chatted!Close
  <2>2. \A x \in caughtUp : x[1] \in Sockets /\ Chatted!Live(x[1])
    BY <1>1 DEF Followers
  <2>3. caughtUp' = {}
    BY <2>1, <2>2
  <2> QED BY <2>3 DEF Shown
<1> QED BY <1>2, <1>5, <1>6, <1>7, <1>8, <1>9 DEF Chatted!Next
-----------------------------------------------------------------------------
(* ChangedByCreator *)

LEMMA ChatStepByCreator ==
  ASSUME ChatOK, NEW r \in Requests, Chatted!Step(r)
  PROVE  Chatted!ByCreator
<1>1. Tables /\ SoundChat(req[r]) /\ nextRoom \in Nat
  BY ChatTypesParts, ChatNumbers DEF ChatOK
<1> SUFFICES ASSUME NEW k \in DOMAIN rooms,
                    \/ k \notin DOMAIN rooms' \/ rooms'[k] # rooms[k]
                    \/ \E m \in Chatted!MemberId : <<m, k>> \in joined' \ joined
             PROVE  \E s \in Requests : /\ req[s].room = k /\ req[s].member = rooms[k].creator
                                        /\ req[s].op \in {"update", "delete", "invite"}
  BY DEF Chatted!ByCreator
<1>2. ASSUME req[r].op \in Changing, req[r].pc = "act", req[r].room = k
      PROVE  req[r].member = rooms[k].creator
  BY <1>1, <1>2 DEF SoundChat
<1>3. CASE ChatReading(r) \/ WritesFollowers(r) \/ Chatted!InsertChat(r)
  <2>1. UNCHANGED <<rooms, joined>>
    <3>1. CASE ChatReading(r)
      BY <3>1, ChatReads DEF Chatted!Reads, Chatted!database
    <3>2. CASE WritesFollowers(r)
      BY <3>2 DEF WritesFollowers, Chatted!Subscribe, Chatted!Broadcast, Chatted!ListChats,
                  Chatted!database
    <3>3. CASE Chatted!InsertChat(r)
      BY <3>3 DEF Chatted!InsertChat
    <3> QED BY <1>3, <3>1, <3>2, <3>3
  <2> QED BY <2>1
<1>4. CASE Chatted!InsertRoom(r)
  <2>1. k # nextRoom
    BY <1>1 DEF Tables
  <2>2. k \in DOMAIN rooms' /\ rooms'[k] = rooms[k]
    BY <1>4, <2>1 DEF Chatted!InsertRoom
  <2>3. \A m : <<m, k>> \notin joined' \ joined
    BY <1>4, <2>1 DEF Chatted!InsertRoom
  <2> QED BY <2>2, <2>3
<1>5. CASE Chatted!UpdateRoom(r)
  <2>1. req[r].op = "update" /\ req[r].pc = "act" /\ joined' = joined
    BY <1>5 DEF Chatted!UpdateRoom, Chatted!At
  <2>2. req[r].room = k
    BY <1>5, <2>1 DEF Chatted!UpdateRoom
  <2> QED BY <1>2, <2>1, <2>2 DEF Changing
<1>6. CASE Chatted!DeleteRoom(r)
  <2>1. req[r].op = "delete" /\ req[r].pc = "act" /\ joined' \subseteq joined
    BY <1>6, DeleteRoomTables DEF Chatted!DeleteRoom, Chatted!At
  <2>2. req[r].room = k
    BY <1>6, <2>1, DeleteRoomTables
  <2> QED BY <1>2, <2>1, <2>2 DEF Changing
<1>7. CASE Chatted!InsertInvites(r)
  <2>1. req[r].op = "invite" /\ req[r].pc = "act" /\ rooms' = rooms
    BY <1>7 DEF Chatted!InsertInvites, Chatted!At
  <2>2. req[r].room = k
    BY <1>7, <2>1 DEF Chatted!InsertInvites
  <2> QED BY <1>2, <2>1, <2>2 DEF Changing
<1> QED BY <1>3, <1>4, <1>5, <1>6, <1>7, ChatStepParts DEF WritesTables

LEMMA ChatNextByCreator ==
  ASSUME ChatOK, Chatted!Next
  PROVE  Chatted!ByCreator
<1>1. CASE \E r \in Requests : Chatted!Step(r)
  BY <1>1, ChatStepByCreator
<1>2. CASE Chatted!LeaveAzit \/ Chatted!DeleteAzit
  BY <1>2, LeavingTables DEF Chatted!ByCreator
<1>3. CASE ~ (\/ \E r \in Requests : Chatted!Step(r)
             \/ Chatted!LeaveAzit \/ Chatted!DeleteAzit)
  <2>1. rooms' = rooms /\ joined' \subseteq joined
    BY <1>3 DEF Chatted!Next, Chatted!Connect, Chatted!Disconnect, Chatted!handleLeaveRoom,
                Chatted!JoinAzit, Chatted!Restart, Chatted!database
  <2> QED BY <2>1 DEF Chatted!ByCreator
<1> QED BY <1>1, <1>2, <1>3
-----------------------------------------------------------------------------
ChatPart == which = "chat" => ChatOK /\ Shown

LEMMA ChatInitInv == Chatted!Init => ChatOK /\ Shown
<1> SUFFICES ASSUME Chatted!Init PROVE ChatOK /\ Shown
  OBVIOUS
<1>1. /\ DOMAIN members = {} /\ DOMAIN rooms = {} /\ DOMAIN chats = {}
      /\ members \in [{} -> Chatted!Member] /\ rooms \in [{} -> Chatted!Room]
      /\ chats \in [{} -> Chatted!Chat]
      /\ standing = Azits /\ joined = {} /\ subs = {} /\ caughtUp = {}
      /\ nextMember = 1 /\ nextRoom = 1 /\ nextChat = 1
      /\ sockets = [s \in Sockets |-> None] /\ seen = [s \in Sockets |-> {}]
      /\ req = [r \in Requests |-> Chatted!Idle]
  BY DEF Chatted!Init
<1>2. Tables
  BY <1>1, ServerAssumption DEF Tables
<1>3. Followers
  BY <1>1 DEF Followers
<1>4. ChatTypes
  BY <1>1, <1>2, <1>3, ChatIdle, ChatTypesParts
<1> QED BY <1>1, <1>4, ChatIdle DEF ChatOK, Shown

LEMMA ChatPartInit == ServerInit => ChatPart
BY ChatInitInv DEF ServerInit, ClientInit, UserInit, AzitInit, ChatPart

\* A step of the server is one of the chat rooms or leaves them alone.
LEMMA ChatServerStep ==
  ASSUME [ServerNext]_serverVars, which = "chat" \/ which' = "chat"
  PROVE  /\ which' = which
         /\ Chatted!Next \/ UNCHANGED Chatted!vars
<1>1. CASE UNCHANGED serverVars
  BY <1>1 DEF serverVars, shared, userParts, chatRooms, Chatted!vars
<1>2. CASE ServerNext
  BY <1>2 DEF ServerNext, ClientStep, UserStep, AzitStep, HttpStep, SessionStep, ListsStep,
              PresenceStep, AttachmentsStep, ChatStep, MembershipStep, TimesStep, SeatsStep,
              PartyStep
<1> QED BY <1>1, <1>2

LEMMA ChatPartNext == ChatPart /\ [ServerNext]_serverVars => ChatPart'
<1> SUFFICES ASSUME ChatPart, [ServerNext]_serverVars, which' = "chat"
             PROVE  (ChatOK /\ Shown)'
  BY DEF ChatPart
<1>1. which = "chat" /\ (Chatted!Next \/ UNCHANGED Chatted!vars)
  BY ChatServerStep
<1>2. ChatOK /\ Shown
  BY <1>1 DEF ChatPart
<1>3. CASE UNCHANGED Chatted!vars
  <2>1. /\ UNCHANGED <<standing, members, rooms, joined, chats, nextMember, nextRoom, nextChat>>
        /\ UNCHANGED <<sockets, subs, req, seen, caughtUp>>
    BY <1>3 DEF Chatted!vars
  <2>2. Tables' /\ RowsKept
    BY <1>2, <2>1, TablesKept, ChatTypesParts DEF ChatOK, Chatted!database
  <2>3. Followers'
    BY <1>2, <2>1, FollowersKept, ChatTypesParts DEF ChatOK, Chatted!clients
  <2>4. Shown'
    BY <1>2, <2>1 DEF Shown, Chatted!ChatsOf, Emitting, Chatted!At
  <2> QED BY <1>2, <2>1, <2>2, <2>3, <2>4, ChatOthers
<1> QED BY <1>1, <1>2, <1>3, ChatNextOK, ChatNextShown

\* Between joining a room and reading its history no message gets lost: what is not in
\* the history was broadcast to the socket or is about to be.
THEOREM FollowersAreShown == ServerSpec => []FollowersMissNothing
<1>1. ChatPart => FollowersMissNothing
  BY ShownIsFollowed DEF ChatPart, FollowersMissNothing
<1> QED BY <1>1, ChatPartInit, ChatPartNext, PTL DEF ServerSpec

\* Whoever changes, deletes or opens a room is the member who created it, although the
\* check is an await before the write and memberships come and go in between; only an azit
\* that is deleted takes its rooms with it.
THEOREM RoomsChangedByCreator == ServerSpec => ChangedByCreator
<1>1. ChatPart /\ [ServerNext]_serverVars => [which = "chat" => Chatted!ByCreator]_serverVars
  <2> SUFFICES ASSUME ChatPart, ServerNext, which = "chat"
               PROVE  Chatted!ByCreator
    OBVIOUS
  <2>1. ChatOK /\ (Chatted!Next \/ UNCHANGED Chatted!vars)
    BY ChatServerStep DEF ChatPart
  <2>2. CASE UNCHANGED Chatted!vars
    BY <2>2 DEF Chatted!vars, Chatted!ByCreator
  <2> QED BY <2>1, <2>2, ChatNextByCreator
<1> QED BY <1>1, ChatPartInit, ChatPartNext, PTL DEF ServerSpec, ChangedByCreator
-----------------------------------------------------------------------------
(* Api: routes, and the status of a controller that requests share.        *)

\* A set of natural numbers has a least one: of the sets of what is smaller than one of
\* its elements, all of them finite, take one that contains no other.
LEMMA LeastOfNumbers ==
  ASSUME NEW S \in SUBSET Nat, S # {} PROVE \E x \in S : \A y \in S : x <= y
<1>1. PICK bound : bound \in S
  OBVIOUS
<1>2. bound \in Nat /\ \A y \in S : y \in Nat
  BY <1>1
<1>3. PICK U : U = {y \in S : y <= bound}
  OBVIOUS
<1>4. IsFiniteSet(U)
  <2>1. \A y \in U : y \in 0..bound
    BY <1>2, <1>3
  <2>2. U \subseteq 0..bound
    BY <2>1
  <2>3. IsFiniteSet(0..bound)
    BY <1>2, FS_Interval
  <2> QED BY <2>2, <2>3, FS_Subset
<1> DEFINE Below(x) == {y \in U : y < x}
           T == {Below(x) : x \in U}
           R == StrictSubsetOrdering(U)
<1>5. IsWellFoundedOn(R, SUBSET U)
  BY <1>4, FS_StrictSubsetOrderingWellFounded, FS_FiniteSubsetsOfFinite
<1>6. T \subseteq SUBSET U /\ T # {}
  <2>1. bound \in U
    BY <1>1, <1>2, <1>3
  <2> QED BY <2>1
<1>7. PICK t \in T : \A u \in T : ~ (<<u, t>> \in R)
  <2> HIDE DEF T, R
  <2> QED BY <1>5, <1>6, WFMin
<1>8. PICK x \in U : t = Below(x)
  BY <1>7
<1>9. ASSUME NEW y \in U, y < x PROVE FALSE
  <2>1. y \in Nat /\ x \in Nat
    BY <1>2, <1>3, <1>8
  <2>2. Below(y) \in T /\ y \in t /\ y \notin Below(y)
    BY <1>8, <1>9, <2>1
  <2>3. Below(y) \subseteq t
    <3>1. ASSUME NEW z \in U, z < y PROVE z < x
      <4>1. z \in Nat
        BY <1>2, <1>3
      <4> QED BY <1>9, <2>1, <3>1, <4>1
    <3> QED BY <1>8, <3>1
  <2>4. <<Below(y), t>> \in R
    BY <1>6, <1>7, <2>2, <2>3 DEF StrictSubsetOrdering
  <2> QED BY <1>7, <2>2, <2>4
<1>10. x \in S /\ \A y \in S : x <= y
  BY <1>2, <1>3, <1>8, <1>9
<1> QED BY <1>10

LEMMA PlacesAre ==
  \A p : p \in Places <=> \E k \in DOMAIN Declared : \E i \in 1..Len(Declared[k][2]) : p = <<k, i>>
BY DEF Places

\* A request for route s would be taken by route r, if it came first.
Takes(r, s) == r.verb = s.verb /\ MatchesPath(r.path, s.path)

\* No route of a controller is taken by one declared before it, and none of C by one of B.
InOrder(C)  == \A i, j \in 1..Len(C) : i < j => ~ Takes(C[i], C[j])
Apart(B, C) == \A i \in 1..Len(B), j \in 1..Len(C) : ~ Takes(B[i], C[j])

\* The user a handler dereferences is one the route asks for.
GuardedBy(r) == "user" \in r.guards => "jwt" \in r.guards
Guarded(C)   == \A i \in 1..Len(C) : GuardedBy(C[i])

Words(path) == Len(path)
Kind(r, verb, words) == r.verb = verb /\ Words(r.path) = words
Starts(r, word) == 1 \in DOMAIN r.path /\ r.path[1] = word
Begins(C, word) == \A i \in 1..Len(C) : Starts(C[i], word)
BeginsEither(C, v, w) == \A i \in 1..Len(C) : Starts(C[i], v) \/ Starts(C[i], w)

Highlights == HighlightCreateController \o HighlightCreateControllerEdit

LEMMA HighlightsAre ==
  /\ Len(Highlights) = 8
  /\ \A i \in 1..8 : Highlights[i] = IF i <= 4 THEN HighlightCreateController[i]
                                     ELSE HighlightCreateControllerEdit[i - 4]
<1> DEFINE C == HighlightCreateController
           D == HighlightCreateControllerEdit
           S == {C[i] : i \in 1..4} \union {D[i] : i \in 1..4}
<1>1. Len(C) = 4 /\ Len(D) = 4
  BY DEF HighlightCreateController, HighlightCreateControllerEdit
<1>2. C \in Seq(S)
  <2>1. C \in Seq({C[i] : i \in 1..4})
    BY DEF HighlightCreateController
  <2> QED BY <2>1
<1>3. D \in Seq(S)
  <2>1. D \in Seq({D[i] : i \in 1..4})
    BY DEF HighlightCreateControllerEdit
  <2> QED BY <2>1
<1> HIDE DEF C, D, S
<1>4. /\ Len(C \o D) = Len(C) + Len(D)
      /\ \A i \in 1..Len(C) + Len(D) : (C \o D)[i] = IF i <= Len(C) THEN C[i] ELSE D[i - Len(C)]
  BY <1>2, <1>3, ConcatProperties
<1>5. Len(C) + Len(D) = 8
  BY <1>1
<1>6. Len(C \o D) = 8 /\ \A i \in 1..8 : (C \o D)[i] = IF i <= 4 THEN C[i] ELSE D[i - 4]
  BY <1>1, <1>4, <1>5
<1> QED BY <1>6 DEF C, D, Highlights

LEMMA AuthRoutes ==
  /\ Len(AuthController) = 6 /\ InOrder(AuthController) /\ Guarded(AuthController)
  /\ Begins(AuthController, "auth")
<1>1. Len(AuthController) = 6
  BY DEF AuthController
<1>2. /\ Kind(AuthController[1], "POST", 2)
      /\ Kind(AuthController[2], "POST", 2)
      /\ Kind(AuthController[3], "POST", 3)
      /\ Kind(AuthController[4], "POST", 3)
      /\ Kind(AuthController[5], "POST", 3)
      /\ Kind(AuthController[6], "POST", 2)
  BY DEF Kind, Words, AuthController, Route
<1>3. ~ Takes(AuthController[1], AuthController[2])
  BY DEF Takes, MatchesPath, AuthController, Route, Id
<1>4. ~ Takes(AuthController[1], AuthController[6])
  BY DEF Takes, MatchesPath, AuthController, Route, Id
<1>5. ~ Takes(AuthController[2], AuthController[6])
  BY DEF Takes, MatchesPath, AuthController, Route, Id
<1>6. ~ Takes(AuthController[3], AuthController[4])
  BY DEF Takes, MatchesPath, AuthController, Route, Id
<1>7. ~ Takes(AuthController[3], AuthController[5])
  BY DEF Takes, MatchesPath, AuthController, Route, Id
<1>8. ~ Takes(AuthController[4], AuthController[5])
  BY DEF Takes, MatchesPath, AuthController, Route, Id
<1>9. ASSUME NEW i \in 1..6, NEW j \in 1..6, i < j,
             Takes(AuthController[i], AuthController[j])
      PROVE  FALSE
  <2>1. /\ AuthController[i].verb = AuthController[j].verb
        /\ Words(AuthController[i].path) = Words(AuthController[j].path)
    BY <1>9 DEF Takes, MatchesPath, Words
  <2> QED BY <1>2, <1>3, <1>4, <1>5, <1>6, <1>7, <1>8, <1>9, <2>1 DEF Kind
<1>10. InOrder(AuthController)
  BY <1>1, <1>9 DEF InOrder
<1>11. Guarded(AuthController)
  BY <1>1 DEF Guarded, GuardedBy, AuthController, Route
<1>12. Begins(AuthController, "auth")
  BY <1>1 DEF Begins, Starts, AuthController, Route
<1> QED BY <1>1, <1>10, <1>11, <1>12

LEMMA AzitMemberRoutes ==
  /\ Len(AzitMemberController) = 3
  /\ InOrder(AzitMemberController)
  /\ Guarded(AzitMemberController)
  /\ Begins(AzitMemberController, "azits")
<1>1. Len(AzitMemberController) = 3
  BY DEF AzitMemberController
<1>2. /\ Kind(AzitMemberController[1], "GET", 3)
      /\ Kind(AzitMemberController[2], "POST", 3)
      /\ Kind(AzitMemberController[3], "DELETE", 4)
  BY DEF Kind, Words, AzitMemberController, Route
<1>3. ASSUME NEW i \in 1..3, NEW j \in 1..3, i < j,
             Takes(AzitMemberController[i], AzitMemberController[j])
      PROVE  FALSE
  <2>1. /\ AzitMemberController[i].verb = AzitMemberController[j].verb
        /\ Words(AzitMemberController[i].path) = Words(AzitMemberController[j].path)
    BY <1>3 DEF Takes, MatchesPath, Words
  <2> QED BY <1>2, <1>3, <2>1 DEF Kind
<1>4. InOrder(AzitMemberController)
  BY <1>1, <1>3 DEF InOrder
<1>5. Guarded(AzitMemberController)
  BY <1>1 DEF Guarded, GuardedBy, AzitMemberController, Route
<1>6. Begins(AzitMemberController, "azits")
  BY <1>1 DEF Begins, Starts, AzitMemberController, Route
<1> QED BY <1>1, <1>4, <1>5, <1>6

LEMMA ParticipationRoutes ==
  /\ Len(AzitScheduleParticipationController) = 5
  /\ InOrder(AzitScheduleParticipationController)
  /\ Guarded(AzitScheduleParticipationController)
  /\ Begins(AzitScheduleParticipationController, "azits")
<1>1. Len(AzitScheduleParticipationController) = 5
  BY DEF AzitScheduleParticipationController
<1>2. /\ Kind(AzitScheduleParticipationController[1], "POST", 5)
      /\ Kind(AzitScheduleParticipationController[2], "GET", 6)
      /\ Kind(AzitScheduleParticipationController[3], "GET", 5)
      /\ Kind(AzitScheduleParticipationController[4], "PATCH", 5)
      /\ Kind(AzitScheduleParticipationController[5], "DELETE", 5)
  BY DEF Kind, Words, AzitScheduleParticipationController, participants, Route
<1>3. ASSUME NEW i \in 1..5, NEW j \in 1..5, i < j,
             Takes(AzitScheduleParticipationController[i], AzitScheduleParticipationController[j])
      PROVE  FALSE
  <2>1. /\ AzitScheduleParticipationController[i].verb
             = AzitScheduleParticipationController[j].verb
        /\ Words(AzitScheduleParticipationController[i].path)
             = Words(AzitScheduleParticipationController[j].path)
    BY <1>3 DEF Takes, MatchesPath, Words
  <2> QED BY <1>2, <1>3, <2>1 DEF Kind
<1>4. InOrder(AzitScheduleParticipationController)
  BY <1>1, <1>3 DEF InOrder
<1>5. Guarded(AzitScheduleParticipationController)
  BY <1>1 DEF Guarded, GuardedBy, AzitScheduleParticipationController, participants, Route
<1>6. Begins(AzitScheduleParticipationController, "azits")
  BY <1>1 DEF Begins, Starts, AzitScheduleParticipationController, participants, Route
<1> QED BY <1>1, <1>4, <1>5, <1>6

LEMMA AzitScheduleRoutes ==
  /\ Len(AzitScheduleController) = 4
  /\ InOrder(AzitScheduleController)
  /\ Guarded(AzitScheduleController)
  /\ Begins(AzitScheduleController, "azits")
<1>1. Len(AzitScheduleController) = 4
  BY DEF AzitScheduleController
<1>2. /\ Kind(AzitScheduleController[1], "POST", 3)
      /\ Kind(AzitScheduleController[2], "GET", 3)
      /\ Kind(AzitScheduleController[3], "PATCH", 4)
      /\ Kind(AzitScheduleController[4], "DELETE", 4)
  BY DEF Kind, Words, AzitScheduleController, Route
<1>3. ASSUME NEW i \in 1..4, NEW j \in 1..4, i < j,
             Takes(AzitScheduleController[i], AzitScheduleController[j])
      PROVE  FALSE
  <2>1. /\ AzitScheduleController[i].verb = AzitScheduleController[j].verb
        /\ Words(AzitScheduleController[i].path) = Words(AzitScheduleController[j].path)
    BY <1>3 DEF Takes, MatchesPath, Words
  <2> QED BY <1>2, <1>3, <2>1 DEF Kind
<1>4. InOrder(AzitScheduleController)
  BY <1>1, <1>3 DEF InOrder
<1>5. Guarded(AzitScheduleController)
  BY <1>1 DEF Guarded, GuardedBy, AzitScheduleController, Route
<1>6. Begins(AzitScheduleController, "azits")
  BY <1>1 DEF Begins, Starts, AzitScheduleController, Route
<1> QED BY <1>1, <1>4, <1>5, <1>6

LEMMA AzitRoutes ==
  /\ Len(AzitController) = 4 /\ InOrder(AzitController) /\ Guarded(AzitController)
  /\ Begins(AzitController, "azits")
<1>1. Len(AzitController) = 4
  BY DEF AzitController
<1>2. /\ Kind(AzitController[1], "POST", 1)
      /\ Kind(AzitController[2], "GET", 1)
      /\ Kind(AzitController[3], "PATCH", 2)
      /\ Kind(AzitController[4], "DELETE", 2)
  BY DEF Kind, Words, AzitController, Route
<1>3. ASSUME NEW i \in 1..4, NEW j \in 1..4, i < j,
             Takes(AzitController[i], AzitController[j])
      PROVE  FALSE
  <2>1. /\ AzitController[i].verb = AzitController[j].verb
        /\ Words(AzitController[i].path) = Words(AzitController[j].path)
    BY <1>3 DEF Takes, MatchesPath, Words
  <2> QED BY <1>2, <1>3, <2>1 DEF Kind
<1>4. InOrder(AzitController)
  BY <1>1, <1>3 DEF InOrder
<1>5. Guarded(AzitController)
  BY <1>1 DEF Guarded, GuardedBy, AzitController, Route
<1>6. Begins(AzitController, "azits")
  BY <1>1 DEF Begins, Starts, AzitController, Route
<1> QED BY <1>1, <1>4, <1>5, <1>6

LEMMA BanRoutes ==
  /\ Len(BanController) = 3 /\ InOrder(BanController) /\ Guarded(BanController)
  /\ Begins(BanController, "bans")
<1>1. Len(BanController) = 3
  BY DEF BanController
<1>2. /\ Kind(BanController[1], "GET", 1)
      /\ Kind(BanController[2], "GET", 2)
      /\ Kind(BanController[3], "DELETE", 2)
  BY DEF Kind, Words, BanController, Route
<1>3. ASSUME NEW i \in 1..3, NEW j \in 1..3, i < j,
             Takes(BanController[i], BanController[j])
      PROVE  FALSE
  <2>1. /\ BanController[i].verb = BanController[j].verb
        /\ Words(BanController[i].path) = Words(BanController[j].path)
    BY <1>3 DEF Takes, MatchesPath, Words
  <2> QED BY <1>2, <1>3, <2>1 DEF Kind
<1>4. InOrder(BanController)
  BY <1>1, <1>3 DEF InOrder
<1>5. Guarded(BanController)
  BY <1>1 DEF Guarded, GuardedBy, BanController, Route
<1>6. Begins(BanController, "bans")
  BY <1>1 DEF Begins, Starts, BanController, Route
<1> QED BY <1>1, <1>4, <1>5, <1>6

LEMMA AzitChatRoutes ==
  /\ Len(AzitChatController) = 2 /\ InOrder(AzitChatController) /\ Guarded(AzitChatController)
  /\ Begins(AzitChatController, "azits")
<1>1. Len(AzitChatController) = 2
  BY DEF AzitChatController
<1>2. /\ Kind(AzitChatController[1], "POST", 3)
      /\ Kind(AzitChatController[2], "GET", 3)
  BY DEF Kind, Words, AzitChatController, Route
<1>3. ASSUME NEW i \in 1..2, NEW j \in 1..2, i < j,
             Takes(AzitChatController[i], AzitChatController[j])
      PROVE  FALSE
  <2>1. /\ AzitChatController[i].verb = AzitChatController[j].verb
        /\ Words(AzitChatController[i].path) = Words(AzitChatController[j].path)
    BY <1>3 DEF Takes, MatchesPath, Words
  <2> QED BY <1>2, <1>3, <2>1 DEF Kind
<1>4. InOrder(AzitChatController)
  BY <1>1, <1>3 DEF InOrder
<1>5. Guarded(AzitChatController)
  BY <1>1 DEF Guarded, GuardedBy, AzitChatController, Route
<1>6. Begins(AzitChatController, "azits")
  BY <1>1 DEF Begins, Starts, AzitChatController, Route
<1> QED BY <1>1, <1>4, <1>5, <1>6

LEMMA ChatRoutes ==
  /\ Len(ChatController) = 7 /\ InOrder(ChatController) /\ Guarded(ChatController)
  /\ Begins(ChatController, "chat-rooms")
<1>1. Len(ChatController) = 7
  BY DEF ChatController
<1>2. /\ Kind(ChatController[1], "GET", 3)
      /\ Kind(ChatController[2], "POST", 3)
      /\ Kind(ChatController[3], "POST", 3)
      /\ Kind(ChatController[4], "DELETE", 2)
      /\ Kind(ChatController[5], "PATCH", 2)
      /\ Kind(ChatController[6], "POST", 3)
      /\ Kind(ChatController[7], "GET", 3)
  BY DEF Kind, Words, ChatController, Route
<1>3. ~ Takes(ChatController[1], ChatController[7])
  BY DEF Takes, MatchesPath, ChatController, Route, Id
<1>4. ~ Takes(ChatController[2], ChatController[3])
  BY DEF Takes, MatchesPath, ChatController, Route, Id
<1>5. ~ Takes(ChatController[2], ChatController[6])
  BY DEF Takes, MatchesPath, ChatController, Route, Id
<1>6. ~ Takes(ChatController[3], ChatController[6])
  BY DEF Takes, MatchesPath, ChatController, Route, Id
<1>7. ASSUME NEW i \in 1..7, NEW j \in 1..7, i < j,
             Takes(ChatController[i], ChatController[j])
      PROVE  FALSE
  <2>1. /\ ChatController[i].verb = ChatController[j].verb
        /\ Words(ChatController[i].path) = Words(ChatController[j].path)
    BY <1>7 DEF Takes, MatchesPath, Words
  <2> QED BY <1>2, <1>3, <1>4, <1>5, <1>6, <1>7, <2>1 DEF Kind
<1>8. InOrder(ChatController)
  BY <1>1, <1>7 DEF InOrder
<1>9. Guarded(ChatController)
  BY <1>1 DEF Guarded, GuardedBy, ChatController, Route
<1>10. Begins(ChatController, "chat-rooms")
  BY <1>1 DEF Begins, Starts, ChatController, Route
<1> QED BY <1>1, <1>8, <1>9, <1>10

LEMMA CommunityHighlightRoutes ==
  /\ Len(CommunityHighlightController) = 5
  /\ InOrder(CommunityHighlightController)
  /\ Guarded(CommunityHighlightController)
  /\ Begins(CommunityHighlightController, "community")
<1>1. Len(CommunityHighlightController) = 5
  BY DEF CommunityHighlightController
<1>2. /\ Kind(CommunityHighlightController[1], "GET", 2)
      /\ Kind(CommunityHighlightController[2], "GET", 3)
      /\ Kind(CommunityHighlightController[3], "POST", 2)
      /\ Kind(CommunityHighlightController[4], "PATCH", 3)
      /\ Kind(CommunityHighlightController[5], "DELETE", 3)
  BY DEF Kind, Words, CommunityHighlightController, Route
<1>3. ASSUME NEW i \in 1..5, NEW j \in 1..5, i < j,
             Takes(CommunityHighlightController[i], CommunityHighlightController[j])
      PROVE  FALSE
  <2>1. /\ CommunityHighlightController[i].verb = CommunityHighlightController[j].verb
        /\ Words(CommunityHighlightController[i].path)
             = Words(CommunityHighlightController[j].path)
    BY <1>3 DEF Takes, MatchesPath, Words
  <2> QED BY <1>2, <1>3, <2>1 DEF Kind
<1>4. InOrder(CommunityHighlightController)
  BY <1>1, <1>3 DEF InOrder
<1>5. Guarded(CommunityHighlightController)
  BY <1>1 DEF Guarded, GuardedBy, CommunityHighlightController, Route
<1>6. Begins(CommunityHighlightController, "community")
  BY <1>1 DEF Begins, Starts, CommunityHighlightController, Route
<1> QED BY <1>1, <1>4, <1>5, <1>6

LEMMA CommunityInteractionRoutes ==
  /\ Len(CommunityInteractionController) = 5
  /\ InOrder(CommunityInteractionController)
  /\ Guarded(CommunityInteractionController)
  /\ Begins(CommunityInteractionController, "community")
<1>1. Len(CommunityInteractionController) = 5
  BY DEF CommunityInteractionController
<1>2. /\ Kind(CommunityInteractionController[1], "POST", 2)
      /\ Kind(CommunityInteractionController[2], "POST", 2)
      /\ Kind(CommunityInteractionController[3], "GET", 2)
      /\ Kind(CommunityInteractionController[4], "PATCH", 3)
      /\ Kind(CommunityInteractionController[5], "DELETE", 3)
  BY DEF Kind, Words, CommunityInteractionController, Route
<1>3. ~ Takes(CommunityInteractionController[1], CommunityInteractionController[2])
  BY DEF Takes, MatchesPath, CommunityInteractionController, Route, Id
<1>4. ASSUME NEW i \in 1..5, NEW j \in 1..5, i < j,
             Takes(CommunityInteractionController[i], CommunityInteractionController[j])
      PROVE  FALSE
  <2>1. /\ CommunityInteractionController[i].verb = CommunityInteractionController[j].verb
        /\ Words(CommunityInteractionController[i].path)
             = Words(CommunityInteractionController[j].path)
    BY <1>4 DEF Takes, MatchesPath, Words
  <2> QED BY <1>2, <1>3, <1>4, <2>1 DEF Kind
<1>5. InOrder(CommunityInteractionController)
  BY <1>1, <1>4 DEF InOrder
<1>6. Guarded(CommunityInteractionController)
  BY <1>1 DEF Guarded, GuardedBy, CommunityInteractionController, Route
<1>7. Begins(CommunityInteractionController, "community")
  BY <1>1 DEF Begins, Starts, CommunityInteractionController, Route
<1> QED BY <1>1, <1>5, <1>6, <1>7

LEMMA CommunityPostRoutes ==
  /\ Len(CommunityPostController) = 8
  /\ InOrder(CommunityPostController)
  /\ Guarded(CommunityPostController)
  /\ Begins(CommunityPostController, "community")
<1>1. Len(CommunityPostController) = 8
  BY DEF CommunityPostController
<1>2. /\ Kind(CommunityPostController[1], "GET", 4)
      /\ Kind(CommunityPostController[2], "GET", 2)
      /\ Kind(CommunityPostController[3], "GET", 2)
      /\ Kind(CommunityPostController[4], "GET", 3)
      /\ Kind(CommunityPostController[5], "GET", 3)
      /\ Kind(CommunityPostController[6], "POST", 2)
      /\ Kind(CommunityPostController[7], "PATCH", 3)
      /\ Kind(CommunityPostController[8], "DELETE", 3)
  BY DEF Kind, Words, CommunityPostController, Route
<1>3. ~ Takes(CommunityPostController[2], CommunityPostController[3])
  BY DEF Takes, MatchesPath, CommunityPostController, Route, Id
<1>4. ~ Takes(CommunityPostController[4], CommunityPostController[5])
  BY DEF Takes, MatchesPath, CommunityPostController, Route, Id
<1>5. ASSUME NEW i \in 1..8, NEW j \in 1..8, i < j,
             Takes(CommunityPostController[i], CommunityPostController[j])
      PROVE  FALSE
  <2>1. /\ CommunityPostController[i].verb = CommunityPostController[j].verb
        /\ Words(CommunityPostController[i].path) = Words(CommunityPostController[j].path)
    BY <1>5 DEF Takes, MatchesPath, Words
  <2> QED BY <1>2, <1>3, <1>4, <1>5, <2>1 DEF Kind
<1>6. InOrder(CommunityPostController)
  BY <1>1, <1>5 DEF InOrder
<1>7. Guarded(CommunityPostController)
  BY <1>1 DEF Guarded, GuardedBy, CommunityPostController, Route
<1>8. Begins(CommunityPostController, "community")
  BY <1>1 DEF Begins, Starts, CommunityPostController, Route
<1> QED BY <1>1, <1>6, <1>7, <1>8

LEMMA FeedbackRoutes ==
  /\ Len(FeedbackController) = 3 /\ InOrder(FeedbackController) /\ Guarded(FeedbackController)
  /\ Begins(FeedbackController, "feedbacks")
<1>1. Len(FeedbackController) = 3
  BY DEF FeedbackController
<1>2. /\ Kind(FeedbackController[1], "POST", 1)
      /\ Kind(FeedbackController[2], "GET", 2)
      /\ Kind(FeedbackController[3], "GET", 2)
  BY DEF Kind, Words, FeedbackController, Route
<1>3. ~ Takes(FeedbackController[2], FeedbackController[3])
  BY DEF Takes, MatchesPath, FeedbackController, Route, Id
<1>4. ASSUME NEW i \in 1..3, NEW j \in 1..3, i < j,
             Takes(FeedbackController[i], FeedbackController[j])
      PROVE  FALSE
  <2>1. /\ FeedbackController[i].verb = FeedbackController[j].verb
        /\ Words(FeedbackController[i].path) = Words(FeedbackController[j].path)
    BY <1>4 DEF Takes, MatchesPath, Words
  <2> QED BY <1>2, <1>3, <1>4, <2>1 DEF Kind
<1>5. InOrder(FeedbackController)
  BY <1>1, <1>4 DEF InOrder
<1>6. Guarded(FeedbackController)
  BY <1>1 DEF Guarded, GuardedBy, FeedbackController, Route
<1>7. Begins(FeedbackController, "feedbacks")
  BY <1>1 DEF Begins, Starts, FeedbackController, Route
<1> QED BY <1>1, <1>5, <1>6, <1>7

LEMMA FriendRoutes ==
  /\ Len(FriendController) = 7 /\ InOrder(FriendController) /\ Guarded(FriendController)
  /\ Begins(FriendController, "friends")
<1>1. Len(FriendController) = 7
  BY DEF FriendController
<1>2. /\ Kind(FriendController[1], "GET", 1)
      /\ Kind(FriendController[2], "POST", 2)
      /\ Kind(FriendController[3], "GET", 3)
      /\ Kind(FriendController[4], "GET", 3)
      /\ Kind(FriendController[5], "PATCH", 3)
      /\ Kind(FriendController[6], "DELETE", 2)
      /\ Kind(FriendController[7], "GET", 2)
  BY DEF Kind, Words, FriendController, Route
<1>3. ~ Takes(FriendController[3], FriendController[4])
  BY DEF Takes, MatchesPath, FriendController, Route, Id
<1>4. ASSUME NEW i \in 1..7, NEW j \in 1..7, i < j,
             Takes(FriendController[i], FriendController[j])
      PROVE  FALSE
  <2>1. /\ FriendController[i].verb = FriendController[j].verb
        /\ Words(FriendController[i].path) = Words(FriendController[j].path)
    BY <1>4 DEF Takes, MatchesPath, Words
  <2> QED BY <1>2, <1>3, <1>4, <2>1 DEF Kind
<1>5. InOrder(FriendController)
  BY <1>1, <1>4 DEF InOrder
<1>6. Guarded(FriendController)
  BY <1>1 DEF Guarded, GuardedBy, FriendController, Route
<1>7. Begins(FriendController, "friends")
  BY <1>1 DEF Begins, Starts, FriendController, Route
<1> QED BY <1>1, <1>5, <1>6, <1>7

LEMMA HighlightsRoutes ==
  /\ Len(Highlights) = 8 /\ InOrder(Highlights) /\ Guarded(Highlights)
  /\ Begins(Highlights, "azits")
<1>1. Len(Highlights) = 8
  BY HighlightsAre
<1>2. /\ Kind(HighlightCreateController[1], "POST", 3)
      /\ Kind(HighlightCreateController[2], "POST", 2)
      /\ Kind(HighlightCreateController[3], "GET", 3)
      /\ Kind(HighlightCreateController[4], "GET", 4)
      /\ Kind(HighlightCreateControllerEdit[1], "PUT", 4)
      /\ Kind(HighlightCreateControllerEdit[2], "DELETE", 4)
      /\ Kind(HighlightCreateControllerEdit[3], "POST", 5)
      /\ Kind(HighlightCreateControllerEdit[4], "DELETE", 5)
  BY DEF Kind, Words, HighlightCreateController, HighlightCreateControllerEdit, Route
<1>3. ASSUME NEW i \in 1..8, NEW j \in 1..8, i < j,
             Takes(Highlights[i], Highlights[j])
      PROVE  FALSE
  <2>1. /\ Highlights[i].verb = Highlights[j].verb
        /\ Words(Highlights[i].path) = Words(Highlights[j].path)
    BY <1>3 DEF Takes, MatchesPath, Words
  <2> QED BY <1>2, <1>3, <2>1, HighlightsAre DEF Kind
<1>4. InOrder(Highlights)
  BY <1>1, <1>3 DEF InOrder
<1>5. \A i \in 1..4 : /\ GuardedBy(HighlightCreateController[i])
                     /\ GuardedBy(HighlightCreateControllerEdit[i])
  BY DEF GuardedBy, HighlightCreateController, HighlightCreateControllerEdit, Route
<1>6. Guarded(Highlights)
  BY <1>1, <1>5, HighlightsAre DEF Guarded
<1>7. \A i \in 1..4 : /\ Starts(HighlightCreateController[i], "azits")
                     /\ Starts(HighlightCreateControllerEdit[i], "azits")
  BY DEF Starts, HighlightCreateController, HighlightCreateControllerEdit, Route
<1>8. Begins(Highlights, "azits")
  BY <1>1, <1>7, HighlightsAre DEF Begins
<1> QED BY <1>1, <1>4, <1>6, <1>8

LEMMA HighlightMypageRoutes ==
  /\ Len(HighlightMypageController) = 1
  /\ InOrder(HighlightMypageController)
  /\ Guarded(HighlightMypageController)
  /\ Begins(HighlightMypageController, "highlights")
<1>1. Len(HighlightMypageController) = 1
  BY DEF HighlightMypageController
<1>2. InOrder(HighlightMypageController)
  BY <1>1 DEF InOrder
<1>3. Guarded(HighlightMypageController)
  BY <1>1 DEF Guarded, GuardedBy, HighlightMypageController, Route
<1>4. Begins(HighlightMypageController, "highlights")
  BY <1>1 DEF Begins, Starts, HighlightMypageController, Route
<1> QED BY <1>1, <1>2, <1>3, <1>4

LEMMA PartyCommentRoutes ==
  /\ Len(PartyCommentController) = 4
  /\ InOrder(PartyCommentController)
  /\ Guarded(PartyCommentController)
  /\ BeginsEither(PartyCommentController, "parties", "comments")
<1>1. Len(PartyCommentController) = 4
  BY DEF PartyCommentController
<1>2. /\ Kind(PartyCommentController[1], "GET", 3)
      /\ Kind(PartyCommentController[2], "POST", 3)
      /\ Kind(PartyCommentController[3], "PATCH", 2)
      /\ Kind(PartyCommentController[4], "DELETE", 2)
  BY DEF Kind, Words, PartyCommentController, Route
<1>3. ASSUME NEW i \in 1..4, NEW j \in 1..4, i < j,
             Takes(PartyCommentController[i], PartyCommentController[j])
      PROVE  FALSE
  <2>1. /\ PartyCommentController[i].verb = PartyCommentController[j].verb
        /\ Words(PartyCommentController[i].path) = Words(PartyCommentController[j].path)
    BY <1>3 DEF Takes, MatchesPath, Words
  <2> QED BY <1>2, <1>3, <2>1 DEF Kind
<1>4. InOrder(PartyCommentController)
  BY <1>1, <1>3 DEF InOrder
<1>5. Guarded(PartyCommentController)
  BY <1>1 DEF Guarded, GuardedBy, PartyCommentController, Route
<1>6. BeginsEither(PartyCommentController, "parties", "comments")
  BY <1>1 DEF BeginsEither, Starts, PartyCommentController, Route
<1> QED BY <1>1, <1>4, <1>5, <1>6

LEMMA PartyInteractionRoutes ==
  /\ Len(PartyInteractionController) = 6
  /\ InOrder(PartyInteractionController)
  /\ Guarded(PartyInteractionController)
  /\ Begins(PartyInteractionController, "parties")
<1>1. Len(PartyInteractionController) = 6
  BY DEF PartyInteractionController
<1>2. /\ Kind(PartyInteractionController[1], "GET", 3)
      /\ Kind(PartyInteractionController[2], "GET", 3)
      /\ Kind(PartyInteractionController[3], "POST", 3)
      /\ Kind(PartyInteractionController[4], "PATCH", 3)
      /\ Kind(PartyInteractionController[5], "POST", 3)
      /\ Kind(PartyInteractionController[6], "DELETE", 3)
  BY DEF Kind, Words, PartyInteractionController, Route
<1>3. ~ Takes(PartyInteractionController[1], PartyInteractionController[2])
  BY DEF Takes, MatchesPath, PartyInteractionController, Route, Id
<1>4. ~ Takes(PartyInteractionController[3], PartyInteractionController[5])
  BY DEF Takes, MatchesPath, PartyInteractionController, Route, Id
<1>5. ASSUME NEW i \in 1..6, NEW j \in 1..6, i < j,
             Takes(PartyInteractionController[i], PartyInteractionController[j])
      PROVE  FALSE
  <2>1. /\ PartyInteractionController[i].verb = PartyInteractionController[j].verb
        /\ Words(PartyInteractionController[i].path) = Words(PartyInteractionController[j].path)
    BY <1>5 DEF Takes, MatchesPath, Words
  <2> QED BY <1>2, <1>3, <1>4, <1>5, <2>1 DEF Kind
<1>6. InOrder(PartyInteractionController)
  BY <1>1, <1>5 DEF InOrder
<1>7. Guarded(PartyInteractionController)
  BY <1>1 DEF Guarded, GuardedBy, PartyInteractionController, Route
<1>8. Begins(PartyInteractionController, "parties")
  BY <1>1 DEF Begins, Starts, PartyInteractionController, Route
<1> QED BY <1>1, <1>6, <1>7, <1>8

LEMMA PartyRoutes ==
  /\ Len(PartyController) = 6 /\ InOrder(PartyController) /\ Guarded(PartyController)
  /\ Begins(PartyController, "parties")
<1>1. Len(PartyController) = 6
  BY DEF PartyController
<1>2. /\ Kind(PartyController[1], "GET", 2)
      /\ Kind(PartyController[2], "GET", 1)
      /\ Kind(PartyController[3], "POST", 1)
      /\ Kind(PartyController[4], "GET", 2)
      /\ Kind(PartyController[5], "PATCH", 2)
      /\ Kind(PartyController[6], "DELETE", 2)
  BY DEF Kind, Words, PartyController, Route
<1>3. ~ Takes(PartyController[1], PartyController[4])
  BY DEF Takes, MatchesPath, PartyController, Route, Id
<1>4. ASSUME NEW i \in 1..6, NEW j \in 1..6, i < j,
             Takes(PartyController[i], PartyController[j])
      PROVE  FALSE
  <2>1. /\ PartyController[i].verb = PartyController[j].verb
        /\ Words(PartyController[i].path) = Words(PartyController[j].path)
    BY <1>4 DEF Takes, MatchesPath, Words
  <2> QED BY <1>2, <1>3, <1>4, <2>1 DEF Kind
<1>5. InOrder(PartyController)
  BY <1>1, <1>4 DEF InOrder
<1>6. Guarded(PartyController)
  BY <1>1 DEF Guarded, GuardedBy, PartyController, Route
<1>7. Begins(PartyController, "parties")
  BY <1>1 DEF Begins, Starts, PartyController, Route
<1> QED BY <1>1, <1>5, <1>6, <1>7

LEMMA ReportRoutes ==
  /\ Len(ReportController) = 5 /\ InOrder(ReportController) /\ Guarded(ReportController)
  /\ Begins(ReportController, "reports")
<1>1. Len(ReportController) = 5
  BY DEF ReportController
<1>2. /\ Kind(ReportController[1], "GET", 1)
      /\ Kind(ReportController[2], "GET", 2)
      /\ Kind(ReportController[3], "POST", 1)
      /\ Kind(ReportController[4], "PATCH", 2)
      /\ Kind(ReportController[5], "DELETE", 2)
  BY DEF Kind, Words, ReportController, Route
<1>3. ASSUME NEW i \in 1..5, NEW j \in 1..5, i < j,
             Takes(ReportController[i], ReportController[j])
      PROVE  FALSE
  <2>1. /\ ReportController[i].verb = ReportController[j].verb
        /\ Words(ReportController[i].path) = Words(ReportController[j].path)
    BY <1>3 DEF Takes, MatchesPath, Words
  <2> QED BY <1>2, <1>3, <2>1 DEF Kind
<1>4. InOrder(ReportController)
  BY <1>1, <1>3 DEF InOrder
<1>5. Guarded(ReportController)
  BY <1>1 DEF Guarded, GuardedBy, ReportController, Route
<1>6. Begins(ReportController, "reports")
  BY <1>1 DEF Begins, Starts, ReportController, Route
<1> QED BY <1>1, <1>4, <1>5, <1>6

LEMMA AdminItemRoutes ==
  /\ Len(AdminItemController) = 3 /\ InOrder(AdminItemController) /\ Guarded(AdminItemController)
  /\ Begins(AdminItemController, "admin")
<1>1. Len(AdminItemController) = 3
  BY DEF AdminItemController
<1>2. /\ Kind(AdminItemController[1], "POST", 2)
      /\ Kind(AdminItemController[2], "PATCH", 3)
      /\ Kind(AdminItemController[3], "DELETE", 3)
  BY DEF Kind, Words, AdminItemController, Route
<1>3. ASSUME NEW i \in 1..3, NEW j \in 1..3, i < j,
             Takes(AdminItemController[i], AdminItemController[j])
      PROVE  FALSE
  <2>1. /\ AdminItemController[i].verb = AdminItemController[j].verb
        /\ Words(AdminItemController[i].path) = Words(AdminItemController[j].path)
    BY <1>3 DEF Takes, MatchesPath, Words
  <2> QED BY <1>2, <1>3, <2>1 DEF Kind
<1>4. InOrder(AdminItemController)
  BY <1>1, <1>3 DEF InOrder
<1>5. Guarded(AdminItemController)
  BY <1>1 DEF Guarded, GuardedBy, AdminItemController, Route
<1>6. Begins(AdminItemController, "admin")
  BY <1>1 DEF Begins, Starts, AdminItemController, Route
<1> QED BY <1>1, <1>4, <1>5, <1>6

LEMMA ItemRoutes ==
  /\ Len(ItemController) = 3 /\ InOrder(ItemController) /\ Guarded(ItemController)
  /\ Begins(ItemController, "items")
<1>1. Len(ItemController) = 3
  BY DEF ItemController
<1>2. /\ Kind(ItemController[1], "GET", 2)
      /\ Kind(ItemController[2], "GET", 1)
      /\ Kind(ItemController[3], "GET", 2)
  BY DEF Kind, Words, ItemController, Route
<1>3. ~ Takes(ItemController[1], ItemController[3])
  BY DEF Takes, MatchesPath, ItemController, Route, Id
<1>4. ASSUME NEW i \in 1..3, NEW j \in 1..3, i < j,
             Takes(ItemController[i], ItemController[j])
      PROVE  FALSE
  <2>1. /\ ItemController[i].verb = ItemController[j].verb
        /\ Words(ItemController[i].path) = Words(ItemController[j].path)
    BY <1>4 DEF Takes, MatchesPath, Words
  <2> QED BY <1>2, <1>3, <1>4, <2>1 DEF Kind
<1>5. InOrder(ItemController)
  BY <1>1, <1>4 DEF InOrder
<1>6. Guarded(ItemController)
  BY <1>1 DEF Guarded, GuardedBy, ItemController, Route
<1>7. Begins(ItemController, "items")
  BY <1>1 DEF Begins, Starts, ItemController, Route
<1> QED BY <1>1, <1>5, <1>6, <1>7

LEMMA UserRoutes ==
  /\ Len(UserController) = 4 /\ InOrder(UserController) /\ Guarded(UserController)
  /\ Begins(UserController, "users")
<1>1. Len(UserController) = 4
  BY DEF UserController
<1>2. /\ Kind(UserController[1], "GET", 1)
      /\ Kind(UserController[2], "GET", 2)
      /\ Kind(UserController[3], "GET", 3)
      /\ Kind(UserController[4], "POST", 3)
  BY DEF Kind, Words, UserController, Route
<1>3. ASSUME NEW i \in 1..4, NEW j \in 1..4, i < j,
             Takes(UserController[i], UserController[j])
      PROVE  FALSE
  <2>1. /\ UserController[i].verb = UserController[j].verb
        /\ Words(UserController[i].path) = Words(UserController[j].path)
    BY <1>3 DEF Takes, MatchesPath, Words
  <2> QED BY <1>2, <1>3, <2>1 DEF Kind
<1>4. InOrder(UserController)
  BY <1>1, <1>3 DEF InOrder
<1>5. Guarded(UserController)
  BY <1>1 DEF Guarded, GuardedBy, UserController, Route
<1>6. Begins(UserController, "users")
  BY <1>1 DEF Begins, Starts, UserController, Route
<1> QED BY <1>1, <1>4, <1>5, <1>6

LEMMA VoiceRoutes ==
  /\ Len(VoiceController) = 1 /\ InOrder(VoiceController) /\ Guarded(VoiceController)
  /\ Begins(VoiceController, "chat-rooms")
<1>1. Len(VoiceController) = 1
  BY DEF VoiceController
<1>2. InOrder(VoiceController)
  BY <1>1 DEF InOrder
<1>3. Guarded(VoiceController)
  BY <1>1 DEF Guarded, GuardedBy, VoiceController, Route
<1>4. Begins(VoiceController, "chat-rooms")
  BY <1>1 DEF Begins, Starts, VoiceController, Route
<1> QED BY <1>1, <1>2, <1>3, <1>4

\* What a place where r is taken for s has in common: words, unless r has a parameter there.
LEMMA OtherWord ==
  ASSUME NEW r, NEW s, Takes(r, s), NEW k \in DOMAIN s.path
  PROVE  r.path[k] = s.path[k] \/ r.path[k] = ":id"
BY DEF Takes, MatchesPath, Id

LEMMA SameKind ==
  ASSUME NEW r, NEW s, Takes(r, s) PROVE r.verb = s.verb /\ Words(r.path) = Words(s.path)
BY DEF Takes, MatchesPath, Words

LEMMA BeginsApart ==
  ASSUME NEW B, NEW C, NEW v, NEW w, Begins(B, v), Begins(C, w), v # w, v # ":id"
  PROVE  Apart(B, C)
BY OtherWord DEF Begins, Starts, Apart

\* The third word of the routes below an azit.
Third(r, word) == 3 \in DOMAIN r.path /\ r.path[3] = word
Below(r, word) == Third(r, word) /\ Words(r.path) \in {3, 4, 5, 6}

LEMMA ThirdApart ==
  ASSUME NEW r, NEW s, NEW v, NEW w, Third(r, v), Third(s, w), v # w, v # ":id"
  PROVE  ~ Takes(r, s)
BY OtherWord DEF Third

LEMMA AzitBelow ==
  /\ \A i \in 1..3 : Below(AzitMemberController[i], "members")
  /\ \A i \in 1..5 : /\ Below(AzitScheduleParticipationController[i], "schedules")
                     /\ Words(AzitScheduleParticipationController[i].path) \in {5, 6}
  /\ \A i \in 1..4 : /\ Below(AzitScheduleController[i], "schedules")
                     /\ Words(AzitScheduleController[i].path) \in {3, 4}
  /\ \A i \in 1..4 : /\ Words(AzitController[i].path) \in {1, 2}
                     /\ Words(AzitController[i].path) = 2 => AzitController[i].verb # "POST"
  /\ \A i \in 1..2 : Below(AzitChatController[i], "chat-rooms")
  /\ \A i \in 1..8 : \/ Below(Highlights[i], "highlights")
                     \/ Words(Highlights[i].path) = 2 /\ Highlights[i].verb = "POST"
<1>1. \A i \in 1..3 : Below(AzitMemberController[i], "members")
  BY DEF Below, Third, Words, AzitMemberController, Route
<1>2. \A i \in 1..5 : /\ Below(AzitScheduleParticipationController[i], "schedules")
                      /\ Words(AzitScheduleParticipationController[i].path) \in {5, 6}
  BY DEF Below, Third, Words, AzitScheduleParticipationController, participants, Route
<1>3. \A i \in 1..4 : /\ Below(AzitScheduleController[i], "schedules")
                      /\ Words(AzitScheduleController[i].path) \in {3, 4}
  BY DEF Below, Third, Words, AzitScheduleController, Route
<1>4. \A i \in 1..4 : /\ Words(AzitController[i].path) \in {1, 2}
                      /\ Words(AzitController[i].path) = 2 => AzitController[i].verb # "POST"
  BY DEF Words, AzitController, Route
<1>5. \A i \in 1..2 : Below(AzitChatController[i], "chat-rooms")
  BY DEF Below, Third, Words, AzitChatController, Route
<1>6. /\ Below(HighlightCreateController[1], "highlights")
      /\ Words(HighlightCreateController[2].path) = 2
      /\ HighlightCreateController[2].verb = "POST"
      /\ Below(HighlightCreateController[3], "highlights")
      /\ Below(HighlightCreateController[4], "highlights")
  BY DEF Below, Third, Words, HighlightCreateController, Route
<1>7. \A i \in 1..4 : Below(HighlightCreateControllerEdit[i], "highlights")
  BY DEF Below, Third, Words, HighlightCreateControllerEdit, Route
<1>8. \A i \in 1..8 : \/ Below(Highlights[i], "highlights")
                      \/ Words(Highlights[i].path) = 2 /\ Highlights[i].verb = "POST"
  BY <1>6, <1>7, HighlightsAre
<1> QED BY <1>1, <1>2, <1>3, <1>4, <1>5, <1>8

LEMMA AzitsApart ==
  /\ Apart(AzitMemberController, AzitScheduleParticipationController)
  /\ Apart(AzitMemberController, AzitScheduleController)
  /\ Apart(AzitMemberController, AzitController)
  /\ Apart(AzitMemberController, AzitChatController)
  /\ Apart(AzitMemberController, Highlights)
  /\ Apart(AzitScheduleParticipationController, AzitScheduleController)
  /\ Apart(AzitScheduleParticipationController, AzitController)
  /\ Apart(AzitScheduleParticipationController, AzitChatController)
  /\ Apart(AzitScheduleParticipationController, Highlights)
  /\ Apart(AzitScheduleController, AzitController)
  /\ Apart(AzitScheduleController, AzitChatController)
  /\ Apart(AzitScheduleController, Highlights)
  /\ Apart(AzitController, AzitChatController)
  /\ Apart(AzitController, Highlights)
  /\ Apart(AzitChatController, Highlights)
<1> DEFINE Long(C, w) == \A i \in 1..Len(C) : Below(C[i], w)
           Short(C)   == \A i \in 1..Len(C) : /\ Words(C[i].path) \in {1, 2}
                                              /\ Words(C[i].path) = 2 => C[i].verb # "POST"
           Mixed(C)   == \A i \in 1..Len(C) : \/ Below(C[i], "highlights")
                                              \/ Words(C[i].path) = 2 /\ C[i].verb = "POST"
<1>1. /\ Long(AzitMemberController, "members")
      /\ Long(AzitScheduleParticipationController, "schedules")
      /\ Long(AzitScheduleController, "schedules") /\ Short(AzitController)
      /\ Long(AzitChatController, "chat-rooms") /\ Mixed(Highlights)
  BY AzitBelow, AzitMemberRoutes, ParticipationRoutes, AzitScheduleRoutes, AzitRoutes,
     AzitChatRoutes, HighlightsRoutes
<1>2. \A B, C, v, w : Long(B, v) /\ Long(C, w) /\ v # w /\ v # ":id" => Apart(B, C)
  BY ThirdApart DEF Below, Apart
<1>3. \A B, C, v : Long(B, v) /\ Short(C) => Apart(B, C) /\ Apart(C, B)
  <2> SUFFICES ASSUME NEW B, NEW C, NEW v, Long(B, v), Short(C),
                      NEW i \in 1..Len(B), NEW j \in 1..Len(C)
               PROVE  ~ Takes(B[i], C[j]) /\ ~ Takes(C[j], B[i])
    BY DEF Apart
  <2>1. Words(B[i].path) \in {3, 4, 5, 6} /\ Words(C[j].path) \in {1, 2}
    BY DEF Below
  <2> QED BY <2>1, SameKind
<1>4. \A B, C, v : Long(B, v) /\ Mixed(C) /\ v # "highlights" /\ v # ":id" => Apart(B, C)
  <2> SUFFICES ASSUME NEW B, NEW C, NEW v, Long(B, v), Mixed(C), v # "highlights", v # ":id",
                      NEW i \in 1..Len(B), NEW j \in 1..Len(C)
               PROVE  ~ Takes(B[i], C[j])
    BY DEF Apart
  <2>1. CASE Below(C[j], "highlights")
    BY <2>1, ThirdApart DEF Below
  <2>2. CASE Words(C[j].path) = 2
    BY <2>2, SameKind DEF Below
  <2> QED BY <2>1, <2>2
<1>5. \A B, C : Short(B) /\ Mixed(C) => Apart(B, C)
  BY SameKind DEF Below, Apart
<1>6. Apart(AzitScheduleParticipationController, AzitScheduleController)
  BY AzitBelow, SameKind, ParticipationRoutes, AzitScheduleRoutes DEF Apart
<1> HIDE DEF Long, Short, Mixed
<1> QED BY <1>1, <1>2, <1>3, <1>4, <1>5, <1>6

LEMMA CommunityApart ==
  /\ Apart(CommunityHighlightController, CommunityInteractionController)
  /\ Apart(CommunityHighlightController, CommunityPostController)
  /\ Apart(CommunityInteractionController, CommunityPostController)
<1> DEFINE Second(C, W) == \A i \in 1..Len(C) : 2 \in DOMAIN C[i].path /\ C[i].path[2] \in W
<1>1. Second(CommunityHighlightController, {"highlights"})
  BY CommunityHighlightRoutes DEF CommunityHighlightController, Route
<1>2. Second(CommunityInteractionController, {"likes", "comments"})
  BY CommunityInteractionRoutes DEF CommunityInteractionController, Route
<1>3. Second(CommunityPostController, {"games", "posts", "me"})
  BY CommunityPostRoutes DEF CommunityPostController, Route
<1>4. \A B, C, V, W : Second(B, V) /\ Second(C, W) /\ V \cap W = {} /\ ":id" \notin V
                        => Apart(B, C)
  BY OtherWord DEF Apart
<1> HIDE DEF Second
<1> QED BY <1>1, <1>2, <1>3, <1>4

LEMMA PartiesApart ==
  /\ Apart(PartyCommentController, PartyInteractionController)
  /\ Apart(PartyCommentController, PartyController)
  /\ Apart(PartyInteractionController, PartyController)
<1>1. \A i \in 1..4 : \/ Below(PartyCommentController[i], "comments")
                      \/ /\ Words(PartyCommentController[i].path) = 2
                         /\ Starts(PartyCommentController[i], "comments")
  BY DEF Below, Third, Starts, Words, PartyCommentController, Route
<1>2. \A i \in 1..6 : /\ Words(PartyInteractionController[i].path) = 3
                      /\ 3 \in DOMAIN PartyInteractionController[i].path
                      /\ PartyInteractionController[i].path[3]
                           \in {"applications", "likes", ":id"}
  BY DEF Words, PartyInteractionController, Route, Id
<1>3. \A i \in 1..6 : /\ Words(PartyController[i].path) \in {1, 2}
                      /\ Starts(PartyController[i], "parties")
  BY DEF Words, PartyController, Route, Starts
<1>4. Apart(PartyCommentController, PartyInteractionController)
  <2> SUFFICES ASSUME NEW i \in 1..4, NEW j \in 1..6,
                      Takes(PartyCommentController[i], PartyInteractionController[j])
               PROVE  FALSE
    BY PartyCommentRoutes, PartyInteractionRoutes DEF Apart
  <2>1. Below(PartyCommentController[i], "comments")
    BY <1>1, <1>2, SameKind
  <2> QED BY <2>1, <1>2, OtherWord DEF Below, Third
<1>5. Apart(PartyCommentController, PartyController)
  <2> SUFFICES ASSUME NEW i \in 1..4, NEW j \in 1..6,
                      Takes(PartyCommentController[i], PartyController[j])
               PROVE  FALSE
    BY PartyCommentRoutes, PartyRoutes DEF Apart
  <2>1. Starts(PartyCommentController[i], "comments")
    BY <1>1, <1>3, SameKind DEF Below
  <2> QED BY <2>1, <1>3, OtherWord DEF Starts
<1>6. Apart(PartyInteractionController, PartyController)
  BY <1>2, <1>3, SameKind, PartyInteractionRoutes, PartyRoutes DEF Apart
<1> QED BY <1>4, <1>5, <1>6

LEMMA ChatApart == Apart(ChatController, VoiceController)
<1>1. \A i \in 1..7 : \/ Words(ChatController[i].path) = 2
                      \/ \E w \in {"messages", "upload", "invite", "members"} :
                              Third(ChatController[i], w)
  BY DEF Words, Third, ChatController, Route
<1>2. Third(VoiceController[1], "voice-token") /\ Words(VoiceController[1].path) = 3
  BY DEF Words, Third, VoiceController, Route
<1>3. ASSUME NEW i \in 1..7 PROVE ~ Takes(ChatController[i], VoiceController[1])
  <2>1. CASE Words(ChatController[i].path) = 2
    BY <2>1, <1>2, SameKind
  <2>2. ASSUME NEW w \in {"messages", "upload", "invite", "members"}, Third(ChatController[i], w)
        PROVE  ~ Takes(ChatController[i], VoiceController[1])
    BY <2>2, <1>2, ThirdApart
  <2> QED BY <1>1, <2>1, <2>2
<1> QED BY <1>3, ChatRoutes, VoiceRoutes DEF Apart

LEMMA Controller ==
  /\ DOMAIN Declared = 1..23
  /\ Declared[1][2] = AuthController
  /\ Declared[2][2] = AzitMemberController
  /\ Declared[3][2] = AzitScheduleParticipationController
  /\ Declared[4][2] = AzitScheduleController
  /\ Declared[5][2] = AzitController
  /\ Declared[6][2] = BanController
  /\ Declared[7][2] = AzitChatController
  /\ Declared[8][2] = ChatController
  /\ Declared[9][2] = CommunityHighlightController
  /\ Declared[10][2] = CommunityInteractionController
  /\ Declared[11][2] = CommunityPostController
  /\ Declared[12][2] = FeedbackController
  /\ Declared[13][2] = FriendController
  /\ Declared[14][2] = Highlights
  /\ Declared[15][2] = HighlightMypageController
  /\ Declared[16][2] = PartyCommentController
  /\ Declared[17][2] = PartyInteractionController
  /\ Declared[18][2] = PartyController
  /\ Declared[19][2] = ReportController
  /\ Declared[20][2] = AdminItemController
  /\ Declared[21][2] = ItemController
  /\ Declared[22][2] = UserController
  /\ Declared[23][2] = VoiceController
BY DEF Declared, Highlights

\* No route of a controller is taken by a controller declared before it.
LEMMA ControllersApart ==
  ASSUME NEW l \in 1..23, NEW k \in 1..23, l < k PROVE Apart(Declared[l][2], Declared[k][2])
<1>1. /\ Begins(Declared[1][2], "auth")
      /\ Begins(Declared[2][2], "azits")
      /\ Begins(Declared[3][2], "azits")
      /\ Begins(Declared[4][2], "azits")
      /\ Begins(Declared[5][2], "azits")
      /\ Begins(Declared[6][2], "bans")
      /\ Begins(Declared[7][2], "azits")
      /\ Begins(Declared[8][2], "chat-rooms")
      /\ Begins(Declared[9][2], "community")
      /\ Begins(Declared[10][2], "community")
      /\ Begins(Declared[11][2], "community")
      /\ Begins(Declared[12][2], "feedbacks")
      /\ Begins(Declared[13][2], "friends")
      /\ Begins(Declared[14][2], "azits")
      /\ Begins(Declared[15][2], "highlights")
      /\ Begins(Declared[17][2], "parties")
      /\ Begins(Declared[18][2], "parties")
      /\ Begins(Declared[19][2], "reports")
      /\ Begins(Declared[20][2], "admin")
      /\ Begins(Declared[21][2], "items")
      /\ Begins(Declared[22][2], "users")
      /\ Begins(Declared[23][2], "chat-rooms")
  BY Controller, AuthRoutes, AzitMemberRoutes, ParticipationRoutes, AzitScheduleRoutes,
     AzitRoutes, BanRoutes, AzitChatRoutes, ChatRoutes, CommunityHighlightRoutes,
     CommunityInteractionRoutes, CommunityPostRoutes, FeedbackRoutes, FriendRoutes,
     HighlightsRoutes, HighlightMypageRoutes, PartyInteractionRoutes, PartyRoutes, ReportRoutes,
     AdminItemRoutes, ItemRoutes, UserRoutes, VoiceRoutes
<1> DEFINE FirstWord(i) == CASE i = 1  -> "auth"
                             [] i \in {2, 3, 4, 5, 7, 14} -> "azits"
                             [] i = 6  -> "bans"
                             [] i \in {8, 23} -> "chat-rooms"
                             [] i \in {9, 10, 11} -> "community"
                             [] i = 12 -> "feedbacks"
                             [] i = 13 -> "friends"
                             [] i = 15 -> "highlights"
                             [] i \in {17, 18} -> "parties"
                             [] i = 19 -> "reports"
                             [] i = 20 -> "admin"
                             [] i = 21 -> "items"
                             [] i = 22 -> "users"
<1>2. \A i \in 1..23 : i # 16 => /\ Begins(Declared[i][2], FirstWord(i))
                                 /\ FirstWord(i) \notin {":id", "comments"}
  BY <1>1
<1>3. ASSUME l # 16, k # 16, FirstWord(l) = FirstWord(k)
      PROVE  \/ l \in {2, 3, 4, 5, 7, 14} /\ k \in {2, 3, 4, 5, 7, 14}
             \/ l = 8 /\ k = 23
             \/ l \in {9, 10, 11} /\ k \in {9, 10, 11}
             \/ l = 17 /\ k = 18
  BY <1>3
<1>4. ASSUME NEW i \in 1..23, i # 16, FirstWord(i) # "parties"
      PROVE  Apart(Declared[i][2], Declared[16][2]) /\ Apart(Declared[16][2], Declared[i][2])
  <2>1. BeginsEither(Declared[16][2], "parties", "comments")
    BY Controller, PartyCommentRoutes
  <2>2. PICK w : Begins(Declared[i][2], w) /\ w \notin {":id", "parties", "comments"}
    BY <1>2, <1>4
  <2> PICK C : C = Declared[i][2]
    OBVIOUS
  <2> PICK B : B = Declared[16][2]
    OBVIOUS
  <2>3. ASSUME NEW m \in 1..Len(B), NEW n \in 1..Len(C)
        PROVE  /\ 1 \in DOMAIN B[m].path /\ 1 \in DOMAIN C[n].path
               /\ B[m].path[1] \in {"parties", "comments"} /\ C[n].path[1] = w
    BY <2>1, <2>2 DEF BeginsEither, Begins, Starts
  <2>4. ASSUME NEW m \in 1..Len(B), NEW n \in 1..Len(C)
        PROVE  ~ Takes(B[m], C[n]) /\ ~ Takes(C[n], B[m])
    <3>1. B[m].path[1] # C[n].path[1] /\ B[m].path[1] # ":id" /\ C[n].path[1] # ":id"
      BY <2>2, <2>3
    <3> QED BY <2>3, <3>1, OtherWord, ZenonT(40)
  <2>5. Apart(B, C) /\ Apart(C, B)
    BY <2>4 DEF Apart
  <2> QED BY <2>5
<1>5. \A i \in 1..23 : i # 16 /\ FirstWord(i) = "parties" => i \in {17, 18}
  OBVIOUS
<1>6. CASE l # 16 /\ k # 16 /\ FirstWord(l) # FirstWord(k)
  <2> HIDE DEF FirstWord
  <2> QED BY <1>2, <1>6, BeginsApart
<1>7. CASE l # 16 /\ k # 16 /\ FirstWord(l) = FirstWord(k)
  <2>1. CASE l \in {2, 3, 4, 5, 7, 14} /\ k \in {2, 3, 4, 5, 7, 14}
    BY <2>1, Controller, AzitsApart
  <2>2. CASE l = 8 /\ k = 23
    BY <2>2, Controller, ChatApart
  <2>3. CASE l \in {9, 10, 11} /\ k \in {9, 10, 11}
    BY <2>3, Controller, CommunityApart
  <2>4. CASE l = 17 /\ k = 18
    BY <2>4, Controller, PartiesApart, SMTT(30)
  <2> HIDE DEF FirstWord
  <2> QED BY <1>3, <1>7, <2>1, <2>2, <2>3, <2>4
<1>8. CASE l = 16
  <2>1. CASE FirstWord(k) = "parties"
    BY <1>5, <1>8, <2>1, Controller, PartiesApart
  <2> QED BY <1>4, <1>8, <2>1
<1>9. CASE k = 16
  <2>1. FirstWord(l) # "parties"
    BY <1>5, <1>9
  <2> QED BY <1>4, <1>9, <2>1
<1> QED BY <1>6, <1>7, <1>8, <1>9

LEMMA AllInOrder == \A k \in 1..23 : InOrder(Declared[k][2]) /\ Guarded(Declared[k][2])
BY Controller, AuthRoutes, AzitMemberRoutes, ParticipationRoutes, AzitScheduleRoutes, AzitRoutes,
   BanRoutes, AzitChatRoutes, ChatRoutes, CommunityHighlightRoutes, CommunityInteractionRoutes,
   CommunityPostRoutes, FeedbackRoutes, FriendRoutes, HighlightsRoutes, HighlightMypageRoutes,
   PartyCommentRoutes, PartyInteractionRoutes, PartyRoutes, ReportRoutes, AdminItemRoutes,
   ItemRoutes, UserRoutes, VoiceRoutes

\* tsoa registers the routes in the order of the controllers and of their declarations, and
\* none is hidden by an earlier one: every request is dispatched to the route it asks for.
THEOREM DispatchedAsDeclared == \A p \in Places : Dispatched[p] = p
<1> SUFFICES ASSUME NEW p \in Places PROVE Dispatched[p] = p
  OBVIOUS
<1>1. ASSUME NEW q \in Places, Takes(At(q), At(p)), Precedes(q, p) PROVE FALSE
  <2>1. PICK k \in 1..23 : \E i \in 1..Len(Declared[k][2]) : p = <<k, i>>
    BY PlacesAre, Controller
  <2>2. PICK i \in 1..Len(Declared[k][2]) : p = <<k, i>>
    BY <2>1
  <2>3. PICK l \in 1..23 : \E j \in 1..Len(Declared[l][2]) : q = <<l, j>>
    BY PlacesAre, Controller
  <2>4. PICK j \in 1..Len(Declared[l][2]) : q = <<l, j>>
    BY <2>3
  <2>5. At(p) = Declared[k][2][i] /\ At(q) = Declared[l][2][j]
    BY <2>2, <2>4 DEF At
  <2>6. l < k \/ (l = k /\ j < i)
    BY <1>1, <2>2, <2>4, SMTT(30) DEF Precedes
  <2>7. CASE l < k
    BY <1>1, <2>5, <2>7, ControllersApart DEF Apart
  <2>8. CASE l = k /\ j < i
    BY <1>1, <2>5, <2>8, AllInOrder DEF InOrder
  <2> QED BY <2>6, <2>7, <2>8
<1>2. ASSUME NEW q \in Places, ~ Precedes(p, q), ~ Precedes(q, p) PROVE q = p
  <2>1. PICK k \in 1..23 : \E i \in 1..Len(Declared[k][2]) : p = <<k, i>>
    BY PlacesAre, Controller
  <2>2. PICK i \in 1..Len(Declared[k][2]) : p = <<k, i>>
    BY <2>1
  <2>3. PICK l \in 1..23 : \E j \in 1..Len(Declared[l][2]) : q = <<l, j>>
    BY PlacesAre, Controller
  <2>4. PICK j \in 1..Len(Declared[l][2]) : q = <<l, j>>
    BY <2>3
  <2>5. i \in Nat /\ j \in Nat
    OBVIOUS
  <2>6. ~ (k < l) /\ ~ (k = l /\ i < j) /\ ~ (l < k) /\ ~ (l = k /\ j < i)
    BY <1>2, <2>2, <2>4 DEF Precedes
  <2> QED BY <2>2, <2>4, <2>5, <2>6
<1>3. PICK M : M = Matching(At(p).verb, At(p).path)
  OBVIOUS
<1>4. M \subseteq Places /\ \A q \in M : Takes(At(q), At(p))
  BY <1>3 DEF Matching, Takes
<1>5. p \in M
  BY <1>3 DEF Matching, MatchesPath
<1>6. Dispatched[p] = CHOOSE q \in M : \A r \in M : ~ Precedes(r, q)
  BY <1>3, <1>5 DEF Dispatched
<1>7. \A r \in M : ~ Precedes(r, p)
  BY <1>1, <1>4
<1>8. Dispatched[p] \in M /\ \A r \in M : ~ Precedes(r, Dispatched[p])
  BY <1>5, <1>6, <1>7, SMTT(30)
<1> QED BY <1>2, <1>4, <1>5, <1>7, <1>8

\* A handler that reads req.user is behind the check of the token.
LEMMA UsersAreAskedFor ==
  ASSUME NEW p \in Places, "user" \in At(p).guards PROVE "jwt" \in At(p).guards
<1>1. PICK k \in 1..23 : \E i \in 1..Len(Declared[k][2]) : p = <<k, i>>
  BY PlacesAre, Controller
<1>2. PICK i \in 1..Len(Declared[k][2]) : p = <<k, i>>
  BY <1>1
<1>3. At(p) = Declared[k][2][i]
  BY <1>2 DEF At
<1> QED BY <1>3, AllInOrder DEF Guarded, GuardedBy

\* One controller is shared, and none of its handlers answers without setting the status.
LEMMA SharedController ==
  ASSUME NEW k \in DOMAIN Declared, Declared[k][1] = "CommunityHighlight" PROVE k = 9
<1>1. /\ Declared[1][1] = "Auth" /\ Declared[2][1] = "AzitMember"
      /\ Declared[3][1] = "Participation" /\ Declared[4][1] = "Schedule"
      /\ Declared[5][1] = "Azit" /\ Declared[6][1] = "Ban"
      /\ Declared[7][1] = "AzitChat" /\ Declared[8][1] = "Chat"
      /\ Declared[10][1] = "CommunityInteraction" /\ Declared[11][1] = "CommunityPost"
      /\ Declared[12][1] = "Feedback" /\ Declared[13][1] = "Friend"
      /\ Declared[14][1] = "Highlight" /\ Declared[15][1] = "HighlightMypage"
      /\ Declared[16][1] = "PartyComment" /\ Declared[17][1] = "PartyInteraction"
      /\ Declared[18][1] = "Party" /\ Declared[19][1] = "Report"
      /\ Declared[20][1] = "AdminItem" /\ Declared[21][1] = "Item"
      /\ Declared[22][1] = "User" /\ Declared[23][1] = "Voice"
  BY DEF Declared
<1>2. k \in 1..23
  BY Controller
<1> QED BY <1>1, <1>2

LEMMA SharedSetStatus ==
  ASSUME NEW p \in Places, On(p) \in Shared PROVE "quiet" \notin At(p).guards
<1>1. PICK k \in DOMAIN Declared : \E i \in 1..Len(Declared[k][2]) : p = <<k, i>>
  BY PlacesAre
<1>2. PICK i \in 1..Len(Declared[k][2]) : p = <<k, i>>
  BY <1>1
<1>3. Declared[k][1] = "CommunityHighlight" /\ At(p) = Declared[k][2][i]
  BY <1>2 DEF On, At, Shared
<1>4. Declared[k][2] = CommunityHighlightController
  <2>1. k = 9
    BY <1>3, SharedController
  <2> QED BY <2>1 DEF Declared
<1>5. i \in 1..5
  BY <1>4 DEF CommunityHighlightController
<1> QED BY <1>3, <1>4, <1>5 DEF CommunityHighlightController, Route

\* Routes are found among the declared ones, and a result is kept until it is answered.
SoundConn(q) ==
  /\ q.stage = "received" => q.asked \in Places
  /\ q.stage \in {"routed", "secured", "uploaded", "validated", "called", "returned"} => q.route \in Places
  /\ q.stage \notin {"called", "returned", "done"} => q.result = None
  /\ q.stage \in {"called", "returned"} => q.result \in {200, 404}
  /\ q.stage = "done" /\ q.result # None =>
       \/ q.status = IF "quiet" \in At(q.route).guards THEN 200 ELSE q.result
       \/ On(q.route) \in Shared /\ q.status \in q.others

Conn == [stage: Stages, asked: Places \union {None}, route: Places \union {None},
         token: Callers \union {"bad", None}, valid: BOOLEAN, user: Callers \union {None},
         result: {200, 404, None}, status: Statuses \union {None}, others: SUBSET Statuses]

\* Since its handler returned a request finds its own status, or that of a later return.
StatusesFound ==
  \A c \in Conns :
    conn[c].stage = "returned" /\ Name(c) \in Shared =>
      statusOf[Name(c)] \in conn[c].others \union {conn[c].result}

HttpOK ==
  /\ conn \in [Conns -> Conn]
  /\ DOMAIN statusOf = Controllers
  /\ \A c \in Conns : SoundConn(conn[c])
  /\ StatusesFound

LEMMA IdleConn == Idle \in Conn /\ SoundConn(Idle) /\ Idle.result = None
BY DEF Idle, Conn, SoundConn, Stages

LEMMA ConnFields ==
  ASSUME NEW q \in Conn
  PROVE  /\ \A x \in Stages : [q EXCEPT !.stage = x] \in Conn
         /\ \A x \in Places : [q EXCEPT !.asked = x] \in Conn /\ [q EXCEPT !.route = x] \in Conn
         /\ \A x \in Callers \union {"bad", None} : [q EXCEPT !.token = x] \in Conn
         /\ \A x \in BOOLEAN : [q EXCEPT !.valid = x] \in Conn
         /\ \A x \in Callers \union {None} : [q EXCEPT !.user = x] \in Conn
         /\ \A x : x = 200 \/ x = 404 => [q EXCEPT !.result = x] \in Conn
         /\ \A x \in Statuses : [q EXCEPT !.status = x] \in Conn
         /\ \A x \in SUBSET Statuses : [q EXCEPT !.others = x] \in Conn
<1>1. \A x \in Stages : [q EXCEPT !.stage = x] \in Conn
  BY DEF Conn
<1>2. \A x \in Places : [q EXCEPT !.asked = x] \in Conn
  BY DEF Conn
<1>3. \A x \in Places : [q EXCEPT !.route = x] \in Conn
  BY DEF Conn
<1>4. \A x \in Callers \union {"bad", None} : [q EXCEPT !.token = x] \in Conn
  BY DEF Conn
<1>5. \A x \in BOOLEAN : [q EXCEPT !.valid = x] \in Conn
  BY DEF Conn
<1>6. \A x \in Callers \union {None} : [q EXCEPT !.user = x] \in Conn
  BY DEF Conn
<1>7. \A x : x = 200 \/ x = 404 => [q EXCEPT !.result = x] \in Conn
  BY DEF Conn
<1>8. \A x \in Statuses : [q EXCEPT !.status = x] \in Conn
  BY DEF Conn
<1>9. \A x \in SUBSET Statuses : [q EXCEPT !.others = x] \in Conn
  BY DEF Conn
<1> QED BY <1>1, <1>2, <1>3, <1>4, <1>5, <1>6, <1>7, <1>8, <1>9

LEMMA BecomeOK ==
  ASSUME HttpOK, NEW c \in Conns, NEW q \in Conn, SoundConn(q), q.stage # "returned", Become(c, q),
         UNCHANGED statusOf
  PROVE  HttpOK'
<1>1. /\ conn' \in [Conns -> Conn] /\ conn'[c] = q
      /\ \A d \in Conns : d # c => conn'[d] = conn[d]
  BY DEF HttpOK, Become
<1>2. StatusesFound'
  BY <1>1 DEF HttpOK, StatusesFound, Name
<1>3. \A d \in Conns : SoundConn(conn'[d])
  BY <1>1 DEF HttpOK
<1>4. \A d \in Conns : SoundConn(conn[d])'
  BY <1>3 DEF SoundConn
<1> QED BY <1>1, <1>2, <1>4 DEF HttpOK

LEMMA FailOK ==
  ASSUME HttpOK, NEW c \in Conns, NEW s \in Statuses, Fail(c, s), UNCHANGED statusOf PROVE HttpOK'
<1>1. PICK q : q = [Idle EXCEPT !.stage = "done", !.status = s]
  OBVIOUS
<1>2. q \in Conn /\ q.stage = "done" /\ q.result = None
  <2>1. PICK p \in Conn : p = Idle /\ p.result = None
    BY IdleConn
  <2>2. "done" \in Stages
    BY DEF Stages
  <2>3. q.stage = "done" /\ q.result = None
    BY <1>1, <2>1 DEF Conn
  <2>4. q \in Conn
    <3>1. q = [[p EXCEPT !.stage = "done"] EXCEPT !.status = s]
      BY <1>1, <2>1
    <3> QED BY <2>2, <3>1, ConnFields
  <2> QED BY <2>3, <2>4
<1>3. SoundConn(q)
  BY <1>2 DEF SoundConn
<1> QED BY <1>1, <1>2, <1>3, BecomeOK DEF Fail

\* A request that passes a middleware.
LEMMA GotoOK ==
  ASSUME HttpOK, NEW c \in Conns, NEW s \in {"secured", "uploaded", "validated"}, Goto(c, s),
         conn[c].stage \in {"routed", "secured", "uploaded"}, UNCHANGED statusOf
  PROVE  HttpOK'
<1>1. PICK q : q = [conn[c] EXCEPT !.stage = s]
  OBVIOUS
<1>2. conn[c] \in Conn /\ SoundConn(conn[c])
  BY DEF HttpOK
<1>3. q \in Conn /\ q.stage = s /\ q.route = conn[c].route /\ q.result = conn[c].result
  BY <1>1, <1>2 DEF Conn, Stages
<1>4. SoundConn(q)
  BY <1>2, <1>3 DEF SoundConn
<1> QED BY <1>1, <1>3, <1>4, BecomeOK DEF Goto

\* The service is called and will have the result s.
LEMMA CalledOK ==
  ASSUME HttpOK, NEW c \in Conns, NEW k \in Places, NEW s, s = 200 \/ s = 404,
         Become(c, [Idle EXCEPT !.stage = "called", !.route = k, !.result = s]), UNCHANGED statusOf
  PROVE  HttpOK'
<1>1. PICK p0 \in Conn : p0 = Idle
  BY IdleConn
<1>2. PICK p1 \in Conn : p1 = [p0 EXCEPT !.stage = "called"]
  BY ConnFields DEF Stages
<1>3. PICK p2 \in Conn : p2 = [p1 EXCEPT !.route = k]
  BY ConnFields
<1>4. PICK q \in Conn : q = [p2 EXCEPT !.result = s]
  BY ConnFields, ZenonT(40)
<1>5. q = [Idle EXCEPT !.stage = "called", !.route = k, !.result = s]
  BY <1>1, <1>2, <1>3, <1>4
<1>6. q.stage = "called" /\ q.route = k /\ q.result \in {200, 404}
  BY <1>1, <1>5 DEF Conn
<1>7. SoundConn(q)
  BY <1>6 DEF SoundConn
<1> QED BY <1>5, <1>6, <1>7, BecomeOK

\* What the handlers of a shared controller set.
LEMMA SharedSet ==
  ASSUME HttpOK, NEW c \in Conns, conn[c].stage \in {"called", "returned"}
  PROVE  /\ conn[c].route \in Places /\ conn[c].result \in {200, 404} /\ Name(c) \in Controllers
         /\ Set(c) = IF "quiet" \in Guards(c) THEN None ELSE conn[c].result
         /\ Name(c) \in Shared => Set(c) = conn[c].result /\ Set(c) # None
<1>1. conn[c].route \in Places /\ conn[c].result \in {200, 404}
  BY DEF HttpOK, SoundConn
<1>2. Name(c) \in Controllers
  <2>1. PICK k \in DOMAIN Declared : \E i \in 1..Len(Declared[k][2]) : conn[c].route = <<k, i>>
    BY <1>1, PlacesAre
  <2>2. On(conn[c].route) = Declared[k][1]
    BY <2>1 DEF On
  <2> QED BY <2>2 DEF Name, Controllers
<1>3. Name(c) \in Shared => "quiet" \notin Guards(c)
  BY <1>1, SharedSetStatus DEF Name, Guards
<1>4. None # 200 /\ None # 404
  BY ServerAssumption
<1> QED BY <1>1, <1>2, <1>3, <1>4 DEF Set

\* A handler returns: for the requests that are to respond the status is another's.
LEMMA SetStatusIs ==
  ASSUME HttpOK, NEW c \in Conns, SetStatus(c), NEW d \in Conns
  PROVE  /\ conn'[d] \in Conn /\ conn'[d].stage = IF d = c THEN "returned" ELSE conn[d].stage
         /\ conn'[d].route = conn[d].route /\ conn'[d].result = conn[d].result
         /\ conn'[d].asked = conn[d].asked /\ conn'[d].user = conn[d].user
         /\ conn'[d].token = conn[d].token /\ conn'[d].status = conn[d].status
         /\ conn[d].others \subseteq conn'[d].others
         /\ d \in Sharing(c) /\ Set(c) # None => Set(c) \in conn'[d].others
<1>1. conn[d] \in Conn /\ conn[c].stage = "called"
  BY DEF HttpOK, SetStatus
<1>2. CASE d = c
  <2>1. conn'[d] = [conn[d] EXCEPT !.stage = "returned"] /\ d \notin Sharing(c)
    BY <1>2 DEF SetStatus, Sharing
  <2> QED BY <1>1, <1>2, <2>1 DEF Conn, Stages
<1>3. CASE d # c /\ d \in Sharing(c) /\ Set(c) # None
  <2>1. PICK s : s = Set(c)
    OBVIOUS
  <2>2. conn'[d] = [conn[d] EXCEPT !.others = @ \union {s}]
    BY <1>3, <2>1 DEF SetStatus
  <2>3. s \in Statuses
    BY <1>1, <1>3, <2>1, SharedSet DEF Statuses
  <2> QED BY <1>1, <1>3, <2>1, <2>2, <2>3 DEF Conn
<1>4. CASE d # c /\ ~ (d \in Sharing(c) /\ Set(c) # None)
  <2>1. conn'[d] = conn[d]
    BY <1>4 DEF SetStatus
  <2> QED BY <1>1, <1>4, <2>1
<1> QED BY <1>2, <1>3, <1>4

LEMMA SetStatusOK == ASSUME HttpOK, NEW c \in Conns, SetStatus(c) PROVE HttpOK'
<1>1. /\ conn[c].stage = "called" /\ DOMAIN statusOf = Controllers
      /\ Name(c) \in Controllers /\ conn[c].route \in Places /\ conn[c].result \in {200, 404}
      /\ Name(c) \in Shared => Set(c) = conn[c].result /\ Set(c) # None
  BY SharedSet DEF HttpOK, SetStatus
<1>2. conn' \in [Conns -> Conn]
  <2>1. conn' = [d \in Conns |-> conn'[d]]
    BY DEF SetStatus
  <2> QED BY <2>1, SetStatusIs
<1>3. ASSUME NEW d \in Conns PROVE SoundConn(conn'[d])
  <2>1. SoundConn(conn[d])
    BY DEF HttpOK
  <2>2. PICK q : q = conn'[d]
    OBVIOUS
  <2>3. CASE d = c
    <3>1. q.stage = "returned" /\ q.route = conn[c].route /\ q.result = conn[c].result
      BY <2>2, <2>3, SetStatusIs
    <3> QED BY <1>1, <2>2, <3>1 DEF SoundConn
  <2>4. CASE d # c
    <3>1. /\ q.stage = conn[d].stage /\ q.route = conn[d].route /\ q.result = conn[d].result
          /\ q.asked = conn[d].asked /\ q.status = conn[d].status
          /\ conn[d].others \subseteq q.others
      BY <2>2, <2>4, SetStatusIs
    <3> QED BY <2>1, <2>2, <3>1 DEF SoundConn
  <2> QED BY <2>3, <2>4
<1>4. \A d \in Conns : SoundConn(conn[d])'
  BY <1>3 DEF SoundConn
<1>5. DOMAIN statusOf' = Controllers
  BY <1>1 DEF SetStatus
<1>6. ASSUME NEW d \in Conns, conn'[d].stage = "returned", Name(d)' \in Shared
      PROVE  statusOf'[Name(d)'] \in conn'[d].others \union {conn'[d].result}
  <2>1. PICK n : n = Name(d)
    OBVIOUS
  <2>2. Name(d)' = n /\ n \in Shared
    BY <1>6, <2>1, SetStatusIs DEF Name
  <2>3. CASE d = c
    <3>1. statusOf' = [statusOf EXCEPT ![n] = Set(c)] /\ n \in Controllers /\ Set(c) = conn[c].result
      BY <1>1, <2>1, <2>2, <2>3 DEF SetStatus
    <3> QED BY <1>1, <2>2, <2>3, <3>1, SetStatusIs
  <2>4. CASE d # c /\ Name(c) = n
    <3>1. statusOf' = [statusOf EXCEPT ![n] = Set(c)] /\ n \in Controllers /\ Set(c) # None
      BY <1>1, <2>2, <2>4 DEF SetStatus
    <3>2. d \in Sharing(c)
      BY <1>6, <2>1, <2>2, <2>4, SetStatusIs DEF Sharing
    <3> QED BY <1>1, <2>2, <3>1, <3>2, SetStatusIs
  <2>5. CASE d # c /\ Name(c) # n
    <3>1. statusOf'[n] = statusOf[n]
      BY <2>5 DEF SetStatus
    <3>2. conn[d].stage = "returned"
      BY <1>6, <2>5, SetStatusIs
    <3>3. statusOf[n] \in conn[d].others \union {conn[d].result}
      BY <2>1, <2>2, <3>2 DEF HttpOK, StatusesFound
    <3> QED BY <2>2, <3>1, <3>3, SetStatusIs
  <2> QED BY <2>3, <2>4, <2>5
<1>7. StatusesFound'
  BY <1>6 DEF StatusesFound
<1> QED BY <1>2, <1>4, <1>5, <1>7 DEF HttpOK

LEMMA RespondOK == ASSUME HttpOK, NEW c \in Conns, Respond(c) PROVE HttpOK'
<1>1. /\ conn[c] \in Conn /\ conn[c].stage = "returned" /\ UNCHANGED statusOf
      /\ conn[c].route \in Places /\ conn[c].result \in {200, 404}
      /\ Set(c) = IF "quiet" \in Guards(c) THEN None ELSE conn[c].result
  BY SharedSet DEF HttpOK, Respond
<1>2. PICK found : found = IF Name(c) \in Shared THEN statusOf[Name(c)] ELSE Set(c)
  OBVIOUS
<1>3. PICK status : status = IF found = None THEN 200 ELSE found
  OBVIOUS
<1>4. PICK q : q = [conn[c] EXCEPT !.stage = "done", !.status = status]
  OBVIOUS
<1>5. Become(c, q)
  BY <1>2, <1>3, <1>4 DEF Respond
<1>6. None # 200 /\ None # 404 /\ None \notin Statuses
  BY ServerAssumption DEF Statuses
<1>7. Name(c) \in Shared => found \in conn[c].others \union {conn[c].result}
  BY <1>1, <1>2 DEF HttpOK, StatusesFound
<1>8. conn[c].others \subseteq Statuses
  BY <1>1 DEF Conn
<1>9. Name(c) \in Shared => found \in Statuses /\ status = found
  BY <1>1, <1>3, <1>6, <1>7, <1>8 DEF Statuses
<1>10. Name(c) \notin Shared => status = IF "quiet" \in Guards(c) THEN 200 ELSE conn[c].result
  BY <1>1, <1>2, <1>3, <1>6
<1>11. status \in Statuses
  BY <1>1, <1>9, <1>10 DEF Statuses
<1>12. Name(c) \in Shared => "quiet" \notin Guards(c)
  BY <1>1, SharedSetStatus DEF Name, Guards
<1>13. /\ q \in Conn /\ q.stage = "done" /\ q.route = conn[c].route /\ q.result = conn[c].result
       /\ q.status = status /\ q.others = conn[c].others
  <2>1. PICK p0 \in Conn : p0 = conn[c]
    BY <1>1
  <2>2. PICK p1 \in Conn : p1 = [p0 EXCEPT !.stage = "done"]
    BY ConnFields DEF Stages
  <2>3. q = [p1 EXCEPT !.status = status]
    BY <1>4, <2>1, <2>2
  <2>4. /\ q.stage = "done" /\ q.route = p0.route /\ q.result = p0.result /\ q.status = status
        /\ q.others = p0.others
    BY <1>4, <2>1 DEF Conn
  <2> QED BY <1>11, <2>1, <2>3, <2>4, ConnFields
<1>14. \/ q.status = IF "quiet" \in At(q.route).guards THEN 200 ELSE q.result
       \/ On(q.route) \in Shared /\ q.status \in q.others
  BY <1>7, <1>9, <1>10, <1>12, <1>13 DEF Guards, Name
<1>15. SoundConn(q)
  BY <1>13, <1>14 DEF SoundConn
<1> QED BY <1>1, <1>5, <1>13, <1>15, BecomeOK

LEMMA HttpStepOK == ASSUME HttpOK, NEW c \in Conns, Step(c) PROVE HttpOK'
<1>0. conn[c] \in Conn /\ SoundConn(conn[c])
  BY DEF HttpOK
<1>9. SetStatus(c) \/ UNCHANGED statusOf
  BY DEF Step, Receive, OptionalAuth, Authenticate, UploadFiles, Validate, Call, Respond, Close
<1>10. CASE SetStatus(c)
  BY <1>10, SetStatusOK
<1>11. CASE Respond(c)
  BY <1>11, RespondOK
<1> SUFFICES ASSUME UNCHANGED statusOf, ~ SetStatus(c), ~ Respond(c) PROVE HttpOK'
  BY <1>9, <1>10, <1>11
<1>1. CASE Receive(c)
  <2>1. PICK k \in Places, t \in Callers \union {"bad", None}, v \in BOOLEAN :
          Become(c, [Idle EXCEPT !.stage = "received", !.asked = k, !.token = t, !.valid = v])
    BY <1>1 DEF Receive
  <2>2. PICK q : q = [Idle EXCEPT !.stage = "received", !.asked = k, !.token = t, !.valid = v]
    OBVIOUS
  <2>3. q \in Conn /\ q.stage = "received" /\ q.asked = k /\ q.result = None
    <3>1. PICK p0 \in Conn : p0 = Idle /\ p0.result = None
      BY IdleConn
    <3>2. PICK p1 \in Conn : p1 = [p0 EXCEPT !.stage = "received"]
      BY ConnFields DEF Stages
    <3>3. PICK p2 \in Conn : p2 = [p1 EXCEPT !.asked = k]
      BY ConnFields
    <3>4. PICK p3 \in Conn : p3 = [p2 EXCEPT !.token = t]
      BY ConnFields
    <3>5. q = [p3 EXCEPT !.valid = v]
      BY <2>2, <3>1, <3>2, <3>3, <3>4
    <3>6. q.stage = "received" /\ q.asked = k /\ q.result = None
      BY <2>2, <3>1 DEF Conn
    <3> QED BY <3>5, <3>6, ConnFields
  <2>4. SoundConn(q)
    BY <2>3 DEF SoundConn
  <2> QED BY <2>1, <2>2, <2>3, <2>4, BecomeOK
<1>2. CASE OptionalAuth(c)
  <2>1. conn[c].stage = "received" /\ conn[c].asked \in Places
    BY <1>0, <1>2 DEF OptionalAuth, SoundConn
  <2>2. CASE Dispatched[conn[c].asked] = None
    BY <1>2, <2>2, FailOK DEF OptionalAuth, Statuses
  <2>3. CASE Dispatched[conn[c].asked] # None
    <3>1. PICK k \in Places : k = Dispatched[conn[c].asked]
      BY <2>1, DispatchedAsDeclared
    <3>2. PICK u \in Callers \union {None} :
            u = IF conn[c].token \in Callers THEN conn[c].token ELSE None
      OBVIOUS
    <3>3. PICK q : q = [conn[c] EXCEPT !.stage = "routed", !.route = k, !.user = u]
      OBVIOUS
    <3>4. q \in Conn /\ q.stage = "routed" /\ q.route = k /\ q.result = conn[c].result
      <4>1. PICK p0 \in Conn : p0 = conn[c]
        BY <1>0
      <4>2. PICK p1 \in Conn : p1 = [p0 EXCEPT !.stage = "routed"]
        BY ConnFields DEF Stages
      <4>3. PICK p2 \in Conn : p2 = [p1 EXCEPT !.route = k]
        BY ConnFields
      <4>4. q = [p2 EXCEPT !.user = u]
        BY <3>3, <4>1, <4>2, <4>3
      <4>5. q.stage = "routed" /\ q.route = k /\ q.result = p0.result
        BY <3>3, <4>1 DEF Conn
      <4> QED BY <4>1, <4>4, <4>5, ConnFields
    <3>5. SoundConn(q)
      BY <1>0, <2>1, <3>4 DEF SoundConn
    <3>6. Become(c, q)
      BY <1>2, <2>3, <3>1, <3>2, <3>3 DEF OptionalAuth
    <3> QED BY <3>4, <3>5, <3>6, BecomeOK
  <2> QED BY <2>2, <2>3
<1>3. CASE Authenticate(c)
  <2>1. conn[c].stage = "routed"
    BY <1>3 DEF Authenticate
  <2>2. CASE Goto(c, "secured")
    BY <2>1, <2>2, GotoOK
  <2>3. CASE Fail(c, 401)
    BY <2>3, FailOK DEF Statuses
  <2>4. CASE /\ conn[c].token \in Callers
             /\ Become(c, [conn[c] EXCEPT !.stage = "secured", !.user = conn[c].token])
    <3>1. PICK q : q = [conn[c] EXCEPT !.stage = "secured", !.user = conn[c].token]
      OBVIOUS
    <3>2. q \in Conn /\ q.stage = "secured" /\ q.route = conn[c].route /\ q.result = conn[c].result
      <4>1. PICK p0 \in Conn : p0 = conn[c]
        BY <1>0
      <4>2. PICK p1 \in Conn : p1 = [p0 EXCEPT !.stage = "secured"]
        BY ConnFields DEF Stages
      <4>3. q = [p1 EXCEPT !.user = p0.token] /\ p0.token \in Callers
        BY <2>4, <3>1, <4>1, <4>2
      <4>4. q.stage = "secured" /\ q.route = p0.route /\ q.result = p0.result
        BY <3>1, <4>1 DEF Conn
      <4> QED BY <4>1, <4>3, <4>4, ConnFields
    <3>3. SoundConn(q)
      BY <1>0, <2>1, <3>2 DEF SoundConn
    <3> QED BY <2>4, <3>1, <3>2, <3>3, BecomeOK
  <2> QED BY <1>3, <2>2, <2>3, <2>4 DEF Authenticate
<1>4. CASE UploadFiles(c)
  BY <1>4, GotoOK, FailOK DEF UploadFiles, Statuses
<1>5. CASE Validate(c)
  BY <1>5, GotoOK, FailOK DEF Validate, Statuses
<1>6. CASE Call(c)
  <2>1. CASE Fail(c, 500)
    BY <2>1, FailOK DEF Statuses
  <2>2. CASE \E s \in {200, 404} :
               Become(c, [Idle EXCEPT !.stage = "called", !.route = conn[c].route, !.result = s])
    <3>1. PICK k \in Places : k = conn[c].route
      BY <1>0, <1>6 DEF Call, SoundConn
    <3>2. \/ Become(c, [Idle EXCEPT !.stage = "called", !.route = k, !.result = 200])
          \/ Become(c, [Idle EXCEPT !.stage = "called", !.route = k, !.result = 404])
      BY <2>2, <3>1
    <3> QED BY <3>2, CalledOK, ZenonT(40)
  <2> QED BY <1>6, <2>1, <2>2 DEF Call
<1>8. CASE Close(c)
  <2>1. Idle.stage # "returned"
    BY DEF Idle
  <2> QED BY <1>8, <2>1, IdleConn, BecomeOK DEF Close
<1> QED BY <1>1, <1>2, <1>3, <1>4, <1>5, <1>6, <1>8 DEF Step

HttpPart == which = "http" => HttpOK

LEMMA HttpInit == Init => HttpOK
<1> SUFFICES ASSUME Init PROVE HttpOK
  OBVIOUS
<1>1. conn \in [Conns -> Conn] /\ \A c \in Conns : conn[c] = Idle
  BY IdleConn DEF Init
<1>2. Idle.stage # "returned" /\ SoundConn(Idle)
  BY IdleConn DEF Idle
<1>3. StatusesFound
  BY <1>1, <1>2 DEF StatusesFound
<1>4. DOMAIN statusOf = Controllers
  BY DEF Init
<1> QED BY <1>1, <1>2, <1>3, <1>4 DEF HttpOK

LEMMA HttpPartInit == ServerInit => HttpPart
<1>1. Init => HttpOK
  BY HttpInit
<1> QED BY <1>1 DEF ServerInit, ClientInit, UserInit, AzitInit, HttpPart

LEMMA HttpPartNext == HttpPart /\ [ServerNext]_serverVars => HttpPart'
<1> SUFFICES ASSUME HttpPart, [ServerNext]_serverVars, which' = "http" PROVE HttpOK'
  BY DEF HttpPart
<1>1. CASE UNCHANGED serverVars
  <2>1. which' = which /\ conn' = conn /\ statusOf' = statusOf
    BY <1>1 DEF serverVars, clientParts, http
  <2> QED BY <2>1 DEF HttpPart, HttpOK, StatusesFound, Name
<1>2. CASE ServerNext
  <2>1. which = "http" /\ Next
    BY <1>2 DEF ServerNext, ClientStep, UserStep, AzitStep, HttpStep, SessionStep, ListsStep,
                PresenceStep, AttachmentsStep, ChatStep, MembershipStep, TimesStep, SeatsStep,
                PartyStep
  <2> QED BY <2>1, HttpStepOK DEF HttpPart, Next
<1> QED BY <1>1, <1>2

\* community-highlight.controller.ts:17, a @singleton(): setStatus and getStatus are an await
\* apart, so the status of a response is that of its own result or of a request whose handler
\* returned in between, for any number of requests that share the controller; every handler
\* of it sets one, so no response has a status that is older than its own result.
THEOREM StatusesAreKept == ServerSpec => []StatusesKept
<1>1. HttpPart => StatusesKept
  BY DEF HttpPart, HttpOK, SoundConn, StatusesKept, StatusIsOwn, Guards, Name
<1> QED BY <1>1, HttpPartInit, HttpPartNext, PTL DEF ServerSpec

\* The middlewares before the handler: the route is the one asked for, the user is the owner
\* of the token, and a route that asks for a token has seen one.
ServedConn(q) ==
  /\ q.stage \in {"routed", "secured", "uploaded", "validated"} =>
       /\ q.route = q.asked
       /\ q.user = IF q.token \in Callers THEN q.token ELSE None
  /\ q.stage \in {"secured", "uploaded", "validated"} /\ "jwt" \in At(q.route).guards =>
       q.token \in Callers

Served == \A c \in Conns : ServedConn(conn[c])

LEMMA BecomeServed ==
  ASSUME HttpOK, Served, NEW c \in Conns, NEW q, ServedConn(q), Become(c, q) PROVE Served'
BY DEF Served, Become, HttpOK

LEMMA FailServed ==
  ASSUME HttpOK, Served, NEW c \in Conns, NEW s, Fail(c, s) PROVE Served'
<1>1. PICK q : q = [Idle EXCEPT !.stage = "done", !.status = s]
  OBVIOUS
<1>2. q.stage = "done"
  BY <1>1 DEF Idle
<1>3. ServedConn(q)
  BY <1>2 DEF ServedConn
<1> QED BY <1>1, <1>3, BecomeServed DEF Fail

LEMMA GotoServed ==
  ASSUME HttpOK, Served, NEW c \in Conns, Goto(c, "uploaded") \/ Goto(c, "validated"),
         conn[c].stage \in {"secured", "uploaded"}
  PROVE  Served'
<1>1. PICK s : s \in {"uploaded", "validated"} /\ Goto(c, s)
  OBVIOUS
<1>2. PICK q : q = [conn[c] EXCEPT !.stage = s]
  OBVIOUS
<1>3. conn[c] \in Conn /\ ServedConn(conn[c])
  BY DEF HttpOK, Served
<1>4. /\ q.stage = s /\ q.route = conn[c].route /\ q.asked = conn[c].asked
      /\ q.user = conn[c].user /\ q.token = conn[c].token
  BY <1>2, <1>3 DEF Conn
<1>5. ServedConn(q)
  BY <1>1, <1>3, <1>4 DEF ServedConn
<1> QED BY <1>1, <1>2, <1>5, BecomeServed DEF Goto

LEMMA ServedStep == ASSUME HttpOK, Served, NEW c \in Conns, Step(c) PROVE Served'
<1>0. conn[c] \in Conn /\ SoundConn(conn[c]) /\ ServedConn(conn[c])
  BY DEF HttpOK, Served
<1>1. CASE Receive(c)
  <2>1. PICK k \in Places, t \in Callers \union {"bad", None}, v \in BOOLEAN :
          Become(c, [Idle EXCEPT !.stage = "received", !.asked = k, !.token = t, !.valid = v])
    BY <1>1 DEF Receive
  <2>2. PICK q : q = [Idle EXCEPT !.stage = "received", !.asked = k, !.token = t, !.valid = v]
    OBVIOUS
  <2>3. q.stage = "received"
    BY <2>2 DEF Idle
  <2>4. ServedConn(q)
    BY <2>3 DEF ServedConn
  <2> QED BY <2>1, <2>2, <2>4, BecomeServed
<1>2. CASE OptionalAuth(c)
  <2>1. conn[c].stage = "received" /\ conn[c].asked \in Places
    BY <1>0, <1>2 DEF OptionalAuth, SoundConn
  <2>2. Dispatched[conn[c].asked] = conn[c].asked
    BY <2>1, DispatchedAsDeclared
  <2>3. CASE Fail(c, 404)
    BY <2>3, FailServed
  <2>4. CASE Become(c, [conn[c] EXCEPT !.stage = "routed", !.route = conn[c].asked,
                          !.user = IF conn[c].token \in Callers THEN conn[c].token ELSE None])
    <3>1. PICK u : u = IF conn[c].token \in Callers THEN conn[c].token ELSE None
      OBVIOUS
    <3>2. PICK q : q = [conn[c] EXCEPT !.stage = "routed", !.route = conn[c].asked, !.user = u]
      OBVIOUS
    <3>3. /\ q.stage = "routed" /\ q.route = conn[c].asked /\ q.asked = conn[c].asked
          /\ q.user = u /\ q.token = conn[c].token
      BY <1>0, <3>2 DEF Conn
    <3>4. ServedConn(q)
      BY <3>1, <3>3 DEF ServedConn
    <3> QED BY <2>4, <3>1, <3>2, <3>4, BecomeServed
  <2> QED BY <1>2, <2>2, <2>3, <2>4 DEF OptionalAuth
<1>3. CASE Authenticate(c)
  <2>1. conn[c].stage = "routed"
    BY <1>3 DEF Authenticate
  <2>2. CASE "jwt" \notin Guards(c) /\ Goto(c, "secured")
    <3>1. PICK q : q = [conn[c] EXCEPT !.stage = "secured"]
      OBVIOUS
    <3>2. /\ q.stage = "secured" /\ q.route = conn[c].route /\ q.asked = conn[c].asked
          /\ q.user = conn[c].user /\ q.token = conn[c].token
      BY <1>0, <3>1 DEF Conn
    <3>3. ServedConn(q)
      BY <1>0, <2>1, <2>2, <3>2 DEF ServedConn, Guards
    <3> QED BY <2>2, <3>1, <3>3, BecomeServed DEF Goto
  <2>3. CASE Fail(c, 401)
    BY <2>3, FailServed
  <2>4. CASE /\ conn[c].token \in Callers
             /\ Become(c, [conn[c] EXCEPT !.stage = "secured", !.user = conn[c].token])
    <3>1. PICK q : q = [conn[c] EXCEPT !.stage = "secured", !.user = conn[c].token]
      OBVIOUS
    <3>2. /\ q.stage = "secured" /\ q.route = conn[c].route /\ q.asked = conn[c].asked
          /\ q.user = conn[c].token /\ q.token = conn[c].token
      BY <1>0, <3>1 DEF Conn
    <3>3. ServedConn(q)
      BY <1>0, <2>1, <2>4, <3>2 DEF ServedConn
    <3> QED BY <2>4, <3>1, <3>3, BecomeServed
  <2> QED BY <1>3, <2>2, <2>3, <2>4 DEF Authenticate
<1>4. CASE UploadFiles(c)
  BY <1>4, GotoServed, FailServed DEF UploadFiles
<1>5. CASE Validate(c)
  BY <1>5, GotoServed, FailServed DEF Validate
<1>6. CASE Call(c)
  <2>1. CASE Fail(c, 500)
    BY <2>1, FailServed
  <2>2. CASE \E s \in {200, 404} :
               Become(c, [Idle EXCEPT !.stage = "called", !.route = conn[c].route, !.result = s])
    <3>0. PICK s \in {200, 404} :
            Become(c, [Idle EXCEPT !.stage = "called", !.route = conn[c].route, !.result = s])
      BY <2>2
    <3>1. PICK q : q = [Idle EXCEPT !.stage = "called", !.route = conn[c].route, !.result = s]
      OBVIOUS
    <3>2. q.stage = "called"
      BY <3>1 DEF Idle
    <3>3. ServedConn(q)
      BY <3>2 DEF ServedConn
    <3> QED BY <3>0, <3>1, <3>3, BecomeServed
  <2> QED BY <1>6, <2>1, <2>2 DEF Call
<1>9. CASE SetStatus(c)
  <2>1. ASSUME NEW d \in Conns PROVE ServedConn(conn'[d])
    <3>1. PICK q : q = conn'[d]
      OBVIOUS
    <3>2. /\ q.stage = IF d = c THEN "returned" ELSE conn[d].stage
          /\ q.route = conn[d].route /\ q.asked = conn[d].asked
          /\ q.user = conn[d].user /\ q.token = conn[d].token
      BY <1>9, <3>1, SetStatusIs
    <3>3. ServedConn(conn[d])
      BY DEF Served
    <3> QED BY <3>1, <3>2, <3>3 DEF ServedConn
  <2> QED BY <2>1 DEF Served, ServedConn
<1>7. CASE Respond(c)
  <2>1. PICK s : Become(c, [conn[c] EXCEPT !.stage = "done", !.status = s])
    BY <1>7 DEF Respond
  <2>2. PICK q : q = [conn[c] EXCEPT !.stage = "done", !.status = s]
    OBVIOUS
  <2>3. q.stage = "done"
    BY <1>0, <2>2 DEF Conn
  <2>4. ServedConn(q)
    BY <2>3 DEF ServedConn
  <2> QED BY <2>1, <2>2, <2>4, BecomeServed
<1>8. CASE Close(c)
  <2>1. ServedConn(Idle)
    BY DEF ServedConn, Idle
  <2> QED BY <1>8, <2>1, BecomeServed DEF Close
<1> QED BY <1>1, <1>2, <1>3, <1>4, <1>5, <1>6, <1>7, <1>8, <1>9 DEF Step

ServedPart == which = "http" => HttpOK /\ Served

LEMMA ServedPartInit == ServerInit => ServedPart
<1>1. Init => HttpOK
  BY HttpInit
<1>2. Init => Served
  <2>1. ServedConn(Idle)
    BY DEF ServedConn, Idle
  <2> QED BY <2>1 DEF Init, Served
<1> QED BY <1>1, <1>2 DEF ServerInit, ClientInit, UserInit, AzitInit, ServedPart

LEMMA ServedPartNext == ServedPart /\ [ServerNext]_serverVars => ServedPart'
<1> SUFFICES ASSUME ServedPart, [ServerNext]_serverVars, which' = "http" PROVE (HttpOK /\ Served)'
  BY DEF ServedPart
<1>1. CASE UNCHANGED serverVars
  <2>1. which' = which /\ conn' = conn /\ statusOf' = statusOf
    BY <1>1 DEF serverVars, clientParts, http
  <2> QED BY <2>1 DEF ServedPart, HttpOK, StatusesFound, Name, Served
<1>2. CASE ServerNext
  <2>1. which = "http" /\ Next
    BY <1>2 DEF ServerNext, ClientStep, UserStep, AzitStep, HttpStep, SessionStep, ListsStep,
                PresenceStep, AttachmentsStep, ChatStep, MembershipStep, TimesStep, SeatsStep,
                PartyStep
  <2> QED BY <2>1, HttpStepOK, ServedStep DEF ServedPart, Next
<1> QED BY <1>1, <1>2

\* tsoa registers routes in the order of their declaration and express runs the first that
\* matches: every request is served by the route it was sent for, and no handler that reads
\* req.user runs without the user whose token the request carries.
THEOREM RequestsAreServed == ServerSpec => []RequestsServed
<1>1. ServedPart => RequestsServed
  <2> SUFFICES ASSUME ServedPart, which = "http", NEW c \in Conns
               PROVE  /\ conn[c].stage = "routed" => conn[c].route = conn[c].asked
                      /\ conn[c].stage = "validated" =>
                           /\ conn[c].user = IF conn[c].token \in Callers THEN conn[c].token ELSE None
                           /\ "user" \in Guards(c) => conn[c].user # None
    BY DEF RequestsServed, ServedAsDeclared
  <2>1. SoundConn(conn[c]) /\ ServedConn(conn[c])
    BY DEF ServedPart, HttpOK, Served
  <2>2. conn[c].stage = "validated" /\ "user" \in Guards(c) => "jwt" \in Guards(c)
    BY <2>1, UsersAreAskedFor DEF SoundConn, Guards
  <2>3. None \notin Callers
    BY ServerAssumption
  <2> QED BY <2>1, <2>2, <2>3 DEF ServedConn, Guards
<1> QED BY <1>1, ServedPartInit, ServedPartNext, PTL DEF ServerSpec
-----------------------------------------------------------------------------
(* Paging: a page is read in the order its cursor compares by. *)

\* Where a walk stands.  The rows that cursors leave to be shown; the order and the
\* place of a row in a numbered list, and how many places the pages read so far reach.
Rest ==
  CASE list \in {"mostLiked", "feedbacks"} -> Paged!Behind
    [] list = "schedules"                  -> Paged!Later
    [] list = "highlightsAscending"        -> Paged!Above
    [] OTHER                               -> Paged!Below
PageOrder == IF list \in Paged!OldestPages THEN Paged!Older ELSE Paged!Newer
Place(i)  == Paged!Rank(i, present, PageOrder)
Reached   == IF walk.rows = None THEN (walk.page - 1) * Limit ELSE walk.page * Limit
InRows(i) == walk.rows # None /\ i \in DOMAIN walk.rows

\* Who walks with cursors has been shown what the cursor has passed and nothing else.
Pointed ==
  /\ \A i \in present \ changed :
       /\ shown[i] < 2 \/ i \in Paged!MayRepeat
       /\ walk.pc = "walking" /\ i \in Rest => shown[i] = 0 \/ i \in Paged!MayRepeat
       /\ walk.pc = "done" \/ i \notin Rest => shown[i] > 0 \/ i \in Paged!MayMiss
  /\ list = "chats" /\ walk.cursor # None => walk.cursor.id \in present
  /\ walk.rows # None => /\ list = "mostLiked"
                         /\ walk.rows = Paged!SortedBy(Paged!findPartiesMostLikedWithCursor)

\* Who walks with page numbers has read the places up to Reached while no row was
\* deleted, and nothing behind them while none was put in front.  A total
\* that was read counts every row.  Rows of one createdAt have no place of their own.
Numbered ==
  \A i \in (present \ changed) \ Paged!Tied :
    /\ ~deleted =>
         /\ walk.pc = "done" => shown[i] > 0
         /\ Place(i) < Reached => shown[i] > 0 \/ InRows(i)
         /\ walk.total # None /\ walk.rows = None => Place(i) < walk.total
         /\ walk.total # None /\ walk.rows # None /\ walk.total <= walk.page * Limit
              => shown[i] > 0 \/ InRows(i)
    /\ list \in Paged!OldestPages \/ ~inserted =>
         /\ shown[i] < 2
         /\ walk.pc = "walking" /\ Place(i) >= Reached => shown[i] = 0 /\ ~InRows(i)
         /\ InRows(i) => shown[i] = 0

\* The rows of a list by createdAt were inserted in the order of their ids.
Written == Paged!InOrder(key, present \union changed) /\ changed \subseteq 1..nextId - 1

WalkOK == Written /\ (torn \/ IF list \in Paged!Pages THEN Numbered ELSE Pointed)

\* The order of a numbered list when rows of one createdAt are read in the order t, and
\* the rows of the page asked for; an order that has untied rows in line by their ids.
PageBy(t)   == IF list \in Paged!OldestPages THEN Paged!Oldest(t) ELSE Paged!Newest(t)
PageRows(o) ==
  {i \in present : Paged!Rank(i, present, o) \in (walk.page - 1) * Limit .. walk.page * Limit - 1}
ById(i, j)  == IF list = "highlightsAscending" THEN i < j ELSE i > j
ByIds(Order) ==
  \A i \in present \ Paged!Tied, j \in present : <<i, j>> \in Order <=> ById(i, j)

\* An order that puts any two rows of S in line.
Ordered(S, Order) ==
  /\ \A i \in S : <<i, i>> \notin Order
  /\ \A i, j, k \in S : <<i, j>> \in Order /\ <<j, k>> \in Order => <<i, k>> \in Order
  /\ \A i, j \in S : i = j \/ <<i, j>> \in Order \/ <<j, i>> \in Order

LEMMA CountIs == \A S : Paged!Cardinality(S) = Cardinality(S)
BY DEF Paged!Cardinality, Cardinality

LEMMA RankIs ==
  ASSUME NEW S, IsFiniteSet(S), NEW Order, NEW i,
         NEW Before, Before = {j \in S : <<j, i>> \in Order}
  PROVE  /\ IsFiniteSet(Before) /\ Cardinality(Before) \in Nat
         /\ Paged!Rank(i, S, Order) = Cardinality(Before)
<1>1. Before \in SUBSET S
  OBVIOUS
<1>2. IsFiniteSet(Before) /\ Cardinality(Before) \in Nat
  BY <1>1, FS_Subset, FS_CardinalityType
<1>3. Paged!Rank(i, S, Order) = Cardinality({j \in S : <<j, i>> \in Order})
  BY CountIs DEF Paged!Rank
<1> QED BY <1>2, <1>3

\* A row has fewer rows before it than any row it comes before.
LEMMA Ranks ==
  ASSUME NEW S, IsFiniteSet(S), NEW Order, Ordered(S, Order)
  PROVE  /\ \A i \in S : Paged!Rank(i, S, Order) \in Nat
         /\ \A i, j \in S : <<i, j>> \in Order
              => Paged!Rank(i, S, Order) < Paged!Rank(j, S, Order)
<1> DEFINE Before(i) == {j \in S : <<j, i>> \in Order}
<1>1. \A i \in S : /\ IsFiniteSet(Before(i)) /\ Cardinality(Before(i)) \in Nat
                   /\ Paged!Rank(i, S, Order) = Cardinality(Before(i))
  BY RankIs
<1>2. ASSUME NEW i \in S, NEW j \in S, <<i, j>> \in Order
      PROVE  Cardinality(Before(i)) < Cardinality(Before(j))
  <2>1. Before(i) \subseteq Before(j) /\ i \in Before(j) /\ i \notin Before(i)
    BY <1>2 DEF Ordered
  <2>2. /\ Cardinality(Before(i)) <= Cardinality(Before(j))
        /\ Cardinality(Before(j)) = Cardinality(Before(i)) => Before(j) = Before(i)
    <3> HIDE DEF Before
    <3> QED BY <1>1, <2>1, FS_Subset
  <2> HIDE DEF Before
  <2> QED BY <1>1, <2>1, <2>2
<1> QED BY <1>1, <1>2

LEMMA TakeIs ==
  ASSUME NEW S, IsFiniteSet(S), NEW Order, Ordered(S, Order), NEW n \in Nat
  PROVE  /\ Paged!Take(n, S, Order) \in SUBSET S
         /\ IsFiniteSet(Paged!Take(n, S, Order))
         /\ Cardinality(Paged!Take(n, S, Order)) \in Nat
         /\ \A i \in S : i \in Paged!Take(n, S, Order) <=> Paged!Rank(i, S, Order) < n
         /\ \A i \in S : \A j \in Paged!Take(n, S, Order) :
              <<i, j>> \in Order => i \in Paged!Take(n, S, Order)
<1>1. \A i \in S : i \in Paged!Take(n, S, Order) <=> Paged!Rank(i, S, Order) < n
  BY DEF Paged!Take
<1>2. Paged!Take(n, S, Order) \in SUBSET S
  BY DEF Paged!Take
<1>3. \A i \in S : \A j \in Paged!Take(n, S, Order) :
        <<i, j>> \in Order => i \in Paged!Take(n, S, Order)
  BY <1>1, <1>2, Ranks
<1> QED BY <1>1, <1>2, <1>3, FS_Subset, FS_CardinalityType

\* What has been read has a last row.
LEMMA LastOfTake ==
  ASSUME NEW S, IsFiniteSet(S), NEW Order, Ordered(S, Order), NEW n \in Nat,
         NEW P, P = Paged!Take(n, S, Order), P # {},
         NEW Likewise, \A i, j \in P : <<i, j>> \in Likewise <=> <<i, j>> \in Order
  PROVE  /\ Paged!Last(P, Likewise) \in P
         /\ \A i \in S : i \in P <=> i = Paged!Last(P, Likewise)
                                     \/ <<i, Paged!Last(P, Likewise)>> \in Order
<1>1. /\ P \in SUBSET S
      /\ \A i \in P : Paged!Rank(i, S, Order) \in Nat /\ Paged!Rank(i, S, Order) < n
  BY TakeIs, Ranks
<1> DEFINE Left(i) == n - Paged!Rank(i, S, Order)
           Lefts   == {Left(i) : i \in P}
<1>2. \A i \in P : Left(i) \in Nat
  BY <1>1
<1>3. PICK x \in Lefts : \A y \in Lefts : x <= y
  <2>1. Lefts \in SUBSET Nat /\ Lefts # {}
    <3> HIDE DEF Left
    <3> QED BY <1>2
  <2> QED BY <2>1, LeastOfNumbers
<1>4. PICK last \in P : x = Left(last)
  BY <1>3
<1>5. ASSUME NEW i \in P, i # last PROVE <<i, last>> \in Order
  <2>1. Left(last) <= Left(i)
    BY <1>3, <1>4, <1>5
  <2>2. Paged!Rank(i, S, Order) <= Paged!Rank(last, S, Order)
    BY <2>1, <1>1, <1>4, <1>5
  <2>3. <<last, i>> \notin Order
    BY <2>2, <1>1, <1>5, Ranks
  <2> QED BY <2>3, <1>1, <1>5 DEF Ordered
<1>6. \A i \in P \ {last} : <<i, last>> \in Likewise
  BY <1>5
<1>7. /\ Paged!Last(P, Likewise) \in P
      /\ \A j \in P \ {Paged!Last(P, Likewise)} : <<j, Paged!Last(P, Likewise)>> \in Likewise
  BY <1>6 DEF Paged!Last
<1>8. \A j \in P : j = Paged!Last(P, Likewise) \/ <<j, Paged!Last(P, Likewise)>> \in Order
  BY <1>7
<1> QED BY <1>1, <1>7, <1>8, TakeIs

LEMMA TakeBounded ==
  ASSUME NEW S, IsFiniteSet(S), NEW Order, Ordered(S, Order), NEW n \in Nat
  PROVE  Cardinality(Paged!Take(n, S, Order)) <= n
<1> DEFINE P == Paged!Take(n, S, Order)
<1>1. CASE P = {}
  BY <1>1, FS_EmptySet
<1>2. CASE P # {}
  <2> DEFINE last == Paged!Last(P, Order)
             Before == {j \in S : <<j, last>> \in Order}
  <2>1. last \in P /\ \A i \in S : i \in P <=> i = last \/ <<i, last>> \in Order
    BY <1>2, LastOfTake
  <2>2. P \in SUBSET (Before \union {last})
    BY <2>1, TakeIs
  <2>3. /\ IsFiniteSet(Before) /\ Cardinality(Before) \in Nat
        /\ Paged!Rank(last, S, Order) = Cardinality(Before)
    BY RankIs
  <2>4. Cardinality(Before) < n
    <3> HIDE DEF last, Before
    <3> QED BY <2>1, <2>3, TakeIs
  <2>5. /\ IsFiniteSet(Before \union {last})
        /\ Cardinality(Before \union {last}) <= Cardinality(Before) + 1
        /\ Cardinality(Before \union {last}) \in Nat
    <3> HIDE DEF Before, last
    <3>1. /\ IsFiniteSet(Before \union {last})
          /\ Cardinality(Before \union {last})
               = IF last \in Before THEN Cardinality(Before) ELSE Cardinality(Before) + 1
      BY <2>3, FS_AddElement
    <3> QED BY <2>3, <3>1
  <2>6. Cardinality(P) <= Cardinality(Before \union {last})
    <3> HIDE DEF Before, last, P
    <3> QED BY <2>2, <2>5, FS_Subset
  <2>7. Cardinality(P) \in Nat
    BY TakeIs
  <2>8. Cardinality(P) <= n
    <3> HIDE DEF Before, last, P
    <3> QED BY <2>3, <2>4, <2>5, <2>6, <2>7
  <2> QED BY <2>8
<1> QED BY <1>1, <1>2

\* Who asks for one row more and gets no more than n has read all of them.
LEMMA TakeAll ==
  ASSUME NEW S, IsFiniteSet(S), NEW Order, Ordered(S, Order), NEW n \in Nat,
         Cardinality(Paged!Take(n + 1, S, Order)) <= n
  PROVE  Paged!Take(n, S, Order) = S
<1> DEFINE rank(i) == Paged!Rank(i, S, Order)
           P == Paged!Take(n + 1, S, Order)
           Missed == {i \in S : ~ (rank(i) < n)}
           Missing == {rank(i) : i \in Missed}
<1>1. SUFFICES ASSUME Missed # {} PROVE FALSE
  <2> USE TakeIs
  <2> QED BY DEF Paged!Take
<1>2. \A i \in S : rank(i) \in Nat
  BY Ranks
<1>3. PICK x \in Missing : \A y \in Missing : x <= y
  <2>1. Missing \in SUBSET Nat /\ Missing # {}
    <3> HIDE DEF rank
    <3> QED BY <1>1, <1>2
  <2> QED BY <2>1, LeastOfNumbers
<1>4. PICK first \in Missed : x = rank(first)
  BY <1>3
<1> DEFINE Before == {j \in S : <<j, first>> \in Order}
<1>5. ASSUME NEW j \in Before PROVE j \in P
  <2>1. rank(j) < rank(first)
    BY <1>4, <1>5, Ranks
  <2>2. j \notin Missed
    BY <2>1, <1>2, <1>3, <1>4, <1>5
  <2>3. rank(j) < n + 1
    BY <2>2, <1>2, <1>5
  <2> QED BY <2>3, <1>5, TakeIs
<1>6. IsFiniteSet(P) /\ Cardinality(P) \in Nat
  BY TakeIs
<1>7. IsFiniteSet(Before) /\ Cardinality(Before) \in Nat /\ Cardinality(Before) = rank(first)
  BY RankIs
<1>8. Cardinality(Before) <= Cardinality(P)
  <2>1. Before \in SUBSET P
    BY <1>5
  <2> HIDE DEF Before, P
  <2> QED BY <2>1, <1>6, FS_Subset
<1>9. rank(first) < n + 1
  <2>1. Cardinality(P) <= n
    OBVIOUS
  <2> HIDE DEF P, Before, rank
  <2> QED BY <1>6, <1>7, <1>8, <1>2, <1>4, <2>1
<1>10. first \in P /\ first \notin Before
  BY <1>9, <1>4, TakeIs DEF Ordered
<1>11. /\ Cardinality(Before \union {first}) = Cardinality(Before) + 1
       /\ IsFiniteSet(Before \union {first})
  <2> HIDE DEF Before
  <2> QED BY <1>7, <1>10, FS_AddElement
<1>12. Before \union {first} \in SUBSET P
  BY <1>5, <1>10
<1>13. Cardinality(Before \union {first}) <= Cardinality(P)
  <2> HIDE DEF Before, P
  <2> QED BY <1>12, <1>6, FS_Subset
<1>14. ~ (rank(first) < n)
  BY <1>4
<1> HIDE DEF Before, P, rank, Missed, Missing
<1>15. Cardinality(P) <= n
  BY DEF P
<1> QED BY <1>2, <1>4, <1>6, <1>7, <1>11, <1>13, <1>14, <1>15

\* Reading again from what was read.
LEMMA TakeAgain ==
  ASSUME NEW S, IsFiniteSet(S), NEW Order, Ordered(S, Order), NEW n \in Nat,
         NEW q, q = Paged!Take(n + 1, S, Order),
         NEW Likewise, \A i, j \in q : <<i, j>> \in Likewise <=> <<i, j>> \in Order
  PROVE  Paged!Take(n, q, Likewise) = Paged!Take(n, S, Order)
<1>1. q \in SUBSET S /\ \A i \in S : i \in q <=> Paged!Rank(i, S, Order) < n + 1
  BY TakeIs
<1>2. ASSUME NEW i \in q PROVE Paged!Rank(i, q, Likewise) = Paged!Rank(i, S, Order)
  <2>1. {j \in q : <<j, i>> \in Likewise} = {j \in S : <<j, i>> \in Order}
    BY <1>1, <1>2, TakeIs
  <2> QED BY <2>1 DEF Paged!Rank
<1>3. \A i \in S : Paged!Rank(i, S, Order) \in Nat
  BY Ranks
<1>4. \A i \in S : Paged!Rank(i, S, Order) < n => i \in q
  BY <1>1, <1>3
<1> QED BY <1>1, <1>2, <1>4 DEF Paged!Take

LEMMA TakeSome ==
  ASSUME NEW S, IsFiniteSet(S), S # {}, NEW Order, Ordered(S, Order), NEW n \in Nat \ {0}
  PROVE  Paged!Take(n, S, Order) # {}
<1>1. Paged!Take(0, S, Order) # S
  BY Ranks DEF Paged!Take
<1>2. ~ (Cardinality(Paged!Take(0 + 1, S, Order)) <= 0)
  BY <1>1, TakeAll
<1>3. Paged!Take(1, S, Order) # {}
  BY <1>2, FS_EmptySet
<1>4. PICK i \in S : Paged!Rank(i, S, Order) < 1
  BY <1>3 DEF Paged!Take
<1>5. Paged!Rank(i, S, Order) < n
  BY <1>4, Ranks
<1> QED BY <1>5 DEF Paged!Take

\* The orders of the queries put rows in line.
LEMMA IdsFinite ==
  IsFiniteSet(Paged!Ids) /\ Paged!Ids \subseteq Nat /\ Cardinality(Paged!Ids) = MaxId
<1>1. Paged!Ids \subseteq Nat
  BY ListsAssumption DEF Paged!Ids
<1> QED BY <1>1, ListsAssumption, FS_Interval DEF Paged!Ids

LEMMA NewerOrders ==
  /\ Ordered(Paged!Ids, Paged!Newer) /\ Ordered(Paged!Ids, Paged!Older)
  /\ \A i, j \in Paged!Ids : /\ <<i, j>> \in Paged!Newer <=> i > j
                             /\ <<i, j>> \in Paged!Older <=> i < j
<1>1. \A i, j \in Paged!Ids : /\ <<i, j>> \in Paged!Newer <=> i > j
                              /\ <<i, j>> \in Paged!Older <=> i < j
  BY DEF Paged!Newer, Paged!Older
<1> QED BY <1>1, IdsFinite DEF Ordered

LEMMA HigherOrders ==
  ASSUME NEW S \in SUBSET Paged!Ids, NEW k \in [S -> 0..MaxKey]
  PROVE  /\ Ordered(S, Paged!Higher(k))
         /\ \A i, j \in S : /\ k[i] \in Nat /\ k[j] \in Nat /\ i \in Nat /\ j \in Nat
                            /\ <<i, j>> \in Paged!Higher(k)
                                 <=> k[i] > k[j] \/ (k[i] = k[j] /\ i > j)
<1>1. \A i, j \in S : /\ k[i] \in Nat /\ k[j] \in Nat /\ i \in Nat /\ j \in Nat
                      /\ <<i, j>> \in Paged!Higher(k)
                           <=> k[i] > k[j] \/ (k[i] = k[j] /\ i > j)
  BY IdsFinite, ListsAssumption DEF Paged!Higher
<1> QED BY <1>1 DEF Ordered

LEMMA EarlierOrders ==
  ASSUME key \in [Paged!Ids -> 0..MaxKey]
  PROVE  /\ Ordered(Paged!Ids, Paged!Earlier)
         /\ \A i, j \in Paged!Ids : <<i, j>> \in Paged!Earlier
                                      <=> key[j] > key[i] \/ (key[i] = key[j] /\ j > i)
<1>1. \A i, j \in Paged!Ids :
        /\ <<j, i>> \in Paged!Higher(key) <=> key[j] > key[i] \/ (key[j] = key[i] /\ j > i)
        /\ key[i] \in Nat /\ key[j] \in Nat /\ i \in Nat /\ j \in Nat
  BY HigherOrders
<1>2. \A i, j \in Paged!Ids : <<i, j>> \in Paged!Earlier <=> <<j, i>> \in Paged!Higher(key)
  BY DEF Paged!Earlier
<1>3. \A i, j \in Paged!Ids : /\ <<i, j>> \in Paged!Earlier
                                  <=> key[j] > key[i] \/ (key[i] = key[j] /\ j > i)
                              /\ key[i] \in Nat /\ key[j] \in Nat /\ i \in Nat /\ j \in Nat
  BY <1>1, <1>2
<1> QED BY <1>3 DEF Ordered

LEMMA OrderedSubset ==
  ASSUME NEW S, NEW Order, Ordered(S, Order), NEW T \in SUBSET S PROVE Ordered(T, Order)
BY DEF Ordered

LEMMA TiesOrder ==
  ASSUME key \in [Paged!Ids -> 0..MaxKey], NEW t \in Paged!Ties
  PROVE  /\ Ordered(Paged!Ids, Paged!Newest(t)) /\ Ordered(Paged!Ids, Paged!Oldest(t))
         /\ \A i, j \in Paged!Ids :
              /\ <<i, j>> \in Paged!Newest(t)
                   <=> key[i] > key[j] \/ (key[i] = key[j] /\ t[i] < t[j])
              /\ <<i, j>> \in Paged!Oldest(t)
                   <=> key[i] < key[j] \/ (key[i] = key[j] /\ t[i] < t[j])
<1>1. \A i, j \in Paged!Ids : key[i] \in Nat /\ t[i] \in Nat /\ (t[i] = t[j] => i = j)
  <2>1. /\ t \in [Paged!Ids -> Paged!Ids] /\ Paged!Ids \subseteq Nat
        /\ \A i, j \in Paged!Ids : t[i] = t[j] => i = j
    BY IdsFinite DEF Paged!Ties
  <2>2. \A i \in Paged!Ids : key[i] \in Nat
    BY ListsAssumption
  <2> QED BY <2>1, <2>2
<1>2. \A i, j \in Paged!Ids :
        /\ <<i, j>> \in Paged!Newest(t) <=> key[i] > key[j] \/ (key[i] = key[j] /\ t[i] < t[j])
        /\ <<i, j>> \in Paged!Oldest(t) <=> key[i] < key[j] \/ (key[i] = key[j] /\ t[i] < t[j])
  BY DEF Paged!Newest, Paged!Oldest
<1>3. Ordered(Paged!Ids, Paged!Newest(t))
  BY <1>1, <1>2 DEF Ordered
<1>4. Ordered(Paged!Ids, Paged!Oldest(t))
  BY <1>1, <1>2 DEF Ordered
<1> QED BY <1>2, <1>3, <1>4

\* A row whose createdAt no other has stands where its id puts it.
LEMMA UntiedOrder ==
  ASSUME present \subseteq Paged!Ids, key \in [Paged!Ids -> 0..MaxKey], Written,
         list \in Paged!Dated, NEW t \in Paged!Ties,
         NEW i \in present, i \notin Paged!Tied, NEW j \in present
  PROVE  /\ <<i, j>> \in Paged!Newest(t) <=> i > j
         /\ <<j, i>> \in Paged!Newest(t) <=> j > i
         /\ <<i, j>> \in Paged!Oldest(t) <=> i < j
         /\ <<j, i>> \in Paged!Oldest(t) <=> j < i
<1>1. /\ i \in Paged!Ids /\ j \in Paged!Ids /\ i \in Nat /\ j \in Nat
      /\ key[i] \in Nat /\ key[j] \in Nat
  BY IdsFinite, ListsAssumption
<1>2. t[i] \in Nat /\ t[j] \in Nat
  BY <1>1, IdsFinite DEF Paged!Ties
<1>3. j # i => key[j] # key[i]
  BY <1>1 DEF Paged!Tied
<1>4. (i < j => key[i] <= key[j]) /\ (j < i => key[j] <= key[i])
  BY DEF Written, Paged!InOrder
<1>5. /\ <<i, j>> \in Paged!Newest(t) <=> key[i] > key[j] \/ (key[i] = key[j] /\ t[i] < t[j])
      /\ <<j, i>> \in Paged!Newest(t) <=> key[j] > key[i] \/ (key[j] = key[i] /\ t[j] < t[i])
      /\ <<i, j>> \in Paged!Oldest(t) <=> key[i] < key[j] \/ (key[i] = key[j] /\ t[i] < t[j])
      /\ <<j, i>> \in Paged!Oldest(t) <=> key[j] < key[i] \/ (key[j] = key[i] /\ t[j] < t[i])
  BY <1>1, TiesOrder
<1>6. CASE i = j
  BY <1>1, <1>2, <1>5, <1>6
<1>7. CASE i # j
  BY <1>1, <1>3, <1>4, <1>5, <1>7
<1> QED BY <1>6, <1>7

\* An answer has all rows that are left and is the last one, or the cursor behind its
\* last row.
Shows(page) == /\ shown' = [i \in Paged!Ids |-> IF i \in page /\ shown[i] < 2 THEN shown[i] + 1
                                                ELSE shown[i]]
               /\ UNCHANGED <<Paged!table, Paged!history>>
Stops       == walk' = [walk EXCEPT !.pc = "done", !.rows = None, !.total = None]
GoesTo(w)   == walk' = [w EXCEPT !.rows = None, !.total = None]
EndsWith(page, last, W, Order) ==
  last \in page /\ \A i \in W : i \in page <=> i = last \/ <<i, last>> \in Order

LEMMA AnswerIs ==
  ASSUME NEW W \in SUBSET Paged!Ids, NEW Order, Ordered(W, Order),
         NEW q, q = Paged!Take(Limit + 1, W, Order),
         NEW Likewise, \A i, j \in q : <<i, j>> \in Likewise <=> <<i, j>> \in Order,
         NEW From, \A i \in Paged!Ids : From[i] # None,
         Paged!Answer(q, Likewise, From)
  PROVE  \E page \in SUBSET W :
           /\ Shows(page)
           /\ \/ page = W /\ Stops
              \/ \E last \in page : EndsWith(page, last, W, Order) /\ GoesTo(From[last])
<1> DEFINE page == Paged!Take(Limit, q, Likewise)
           last == Paged!Last(page, Likewise)
<1>1. IsFiniteSet(W) /\ Limit \in Nat /\ Limit + 1 \in Nat /\ Limit > 0
  <2>1. IsFiniteSet(W)
    BY IdsFinite, FS_Subset
  <2> QED BY <2>1, ListsAssumption
<1>2. page = Paged!Take(Limit, W, Order)
  BY <1>1, TakeAgain
<1>3. page \in SUBSET W /\ page \in SUBSET q
  BY <1>1, <1>2, TakeIs DEF Paged!Take
<1>4. /\ Shows(page)
      /\ walk' = IF Paged!NextCursor(q, Likewise, From) = None
                 THEN [walk EXCEPT !.pc = "done", !.rows = None, !.total = None]
                 ELSE [Paged!NextCursor(q, Likewise, From) EXCEPT !.rows = None, !.total = None]
  <2> HIDE DEF page
  <2> QED BY DEF Paged!Answer, Paged!Serve, Shows, page
<1>5. Paged!NextCursor(q, Likewise, From) = IF Cardinality(q) > Limit THEN From[last] ELSE None
  BY CountIs DEF Paged!NextCursor
<1>6. CASE Cardinality(q) > Limit
  <2>1. W # {}
    <3>1. SUFFICES ASSUME W = {} PROVE FALSE
      OBVIOUS
    <3>2. q = {}
      BY <1>1, <3>1, TakeIs
    <3>3. Cardinality(q) = 0
      BY <3>2, FS_EmptySet
    <3> QED BY <1>1, <1>6, <3>3
  <2>2. page # {}
    BY <1>1, <1>2, <2>1, TakeSome
  <2>3. last \in page /\ \A i \in W : i \in page <=> i = last \/ <<i, last>> \in Order
    <3>1. \A i, j \in page : <<i, j>> \in Likewise <=> <<i, j>> \in Order
      BY <1>3
    <3> HIDE DEF page
    <3> QED BY <1>1, <1>2, <2>2, <3>1, LastOfTake
  <2>4. GoesTo(From[last])
    <3>1. From[last] # None
      BY <1>3, <2>3
    <3> HIDE DEF last, page
    <3> QED BY <1>4, <1>5, <1>6, <3>1 DEF GoesTo
  <2> HIDE DEF last, page
  <2> QED BY <1>3, <1>4, <2>3, <2>4 DEF EndsWith
<1>7. CASE ~ (Cardinality(q) > Limit)
  <2>1. Cardinality(q) <= Limit
    BY <1>1, <1>7, TakeIs
  <2>2. page = W
    BY <1>1, <1>2, <2>1, TakeAll
  <2>3. Stops
    <3> HIDE DEF last, page
    <3> QED BY <1>4, <1>5, <1>7 DEF Stops
  <2> HIDE DEF last, page
  <2> QED BY <1>3, <1>4, <2>2, <2>3
<1> QED BY <1>6, <1>7

LEMMA ListTypes ==
  ASSUME Paged!TypeOK
  PROVE  /\ present \subseteq Paged!Ids /\ key \in [Paged!Ids -> 0..MaxKey]
         /\ walk \in Paged!Walk /\ walk.page \in 1..MaxId + 1
         /\ walk.cursor = None \/ (walk.cursor.id \in Nat /\ walk.cursor.key \in Int)
         /\ walk.rows = None \/ walk.rows \in Paged!Rows
         /\ walk.total = None \/ walk.total \in 0..MaxId
<1>1. present \subseteq Paged!Ids
  BY ListsAssumption DEF Paged!TypeOK, Paged!Ids
<1>2. key \in [Paged!Ids -> 0..MaxKey] /\ walk \in Paged!Walk
  BY DEF Paged!TypeOK
<1>3. /\ walk.cursor \in Paged!Cursor \union {None} /\ walk.rows \in Paged!Rows \union {None}
      /\ walk.total \in 0..MaxId \union {None} /\ walk.page \in 1..MaxId + 1
  BY <1>2 DEF Paged!Walk
<1>4. \A c \in Paged!Cursor : c.id \in Paged!Ids /\ c.key \in Int
  BY DEF Paged!Cursor
<1>5. \A c \in Paged!Cursor : c.id \in Nat /\ c.key \in Int
  BY <1>4, IdsFinite
<1> QED BY <1>1, <1>2, <1>3, <1>5

\* What a step that shows a page owes: the rows its cursor leaves were left and not
\* shown, those it passes were passed or are shown.
LEMMA PointedMoves ==
  ASSUME Paged!TypeOK, Pointed, walk.pc = "walking",
         NEW page \in SUBSET Rest, Shows(page), walk'.rows = None,
         list = "chats" /\ walk'.cursor # None => walk'.cursor.id \in present,
         \A i \in present \ changed :
           /\ i \in Paged!MayRepeat => i \in Paged!MayRepeat'
           /\ i \in Paged!MayMiss => i \in Paged!MayMiss',
         \/ walk'.pc = "done" /\ page = Rest
         \/ /\ walk'.pc = "walking"
            /\ \A i \in present \ changed :
                 /\ i \in Rest' => i \in Paged!MayRepeat' \/ (i \in Rest /\ i \notin page)
                 /\ i \notin Rest' => i \in Paged!MayMiss' \/ i \notin Rest \/ i \in page
  PROVE  Pointed'
<1>1. present' = present /\ changed' = changed /\ list' = list
  BY DEF Shows, Paged!table, Paged!history
<1>2. ASSUME NEW i \in present \ changed
      PROVE  /\ shown'[i] < 2 \/ i \in Paged!MayRepeat'
             /\ walk'.pc = "walking" /\ i \in Rest' => shown'[i] = 0 \/ i \in Paged!MayRepeat'
             /\ walk'.pc = "done" \/ i \notin Rest' => shown'[i] > 0 \/ i \in Paged!MayMiss'
  <2>1. i \in Paged!Ids /\ shown[i] \in 0..2
    BY ListsAssumption DEF Paged!TypeOK, Paged!Ids
  <2>2. /\ i \in page => shown'[i] > 0 /\ (shown[i] = 0 => shown'[i] < 2)
        /\ i \notin page => shown'[i] = shown[i]
    BY <2>1 DEF Shows
  <2>3. /\ shown[i] < 2 \/ i \in Paged!MayRepeat
        /\ i \in Rest => shown[i] = 0 \/ i \in Paged!MayRepeat
        /\ i \notin Rest => shown[i] > 0 \/ i \in Paged!MayMiss
    BY DEF Pointed
  <2> QED BY <2>1, <2>2, <2>3
<1>3. \A i \in (present \ changed)' :
        /\ shown'[i] < 2 \/ i \in Paged!MayRepeat'
        /\ walk'.pc = "walking" /\ i \in Rest' => shown'[i] = 0 \/ i \in Paged!MayRepeat'
        /\ walk'.pc = "done" \/ i \notin Rest' => shown'[i] > 0 \/ i \in Paged!MayMiss'
  BY <1>1, <1>2
<1> QED BY <1>1, <1>3 DEF Pointed

\* What a time is read back as.
Parsed(t, shift) == Paged!WholeSecond(t) + shift

LEMMA ParsedTimes == \A t \in 0..MaxKey, s \in Shifts : t \in Int /\ Parsed(t, s) \in Int
BY ListsAssumption DEF Parsed, Paged!WholeSecond

LEMMA NextCursors ==
  ASSUME Paged!TypeOK, NEW i \in Paged!Ids
  PROVE  /\ Paged!FromRow[i] \in Paged!Walk /\ Paged!FromRow[i].pc = walk.pc
         /\ Paged!FromRow[i].cursor = [id |-> i, key |-> 0]
         /\ Paged!FromRow[i].cut = walk.cut
         /\ Paged!FromLikes[i] \in Paged!Walk /\ Paged!FromLikes[i].pc = walk.pc
         /\ Paged!FromLikes[i].cursor = [id |-> i, key |-> key[i]]
         /\ Paged!FromLikes[i].cut = walk.cut
         /\ \A w \in Paged!Walk : w # None
<1>1. walk \in Paged!Walk /\ key[i] \in Int
  BY ListTypes, ListsAssumption
<1>2. \A c \in Paged!Cursor : /\ [walk EXCEPT !.cursor = c] \in Paged!Walk
                              /\ [walk EXCEPT !.cursor = c].cursor = c
                              /\ [walk EXCEPT !.cursor = c].pc = walk.pc
                              /\ [walk EXCEPT !.cursor = c].cut = walk.cut
  BY <1>1 DEF Paged!Walk
<1>3. /\ Paged!FromRow[i] = [walk EXCEPT !.cursor = [id |-> i, key |-> 0]]
      /\ Paged!FromLikes[i] = [walk EXCEPT !.cursor = [id |-> i, key |-> key[i]]]
  BY DEF Paged!FromRow, Paged!FromLikes
<1>4. \A w \in Paged!Walk : w # None
  BY ListsAssumption
<1>5. [id |-> i, key |-> 0] \in Paged!Cursor /\ [id |-> i, key |-> key[i]] \in Paged!Cursor
  BY <1>1 DEF Paged!Cursor
<1> QED BY <1>2, <1>3, <1>4, <1>5

LEMMA TimeCursors ==
  ASSUME Paged!TypeOK, NEW i \in Paged!Ids, NEW s \in Shifts
  PROVE  /\ Paged!FromTime(s)[i] \in Paged!Walk /\ Paged!FromTime(s)[i].pc = walk.pc
         /\ Paged!FromTime(s)[i].cursor = [id |-> i, key |-> Parsed(key[i], s)]
         /\ Paged!FromTime(s)[i].cut
              = IF Parsed(key[i], s) = key[i] THEN walk.cut
                ELSE walk.cut \union {<<key[i], Parsed(key[i], s)>>}
<1>1. walk \in Paged!Walk /\ key[i] \in 0..MaxKey
  BY ListTypes
<1>2. Parsed(key[i], s) \in Int
  BY <1>1, ParsedTimes
<1> DEFINE c == [id |-> i, key |-> Parsed(key[i], s)]
           times == IF Parsed(key[i], s) = key[i] THEN walk.cut
                    ELSE walk.cut \union {<<key[i], Parsed(key[i], s)>>}
<1>3. Paged!FromTime(s)[i] = [walk EXCEPT !.cursor = c, !.cut = times]
  BY DEF Paged!FromTime, Parsed
<1>4. c \in Paged!Cursor
  BY <1>2 DEF Paged!Cursor
<1>5. times \in SUBSET ((0..MaxKey) \X Int)
  <2>1. walk.cut \in SUBSET ((0..MaxKey) \X Int)
    BY <1>1 DEF Paged!Walk
  <2> QED BY <1>1, <1>2, <2>1
<1> HIDE DEF c, times
<1>6. /\ Paged!FromTime(s)[i] \in Paged!Walk /\ Paged!FromTime(s)[i].pc = walk.pc
      /\ Paged!FromTime(s)[i].cursor = c /\ Paged!FromTime(s)[i].cut = times
  BY <1>1, <1>3, <1>4, <1>5 DEF Paged!Walk
<1> QED BY <1>6 DEF c, times

LEMMA Goes ==
  ASSUME NEW w \in Paged!Walk, GoesTo(w)
  PROVE  /\ walk' \in Paged!Walk /\ walk'.rows = None /\ walk'.total = None
         /\ walk'.pc = w.pc /\ walk'.cursor = w.cursor /\ walk'.cut = w.cut /\ walk'.page = w.page
BY DEF GoesTo, Paged!Walk

LEMMA Stopped ==
  ASSUME Paged!TypeOK, Stops
  PROVE  /\ walk' \in Paged!Walk /\ walk'.rows = None /\ walk'.total = None
         /\ walk'.pc = "done" /\ walk'.cursor = walk.cursor /\ walk'.cut = walk.cut
         /\ walk'.page = walk.page
BY DEF Stops, Paged!TypeOK, Paged!Walk

\* The last page has all that is left.
LEMMA StopMoves ==
  ASSUME Paged!TypeOK, Pointed, walk.pc = "walking", Shows(Rest), Stops
  PROVE  Pointed'
<1>1. /\ present' = present /\ changed' = changed /\ list' = list /\ torn' = torn /\ key' = key
      /\ inserted' = inserted /\ deleted' = deleted
  BY DEF Shows, Paged!table, Paged!history
<1>2. walk'.rows = None /\ walk'.pc = "done" /\ walk'.cursor = walk.cursor /\ walk'.cut = walk.cut
  BY Stopped
<1>3. \A i \in present \ changed : /\ i \in Paged!MayRepeat => i \in Paged!MayRepeat'
                                   /\ i \in Paged!MayMiss => i \in Paged!MayMiss'
  BY <1>1, <1>2 DEF Paged!MayRepeat, Paged!MayMiss, Paged!Ahead, Paged!Back, Paged!Tied
<1>4. list = "chats" /\ walk'.cursor # None => walk'.cursor.id \in present
  BY <1>2 DEF Pointed
<1> QED BY <1>2, <1>3, <1>4, PointedMoves

\* Cursors that name the row: the newest first and the oldest first.
LEMMA RowMoves ==
  ASSUME Paged!TypeOK, Pointed, ~ torn, list \notin Paged!Pages, walk.pc = "walking",
         list \notin {"mostLiked", "feedbacks", "schedules"},
         NEW page \in SUBSET Rest, Shows(page),
         NEW Order, ByIds(Order),
         NEW last \in page, EndsWith(page, last, Rest, Order), GoesTo(Paged!FromRow[last])
  PROVE  Pointed'
<1>1. /\ present' = present /\ changed' = changed /\ list' = list /\ torn' = torn /\ key' = key
      /\ inserted' = inserted /\ deleted' = deleted
  BY DEF Shows, Paged!table, Paged!history
<1>2. present \subseteq Paged!Ids /\ Paged!Ids \subseteq Nat
  BY IdsFinite, ListsAssumption DEF Paged!TypeOK, Paged!Ids
<1>3. last \in Rest /\ last \in present
  BY DEF Rest, Paged!Above, Paged!Below
<1>4. /\ walk'.rows = None /\ walk'.pc = "walking" /\ walk'.cut = walk.cut
      /\ walk'.cursor = [id |-> last, key |-> 0] /\ walk'.cursor # None
  <2>1. [id |-> last, key |-> 0] \in Paged!Cursor
    BY <1>2, <1>3, ListsAssumption DEF Paged!Cursor
  <2>2. Paged!FromRow[last].pc = walk.pc
    BY <1>2, <1>3, NextCursors
  <2>3. /\ Paged!FromRow[last] \in Paged!Walk /\ Paged!FromRow[last].cut = walk.cut
        /\ Paged!FromRow[last].cursor = [id |-> last, key |-> 0]
    BY <1>2, <1>3, NextCursors
  <2>4. /\ walk'.rows = None /\ walk'.pc = Paged!FromRow[last].pc
        /\ walk'.cut = Paged!FromRow[last].cut /\ walk'.cursor = Paged!FromRow[last].cursor
    BY <2>3, Goes
  <2> QED BY <2>1, <2>2, <2>3, <2>4, ListsAssumption
<1>5. \A i \in present \ changed : /\ i \in Paged!MayRepeat => i \in Paged!MayRepeat'
                                   /\ i \in Paged!MayMiss => i \in Paged!MayMiss'
  BY <1>1, <1>4 DEF Paged!MayRepeat, Paged!MayMiss, Paged!Ahead, Paged!Back, Paged!Tied
<1>6. walk'.cursor.id = last
  BY <1>4
<1>7. list = "chats" /\ walk'.cursor # None => walk'.cursor.id \in present
  BY <1>3, <1>6
<1>8. ASSUME NEW i \in present, i \notin Paged!Tied
      PROVE  /\ i \in Rest' => i \in Rest /\ i \notin page
             /\ i \notin Rest' => i \notin Rest \/ i \in page
  <2>1. i \in Nat /\ last \in Nat /\ (walk.cursor = None \/ walk.cursor.id \in Nat)
    BY <1>2, <1>3, ListTypes
  <2>2. i \in Rest => (i \in page <=> i = last \/ ById(i, last))
    BY <1>3, <1>8 DEF EndsWith, ByIds
  <2>3. CASE list # "highlightsAscending"
    <3>1. (i \in Rest <=> walk.cursor = None \/ i < walk.cursor.id) /\ (i \in Rest' <=> i < last)
      BY <1>1, <1>4, <1>6, <2>3 DEF Rest, Paged!Below, Paged!Pages
    <3>2. last \in Rest => walk.cursor = None \/ last < walk.cursor.id
      BY <2>3 DEF Rest, Paged!Below
    <3> QED BY <1>3, <2>1, <2>2, <2>3, <3>1, <3>2 DEF ById
  <2>4. CASE list = "highlightsAscending"
    <3>1. (i \in Rest <=> walk.cursor = None \/ i > walk.cursor.id) /\ (i \in Rest' <=> i > last)
      BY <1>1, <1>4, <1>6, <2>4 DEF Rest, Paged!Above, Paged!Pages
    <3>2. last \in Rest => walk.cursor = None \/ last > walk.cursor.id
      BY <2>4 DEF Rest, Paged!Above
    <3> QED BY <1>3, <2>1, <2>2, <2>4, <3>1, <3>2 DEF ById
  <2> QED BY <2>3, <2>4
<1>9. Paged!Tied' = Paged!Tied /\ Paged!Tied \subseteq Paged!MayRepeat \intersect Paged!MayMiss
  BY <1>1 DEF Paged!Tied, Paged!MayRepeat, Paged!MayMiss
<1>10. \A i \in present \ changed :
         /\ i \in Rest' => i \in Paged!MayRepeat' \/ (i \in Rest /\ i \notin page)
         /\ i \notin Rest' => i \in Paged!MayMiss' \/ i \notin Rest \/ i \in page
  BY <1>5, <1>8, <1>9
<1> QED BY <1>4, <1>5, <1>7, <1>10, PointedMoves

\* Cursors that name a row and the value it is sorted by: likes, which are exact, and
\* times, which are read back as others.
LEMMA LikesMoves ==
  ASSUME Paged!TypeOK, Pointed, ~ torn, list = "mostLiked", walk.pc = "walking",
         NEW page \in SUBSET Rest, Shows(page), NEW last \in page,
         EndsWith(page, last, Rest, Paged!Higher(key)), GoesTo(Paged!FromLikes[last])
  PROVE  Pointed'
<1>1. /\ present' = present /\ changed' = changed /\ list' = list /\ torn' = torn /\ key' = key
      /\ inserted' = inserted /\ deleted' = deleted
  BY DEF Shows, Paged!table, Paged!history
<1>2. present \subseteq Paged!Ids /\ key \in [Paged!Ids -> 0..MaxKey]
  BY ListTypes
<1>3. last \in Rest /\ last \in present /\ last \in Paged!Ids
  BY <1>2 DEF Rest, Paged!Behind
<1>4. /\ walk'.rows = None /\ walk'.pc = "walking" /\ walk'.cut = walk.cut
      /\ walk'.cursor = [id |-> last, key |-> key[last]]
  <2>1. /\ Paged!FromLikes[last] \in Paged!Walk /\ Paged!FromLikes[last].cut = walk.cut
        /\ Paged!FromLikes[last].cursor = [id |-> last, key |-> key[last]]
        /\ Paged!FromLikes[last].pc = walk.pc
    BY <1>3, NextCursors
  <2> QED BY <2>1, Goes
<1>5. walk'.cursor # None
  BY <1>2, <1>3, <1>4, ListsAssumption DEF Paged!Cursor
<1>6. \A i \in present \ changed : /\ i \in Paged!MayRepeat => i \in Paged!MayRepeat'
                                   /\ i \in Paged!MayMiss => i \in Paged!MayMiss'
  BY <1>1, <1>4 DEF Paged!MayRepeat, Paged!MayMiss, Paged!Ahead, Paged!Back, Paged!Tied
<1>7. /\ \A i \in present : i \in Rest <=> \/ walk.cursor = None \/ key[i] < walk.cursor.key
                                           \/ key[i] = walk.cursor.key /\ i < walk.cursor.id
      /\ \A i \in present : i \in Rest' <=> key[i] < key[last] \/ (key[i] = key[last] /\ i < last)
  BY <1>1, <1>4, <1>5 DEF Rest, Paged!Behind
<1>8. \A i \in Rest :
        i \in page <=> i = last \/ key[i] > key[last] \/ (key[i] = key[last] /\ i > last)
  <2>1. Rest \subseteq Paged!Ids
    BY <1>2 DEF Rest, Paged!Behind
  <2> QED BY <1>2, <1>3, <2>1, HigherOrders DEF EndsWith
<1>9. ASSUME NEW i \in present
      PROVE  /\ i \in Rest' => i \in Rest /\ i \notin page
             /\ i \notin Rest' => i \notin Rest \/ i \in page
  <2>1. i \in Nat /\ last \in Nat /\ key[i] \in Nat /\ key[last] \in Nat
    BY <1>2, <1>3, IdsFinite, ListsAssumption
  <2>2. walk.cursor = None \/ (walk.cursor.id \in Nat /\ walk.cursor.key \in Int)
    BY ListTypes
  <2> QED BY <1>3, <1>7, <1>8, <2>1, <2>2
<1>10. \A i \in present \ changed :
         /\ i \in Rest' => i \in Paged!MayRepeat' \/ (i \in Rest /\ i \notin page)
         /\ i \notin Rest' => i \in Paged!MayMiss' \/ i \notin Rest \/ i \in page
  BY <1>9
<1> QED BY <1>4, <1>6, <1>10, PointedMoves

LEMMA TimesMoves ==
  ASSUME Paged!TypeOK, Pointed, ~ torn, list \in {"feedbacks", "schedules"}, walk.pc = "walking",
         NEW page \in SUBSET Rest, Shows(page), NEW last \in page, NEW s \in Shifts,
         NEW Order, Order = IF list = "feedbacks" THEN Paged!Higher(key) ELSE Paged!Earlier,
         EndsWith(page, last, Rest, Order), GoesTo(Paged!FromTime(s)[last])
  PROVE  Pointed'
<1>1. /\ present' = present /\ changed' = changed /\ list' = list /\ torn' = torn /\ key' = key
      /\ inserted' = inserted /\ deleted' = deleted
  BY DEF Shows, Paged!table, Paged!history
<1>2. present \subseteq Paged!Ids /\ key \in [Paged!Ids -> 0..MaxKey]
  BY ListTypes
<1>3. last \in Rest /\ last \in present /\ last \in Paged!Ids
  BY <1>2 DEF Rest, Paged!Behind, Paged!Later
<1>4. PICK time : time = Parsed(key[last], s)
  OBVIOUS
<1>5. /\ walk'.rows = None /\ walk'.pc = "walking"
      /\ walk'.cut = IF time = key[last] THEN walk.cut ELSE walk.cut \union {<<key[last], time>>}
      /\ walk'.cursor = [id |-> last, key |-> time]
  <2>1. /\ Paged!FromTime(s)[last] \in Paged!Walk /\ Paged!FromTime(s)[last].pc = walk.pc
        /\ Paged!FromTime(s)[last].cut
             = IF time = key[last] THEN walk.cut ELSE walk.cut \union {<<key[last], time>>}
        /\ Paged!FromTime(s)[last].cursor = [id |-> last, key |-> time]
    BY <1>3, <1>4, TimeCursors
  <2> QED BY <2>1, Goes
<1>6. time \in Int /\ walk'.cursor # None
  <2>1. time \in Int
    BY <1>2, <1>3, <1>4, ParsedTimes
  <2>2. [id |-> last, key |-> time] \in Paged!Cursor
    BY <1>3, <2>1 DEF Paged!Cursor
  <2> QED BY <1>5, <2>1, <2>2, ListsAssumption
<1>7. ASSUME NEW i \in present \ changed
      PROVE  /\ i \in Paged!MayRepeat => i \in Paged!MayRepeat'
             /\ i \in Paged!MayMiss => i \in Paged!MayMiss'
             /\ time # key[last] /\ key[last] <= key[i] /\ key[i] <= time =>
                  /\ list = "feedbacks" => i \in Paged!MayRepeat'
                  /\ list = "schedules" => i \in Paged!MayMiss'
             /\ time # key[last] /\ time <= key[i] /\ key[i] <= key[last] =>
                  /\ list = "feedbacks" => i \in Paged!MayMiss'
                  /\ list = "schedules" => i \in Paged!MayRepeat'
  <2>1. i \in Paged!Ids /\ key'[i] = key[i]
    BY <1>1, <1>2
  <2>2. walk.cut \subseteq walk'.cut /\ (time # key[last] => <<key[last], time>> \in walk'.cut)
    BY <1>5
  <2>3. /\ i \in Paged!Ahead => i \in Paged!Ahead'
        /\ i \in Paged!Back => i \in Paged!Back'
        /\ time # key[last] /\ key[last] <= key[i] /\ key[i] <= time => i \in Paged!Ahead'
        /\ time # key[last] /\ time <= key[i] /\ key[i] <= key[last] => i \in Paged!Back'
    BY <2>1, <2>2 DEF Paged!Ahead, Paged!Back
  <2>4. Paged!Tied' = Paged!Tied
    BY <1>1 DEF Paged!Tied
  <2> QED BY <1>1, <2>1, <2>3, <2>4
          DEF Paged!MayRepeat, Paged!MayMiss, Paged!Pages, Paged!NewestPages, Paged!OldestPages
<1>8. ASSUME NEW i \in present
      PROVE  /\ i \in Nat /\ last \in Nat /\ key[i] \in Nat /\ key[last] \in Nat
             /\ walk.cursor = None \/ (walk.cursor.id \in Nat /\ walk.cursor.key \in Int)
  BY <1>2, <1>3, IdsFinite, ListTypes, ListsAssumption
<1>9. CASE list = "feedbacks"
  <2>1. /\ \A i \in present : i \in Rest <=> \/ walk.cursor = None \/ key[i] < walk.cursor.key
                                             \/ key[i] = walk.cursor.key /\ i < walk.cursor.id
        /\ \A i \in present : i \in Rest' <=> key[i] < time \/ (key[i] = time /\ i < last)
    BY <1>1, <1>5, <1>6, <1>9 DEF Rest, Paged!Behind
  <2>2. \A i \in Rest :
          i \in page <=> i = last \/ key[i] > key[last] \/ (key[i] = key[last] /\ i > last)
    <3>1. Rest \subseteq Paged!Ids
      BY <1>2, <1>9 DEF Rest, Paged!Behind
    <3> QED BY <1>2, <1>3, <1>9, <3>1, HigherOrders DEF EndsWith
  <2>3. ASSUME NEW i \in present
        PROVE  /\ i \in Rest' => \/ time # key[last] /\ key[last] <= key[i] /\ key[i] <= time
                                 \/ i \in Rest /\ i \notin page
               /\ i \notin Rest' => \/ time # key[last] /\ time <= key[i] /\ key[i] <= key[last]
                                    \/ i \notin Rest \/ i \in page
    BY <1>3, <1>6, <1>8, <2>1, <2>2
  <2>4. \A i \in present \ changed :
          /\ i \in Rest' => i \in Paged!MayRepeat' \/ (i \in Rest /\ i \notin page)
          /\ i \notin Rest' => i \in Paged!MayMiss' \/ i \notin Rest \/ i \in page
    BY <1>7, <1>9, <2>3
  <2> QED BY <1>5, <1>7, <1>9, <2>4, PointedMoves
<1>10. CASE list = "schedules"
  <2>1. /\ \A i \in present : i \in Rest <=> \/ walk.cursor = None \/ key[i] > walk.cursor.key
                                             \/ key[i] = walk.cursor.key /\ i > walk.cursor.id
        /\ \A i \in present : i \in Rest' <=> key[i] > time \/ (key[i] = time /\ i > last)
    BY <1>1, <1>5, <1>6, <1>10 DEF Rest, Paged!Later
  <2>2. \A i \in Rest :
          i \in page <=> i = last \/ key[last] > key[i] \/ (key[i] = key[last] /\ last > i)
    <3>1. Rest \subseteq Paged!Ids
      BY <1>2, <1>10 DEF Rest, Paged!Later
    <3> QED BY <1>2, <1>3, <1>10, <3>1, EarlierOrders DEF EndsWith
  <2>3. ASSUME NEW i \in present
        PROVE  /\ i \in Rest' => \/ time # key[last] /\ time <= key[i] /\ key[i] <= key[last]
                                 \/ i \in Rest /\ i \notin page
               /\ i \notin Rest' => \/ time # key[last] /\ key[last] <= key[i] /\ key[i] <= time
                                    \/ i \notin Rest \/ i \in page
    BY <1>3, <1>6, <1>8, <2>1, <2>2
  <2>4. \A i \in present \ changed :
          /\ i \in Rest' => i \in Paged!MayRepeat' \/ (i \in Rest /\ i \notin page)
          /\ i \notin Rest' => i \in Paged!MayMiss' \/ i \notin Rest \/ i \in page
    BY <1>7, <1>10, <2>3
  <2> QED BY <1>5, <1>7, <1>10, <2>4, PointedMoves
<1> QED BY <1>9, <1>10

\* A list of one order, answered by Answer with cursors of one kind.
LEMMA RowsAnswered ==
  ASSUME Paged!TypeOK, Pointed, ~ torn, list \notin Paged!Pages, walk.pc = "walking",
         list \notin {"mostLiked", "feedbacks", "schedules"},
         NEW Order, Ordered(Paged!Ids, Order), ByIds(Order),
         Paged!Answer(Paged!Take(Limit + 1, Rest, Order), Order, Paged!FromRow)
  PROVE  Pointed'
<1>1. Rest \in SUBSET Paged!Ids
  BY ListTypes DEF Rest, Paged!Above, Paged!Below
<1>2. Ordered(Rest, Order)
  BY <1>1, OrderedSubset
<1>3. \A i \in Paged!Ids : Paged!FromRow[i] # None
  BY NextCursors
<1>4. PICK page \in SUBSET Rest :
        /\ Shows(page)
        /\ \/ page = Rest /\ Stops
           \/ \E last \in page : EndsWith(page, last, Rest, Order) /\ GoesTo(Paged!FromRow[last])
  BY <1>1, <1>2, <1>3, AnswerIs
<1>5. CASE page = Rest /\ Stops
  BY <1>4, <1>5, StopMoves
<1>6. ASSUME NEW last \in page, EndsWith(page, last, Rest, Order), GoesTo(Paged!FromRow[last])
      PROVE  Pointed'
  BY <1>4, <1>6, RowMoves
<1> QED BY <1>4, <1>5, <1>6

\* Lists sorted by a value, with what reads like its order.
LEMMA KeysAnswered ==
  ASSUME Paged!TypeOK, Pointed, ~ torn, walk.pc = "walking",
         NEW Order, NEW From,
         \/ list = "mostLiked" /\ Order = Paged!Higher(key) /\ From = Paged!FromLikes
         \/ \E s \in Shifts :
              /\ From = Paged!FromTime(s)
              /\ \/ list = "feedbacks" /\ Order = Paged!Higher(key)
                 \/ list = "schedules" /\ Order = Paged!Earlier,
         NEW q, q = Paged!Take(Limit + 1, Rest, Order),
         NEW Likewise, \A i, j \in q : <<i, j>> \in Likewise <=> <<i, j>> \in Order,
         Paged!Answer(q, Likewise, From)
  PROVE  Pointed'
<1>1. Rest \in SUBSET Paged!Ids
  BY ListTypes DEF Rest, Paged!Behind, Paged!Later
<1>2. Ordered(Rest, Order)
  <2>1. Ordered(Paged!Ids, Paged!Higher(key)) /\ Ordered(Paged!Ids, Paged!Earlier)
    BY ListTypes, HigherOrders, EarlierOrders
  <2> QED BY <1>1, <2>1, OrderedSubset
<1>3. \A i \in Paged!Ids : From[i] # None
  <2>1. \A i \in Paged!Ids : From[i] \in Paged!Walk
    BY NextCursors, TimeCursors
  <2> QED BY <2>1, NextCursors
<1>4. PICK page \in SUBSET Rest :
        /\ Shows(page)
        /\ \/ page = Rest /\ Stops
           \/ \E last \in page : EndsWith(page, last, Rest, Order) /\ GoesTo(From[last])
  BY <1>1, <1>2, <1>3, AnswerIs
<1>5. CASE page = Rest /\ Stops
  BY <1>4, <1>5, StopMoves
<1>6. ASSUME NEW last \in page, EndsWith(page, last, Rest, Order), GoesTo(From[last])
      PROVE  Pointed'
  <2>1. CASE list = "mostLiked"
    BY <1>4, <1>6, <2>1, LikesMoves
  <2>2. CASE list \in {"feedbacks", "schedules"}
    <3>1. Order = (IF list = "feedbacks" THEN Paged!Higher(key) ELSE Paged!Earlier)
      BY <2>2
    <3>2. PICK s \in Shifts : From = Paged!FromTime(s)
      BY <2>2
    <3> QED BY <1>4, <1>6, <2>2, <3>1, <3>2, TimesMoves
  <2> QED BY <2>1, <2>2
<1> QED BY <1>4, <1>5, <1>6

\* A full page of a chat may be the last; one that is not full is.
LEMMA ChatsAnswered ==
  ASSUME Paged!TypeOK, Pointed, ~ torn, Paged!getMessages
  PROVE  Pointed'
<1> DEFINE W == Paged!Below
           page == Paged!Take(Limit, W, Paged!Newer)
           last == Paged!Last(page, Paged!Newer)
<1>1. /\ list = "chats" /\ walk.pc = "walking"
      /\ Paged!Serve(Paged!listChats, IF Cardinality(Paged!listChats) = Limit
                                      THEN Paged!FromRow[Paged!Last(Paged!listChats, Paged!Newer)]
                                      ELSE None)
  BY CountIs DEF Paged!getMessages, Paged!Asked
<1>2. Paged!listChats = page
  <2>1. walk.cursor # None => walk.cursor.id \in present
    BY <1>1 DEF Pointed
  <2> QED BY <2>1 DEF Paged!listChats
<1>3. W = Rest /\ W \in SUBSET Paged!Ids /\ list \notin Paged!Pages
  BY <1>1, ListTypes DEF Rest, Paged!Below, Paged!Pages, Paged!NewestPages, Paged!OldestPages
<1>4. Ordered(W, Paged!Newer) /\ IsFiniteSet(W)
  BY <1>3, NewerOrders, OrderedSubset, IdsFinite, FS_Subset
<1>5. /\ page \in SUBSET W /\ IsFiniteSet(page) /\ Cardinality(page) \in Nat
      /\ Cardinality(page) <= Limit /\ Limit \in Nat /\ Limit > 0
  <2>1. Limit \in Nat /\ Limit > 0
    BY ListsAssumption
  <2> QED BY <1>4, <2>1, TakeIs, TakeBounded
<1> HIDE DEF W
<1>6. /\ Shows(page)
      /\ walk' = IF (IF Cardinality(page) = Limit THEN Paged!FromRow[last] ELSE None) = None
                 THEN [walk EXCEPT !.pc = "done", !.rows = None, !.total = None]
                 ELSE [Paged!FromRow[last] EXCEPT !.rows = None, !.total = None]
  <2>1. Cardinality(Paged!listChats) = Limit <=> Cardinality(page) = Limit
    BY <1>2
  <2> HIDE DEF page
  <2> QED BY <1>1, <1>2, <2>1 DEF Paged!Serve, Shows
<1>7. CASE Cardinality(page) = Limit
  <2>1. page # {}
    <3> HIDE DEF page
    <3> QED BY <1>5, <1>7, FS_EmptySet
  <2>2. last \in page /\ \A i \in W : i \in page <=> i = last \/ <<i, last>> \in Paged!Newer
    BY <1>4, <1>5, <2>1, LastOfTake
  <2> HIDE DEF page, last
  <2>3. Paged!FromRow[last] # None
    BY <1>3, <1>5, <2>2, NextCursors
  <2>4. GoesTo(Paged!FromRow[last])
    BY <1>6, <1>7, <2>3 DEF GoesTo
  <2>5. EndsWith(page, last, Rest, Paged!Newer)
    BY <1>3, <2>2 DEF EndsWith
  <2>6. page \in SUBSET Rest
    BY <1>3, <1>5
  <2>7. ByIds(Paged!Newer)
    BY <1>1, ListTypes, NewerOrders DEF ByIds, ById
  <2> QED BY <1>1, <1>3, <1>6, <2>2, <2>4, <2>5, <2>6, <2>7, RowMoves
<1>8. CASE Cardinality(page) # Limit
  <2>1. Limit - 1 \in Nat /\ (Limit - 1) + 1 = Limit
    BY <1>5
  <2>2. Cardinality(page) <= Limit - 1
    <3> HIDE DEF page
    <3> QED BY <1>5, <1>8
  <2>3. Paged!Take(Limit - 1, W, Paged!Newer) = W
    BY <1>4, <2>1, <2>2, TakeAll
  <2>4. page = W
    <3>1. \A i \in W : Paged!Rank(i, W, Paged!Newer) \in Nat
                       /\ Paged!Rank(i, W, Paged!Newer) < Limit - 1
      BY <1>4, <2>1, <2>3, TakeIs, Ranks
    <3>2. \A i \in W : Paged!Rank(i, W, Paged!Newer) < Limit
      BY <1>5, <3>1
    <3> QED BY <1>4, <1>5, <3>2, TakeIs
  <2>5. Stops
    <3> HIDE DEF page, last
    <3> QED BY <1>6, <1>8 DEF Stops
  <2> HIDE DEF page
  <2> QED BY <1>1, <1>3, <1>6, <2>4, <2>5, StopMoves
<1> QED BY <1>7, <1>8

\* What was read of the liked posts is still in the order of their likes.
LEMMA LikedAnswered ==
  ASSUME Paged!TypeOK, Pointed, ~ torn, Paged!MostLikedRows
  PROVE  Pointed'
<1>1. /\ list = "mostLiked" /\ walk.pc = "walking"
      /\ \/ Paged!Answer(Paged!findPartiesMostLikedWithCursor, Paged!Higher(key), Paged!FromLikes)
         \/ /\ walk.rows # None
            /\ Paged!Answer(DOMAIN walk.rows \intersect present, Paged!Higher(walk.rows),
                            Paged!FromLikes)
  BY DEF Paged!MostLikedRows, Paged!Asked
<1> DEFINE q == Paged!Take(Limit + 1, Rest, Paged!Higher(key))
<1>2. q = Paged!findPartiesMostLikedWithCursor
  BY <1>1 DEF Rest, Paged!findPartiesMostLikedWithCursor
<1>3. q \in SUBSET Rest /\ q \in SUBSET present /\ q \in SUBSET Paged!Ids
  BY <1>1, ListTypes DEF Rest, Paged!Behind, Paged!Take
<1> HIDE DEF q
<1>4. CASE Paged!Answer(Paged!findPartiesMostLikedWithCursor, Paged!Higher(key), Paged!FromLikes)
  BY <1>1, <1>2, <1>4, KeysAnswered DEF q
<1>5. CASE /\ walk.rows # None
           /\ Paged!Answer(DOMAIN walk.rows \intersect present, Paged!Higher(walk.rows),
                           Paged!FromLikes)
  <2>1. walk.rows = [i \in q |-> key[i]]
    BY <1>2, <1>5 DEF Pointed, Paged!SortedBy
  <2>2. DOMAIN walk.rows \intersect present = q
    BY <1>3, <2>1
  <2>3. \A i, j \in q : <<i, j>> \in Paged!Higher(walk.rows) <=> <<i, j>> \in Paged!Higher(key)
    BY <1>3, <2>1, ListTypes DEF Paged!Higher
  <2> QED BY <1>1, <1>5, <2>2, <2>3, KeysAnswered DEF q
<1> QED BY <1>1, <1>4, <1>5

LEMMA LikedRead ==
  ASSUME Paged!TypeOK, Pointed, ~ torn, Paged!MostLikedIds
  PROVE  Pointed'
<1>1. /\ list = "mostLiked" /\ walk.pc = "walking"
      /\ walk' = [walk EXCEPT !.rows = Paged!SortedBy(Paged!findPartiesMostLikedWithCursor)]
      /\ present' = present /\ changed' = changed /\ list' = list /\ torn' = torn /\ key' = key
      /\ inserted' = inserted /\ deleted' = deleted /\ shown' = shown
  BY DEF Paged!MostLikedIds, Paged!Asked, Paged!Read, Paged!table, Paged!history
<1>2. /\ walk'.pc = walk.pc /\ walk'.cursor = walk.cursor /\ walk'.cut = walk.cut
      /\ walk'.rows = Paged!SortedBy(Paged!findPartiesMostLikedWithCursor)
  BY <1>1, ListTypes DEF Paged!Walk
<1>3. Rest' = Rest /\ Paged!Behind' = Paged!Behind
  BY <1>1, <1>2 DEF Rest, Paged!Behind
<1>4. Paged!findPartiesMostLikedWithCursor' = Paged!findPartiesMostLikedWithCursor
  BY <1>1, <1>3 DEF Paged!findPartiesMostLikedWithCursor, Paged!Higher, Paged!Take, Paged!Rank
<1>5. walk'.rows = Paged!SortedBy(Paged!findPartiesMostLikedWithCursor)'
  BY <1>1, <1>2, <1>4 DEF Paged!SortedBy
<1>6. Paged!MayRepeat' = Paged!MayRepeat /\ Paged!MayMiss' = Paged!MayMiss
  BY <1>1, <1>2 DEF Paged!MayRepeat, Paged!MayMiss, Paged!Ahead, Paged!Back, Paged!Tied
<1> QED BY <1>1, <1>2, <1>3, <1>5, <1>6 DEF Pointed

LEMMA CursorsMove ==
  ASSUME Paged!TypeOK, WalkOK, list \notin {"highlightsByLikes", "highlightsByUpdate"},
         Paged!Cursors
  PROVE  WalkOK'
<1>1. /\ list' = list /\ torn' = torn /\ walk.pc = "walking" /\ list \notin Paged!Pages
      /\ key' = key /\ present' = present /\ changed' = changed /\ nextId' = nextId
  BY DEF Paged!Cursors, Paged!getParties, Paged!getMyParties, Paged!getMyPostList,
         Paged!getMyHighlightList, Paged!getUserFeedbacks, Paged!getSchedules,
         Paged!getFeedbacksMyPage, Paged!getHighlightList, Paged!getMessages, Paged!MostLikedIds,
         Paged!MostLikedRows, Paged!Asked, Paged!Answer, Paged!Serve, Paged!Read, Paged!table,
         Paged!history, Paged!Pages, Paged!NewestPages, Paged!OldestPages
<1>4. Written'
  BY <1>1 DEF WalkOK, Written, Paged!InOrder, Paged!Dated, Paged!Pages, Paged!NewestPages,
              Paged!OldestPages
<1>2. CASE torn
  BY <1>1, <1>2, <1>4 DEF WalkOK
<1>3. CASE ~ torn
  <2>1. Pointed
    BY <1>1, <1>3 DEF WalkOK
  <2>2. SUFFICES Pointed'
    BY <1>1, <1>4 DEF WalkOK, Paged!Pages, Paged!NewestPages, Paged!OldestPages
  <2>3. ASSUME Paged!getParties \/ Paged!getMyParties \/ Paged!getMyPostList
                 \/ Paged!getMyHighlightList \/ Paged!getUserFeedbacks
        PROVE  Pointed'
    <3>1. /\ list \in {"parties", "myParties", "myPosts", "myHighlights", "userFeedbacks"}
          /\ Paged!Answer(Paged!NewestBelow, Paged!Newer, Paged!FromRow)
      BY <2>3 DEF Paged!getParties, Paged!getMyParties, Paged!getMyPostList,
                  Paged!getMyHighlightList, Paged!getUserFeedbacks, Paged!Asked,
                  Paged!findPartiesByCursor, Paged!findPartiesByUserIdCursor,
                  Paged!findByUserIdCursor, Paged!findHighlightsByUserId,
                  Paged!findReceivedFeedbacks
    <3>2. Paged!NewestBelow = Paged!Take(Limit + 1, Rest, Paged!Newer)
      BY <3>1 DEF Paged!NewestBelow, Rest
    <3>3. Ordered(Paged!Ids, Paged!Newer) /\ ByIds(Paged!Newer)
      BY <3>1, ListTypes, NewerOrders DEF ByIds, ById
    <3> QED BY <1>1, <1>3, <2>1, <3>1, <3>2, <3>3, RowsAnswered
  <2>4. ASSUME Paged!getHighlightList PROVE Pointed'
    <3>1. list \in {"highlights", "highlightsAscending"}
      BY <2>4 DEF Paged!getHighlightList, Paged!Asked
    <3>2. PICK o \in Paged!HighlightOrders :
            Paged!Answer(Paged!findHighlightsByAzitId(o), o, Paged!FromRow)
      BY <2>4 DEF Paged!getHighlightList
    <3>3. PICK t \in Paged!Ties :
            o = IF list = "highlightsAscending" THEN Paged!Oldest(t) ELSE Paged!Newest(t)
      BY <3>1 DEF Paged!HighlightOrders, Paged!Ranked, Paged!NewestFirst, Paged!OldestFirst
    <3>4. Paged!findHighlightsByAzitId(o) = Paged!Take(Limit + 1, Rest, o)
      BY <3>1 DEF Paged!findHighlightsByAzitId, Rest
    <3>5. /\ present \subseteq Paged!Ids /\ key \in [Paged!Ids -> 0..MaxKey]
          /\ Written /\ list \in Paged!Dated
      BY <3>1, ListTypes DEF WalkOK, Paged!Dated
    <3>6. Ordered(Paged!Ids, o)
      BY <3>3, <3>5, TiesOrder
    <3>7. ByIds(o)
      <4> SUFFICES ASSUME NEW i \in present \ Paged!Tied, NEW j \in present
                   PROVE  <<i, j>> \in o <=> ById(i, j)
        BY DEF ByIds
      <4> QED BY <3>1, <3>3, <3>5, UntiedOrder DEF ById
    <3> QED BY <1>1, <1>3, <2>1, <3>1, <3>2, <3>4, <3>6, <3>7, RowsAnswered
  <2>5. ASSUME Paged!getSchedules PROVE Pointed'
    <3>1. /\ list = "schedules"
          /\ \E s \in Shifts :
               Paged!Answer(Paged!findSchedulesByAzitId, Paged!Earlier, Paged!FromTime(s))
      BY <2>5 DEF Paged!getSchedules, Paged!Asked
    <3>2. Paged!findSchedulesByAzitId = Paged!Take(Limit + 1, Rest, Paged!Earlier)
      BY <3>1 DEF Paged!findSchedulesByAzitId, Rest
    <3> QED BY <1>1, <1>3, <2>1, <3>1, <3>2, KeysAnswered
  <2>6. ASSUME Paged!getFeedbacksMyPage PROVE Pointed'
    <3>1. /\ list = "feedbacks"
          /\ \E s \in Shifts :
               Paged!Answer(Paged!findFeedbacksByTargetIdWithCursor, Paged!Higher(key),
                            Paged!FromTime(s))
      BY <2>6 DEF Paged!getFeedbacksMyPage, Paged!Asked
    <3>2. Paged!findFeedbacksByTargetIdWithCursor = Paged!Take(Limit + 1, Rest, Paged!Higher(key))
      BY <3>1 DEF Paged!findFeedbacksByTargetIdWithCursor, Rest
    <3> QED BY <1>1, <1>3, <2>1, <3>1, <3>2, KeysAnswered
  <2>7. CASE Paged!getMessages
    BY <1>3, <2>1, <2>7, ChatsAnswered
  <2>8. CASE Paged!MostLikedIds
    BY <1>3, <2>1, <2>8, LikedRead
  <2>9. CASE Paged!MostLikedRows
    BY <1>3, <2>1, <2>9, LikedAnswered
  <2> QED BY <2>3, <2>4, <2>5, <2>6, <2>7, <2>8, <2>9 DEF Paged!Cursors
<1> QED BY <1>2, <1>3

\* The other requests insert rows in the order of their ids, and the createdAt of a row
\* that is or has been there stays.
LEMMA OthersWrite ==
  ASSUME Paged!TypeOK, Written, Paged!Environment
  PROVE  /\ Written'
         /\ \A i \in present : i \in Paged!Tied => i \in Paged!Tied'
<1>1. /\ present \subseteq 1..nextId - 1 /\ changed \subseteq 1..nextId - 1
      /\ nextId \in Nat /\ key \in [Paged!Ids -> 0..MaxKey] /\ Paged!Ids = 1..MaxId
  BY ListsAssumption DEF Paged!TypeOK, Written, Paged!Ids
<1> DEFINE S == present \union changed
<1>2. /\ \A i \in S : i \in Int /\ i < nextId /\ i >= 1
      /\ list \in Paged!Dated => \A i, j \in S : i < j => key[i] <= key[j]
  <2>1. \A i \in S : i \in 1..nextId - 1
    BY <1>1
  <2>2. \A i \in 1..nextId - 1 : i \in Int /\ i < nextId /\ i >= 1
    BY <1>1
  <2> QED BY <2>1, <2>2 DEF Written, Paged!InOrder
<1>3. list' = list /\ (list \in Paged!Dated <=> list' \in Paged!Dated')
  BY DEF Paged!Environment, Paged!Insert, Paged!Delete, Paged!Touch, Paged!Dated, Paged!Pages,
         Paged!NewestPages, Paged!OldestPages
<1>4. CASE Paged!Insert
  <2>1. PICK k \in Paged!Values : /\ list \in Paged!Dated => \A i \in S : key[i] <= k
                                 /\ key' = [key EXCEPT ![nextId] = k]
    BY <1>4 DEF Paged!Insert
  <2>2. /\ present' = present \union {nextId} /\ changed' = changed \union {nextId}
        /\ nextId' = nextId + 1 /\ nextId \in Paged!Ids
    BY <1>1, <1>4, ListsAssumption DEF Paged!Insert, Paged!TypeOK
  <2>3. (present \union changed)' = S \union {nextId} /\ key'[nextId] = k
    BY <1>1, <2>1, <2>2
  <2>4. \A i \in S : key'[i] = key[i] /\ i # nextId
    BY <1>1, <1>2, <2>1
  <2>5. changed' \subseteq 1..nextId' - 1
    <3>1. \A i \in 1..nextId - 1 : i \in 1..nextId' - 1
      BY <1>1, <2>2
    <3>2. nextId \in 1..nextId' - 1
      BY <1>1, <2>2
    <3> QED BY <1>1, <2>2, <3>1, <3>2
  <2> HIDE DEF S
  <2>6. list \in Paged!Dated =>
          \A i, j \in S \union {nextId} : i < j => key'[i] <= key'[j]
    <3> SUFFICES ASSUME list \in Paged!Dated, NEW i \in S \union {nextId},
                        NEW j \in S \union {nextId}, i < j
                 PROVE  key'[i] <= key'[j]
      OBVIOUS
    <3>1. i # nextId
      BY <1>1, <1>2
    <3>2. CASE j = nextId
      BY <2>1, <2>3, <2>4, <3>1, <3>2
    <3>3. CASE j # nextId
      BY <1>2, <2>4, <3>1, <3>3
    <3> QED BY <3>2, <3>3
  <2>7. Written'
    BY <1>3, <2>3, <2>5, <2>6 DEF Written, Paged!InOrder
  <2>8. ASSUME NEW i \in present, i \in Paged!Tied PROVE i \in Paged!Tied'
    <3>1. list \in Paged!Dated /\ i \in Paged!Ids /\ i \in S
      BY <2>8 DEF Paged!Tied, S
    <3>2. PICK j \in S \ {i} : key[j] = key[i]
      BY <2>8 DEF Paged!Tied, S
    <3>3. key'[j] = key'[i] /\ j \in (present \union changed)' \ {i}
      BY <2>3, <2>4, <3>1, <3>2
    <3> QED BY <1>3, <3>1, <3>3 DEF Paged!Tied
  <2> QED BY <2>7, <2>8
<1>5. CASE Paged!Delete
  <2>1. /\ (present \union changed)' = present \union changed /\ key' = key /\ nextId' = nextId
        /\ changed' \subseteq changed \union present
    BY <1>5 DEF Paged!Delete
  <2> QED BY <1>1, <1>3, <2>1 DEF Written, Paged!InOrder, Paged!Tied
<1>6. CASE Paged!Touch
  <2>1. list \notin Paged!Dated /\ nextId' = nextId /\ changed' \subseteq changed \union present
    BY <1>6 DEF Paged!Touch, Paged!Movable, Paged!Ranked, Paged!Dated, Paged!Pages,
                Paged!NewestPages, Paged!OldestPages
  <2> QED BY <1>1, <1>3, <2>1 DEF Written, Paged!InOrder, Paged!Tied
<1> QED BY <1>4, <1>5, <1>6 DEF Paged!Environment

\* The other requests leave the walk alone and the rows that stay in place in place.
LEMMA OthersLeave ==
  ASSUME Paged!TypeOK, Paged!Environment
  PROVE  /\ walk' = walk /\ shown' = shown /\ list' = list /\ walk.pc = "walking"
         /\ torn => torn'
         /\ present' \ changed' \subseteq present \ changed
         /\ \A i \in present' \ changed' : key'[i] = key[i] /\ i \in Paged!Ids
<1>1. /\ walk' = walk /\ shown' = shown /\ list' = list /\ walk.pc = "walking"
      /\ torn => torn'
  BY DEF Paged!Environment, Paged!Insert, Paged!Delete, Paged!Touch
<1>2. present \subseteq Paged!Ids /\ key \in [Paged!Ids -> 0..MaxKey]
  BY ListTypes
<1>3. CASE Paged!Insert
  <2>1. /\ present' = present \union {nextId} /\ changed' = changed \union {nextId}
        /\ \E k \in Paged!Values : key' = [key EXCEPT ![nextId] = k]
    BY <1>3 DEF Paged!Insert
  <2>2. present' \ changed' \subseteq present \ changed /\ nextId \notin present' \ changed'
    BY <2>1
  <2> QED BY <1>1, <1>2, <2>1, <2>2
<1>4. CASE Paged!Delete
  BY <1>1, <1>2, <1>4 DEF Paged!Delete
<1>5. CASE Paged!Touch
  <2>1. PICK i \in present, k \in Paged!Values :
          key' = [key EXCEPT ![i] = k] /\ changed' = changed \union {i} /\ present' = present
    BY <1>5 DEF Paged!Touch
  <2> QED BY <1>1, <1>2, <2>1
<1> QED BY <1>1, <1>3, <1>4, <1>5 DEF Paged!Environment

LEMMA PointedLeft ==
  ASSUME Paged!TypeOK, Written, Pointed, ~ torn', list \notin Paged!Pages, Paged!Environment
  PROVE  Pointed'
<1>1. /\ walk' = walk /\ shown' = shown /\ list' = list /\ walk.pc = "walking" /\ ~ torn
      /\ present' \ changed' \subseteq present \ changed
      /\ \A i \in present' \ changed' : key'[i] = key[i] /\ i \in Paged!Ids /\ i \in present'
  BY OthersLeave
<1>2. ASSUME NEW i \in present' \ changed'
      PROVE  /\ i \in Rest' <=> i \in Rest
             /\ i \in Paged!MayRepeat => i \in Paged!MayRepeat'
             /\ i \in Paged!MayMiss => i \in Paged!MayMiss'
  <2>1. i \in present /\ i \in present' /\ key'[i] = key[i] /\ i \in Paged!Ids
    BY <1>1
  <2>2. i \in Rest' <=> i \in Rest
    BY <1>1, <2>1 DEF Rest, Paged!Below, Paged!Above, Paged!Behind, Paged!Later
  <2>3. /\ i \in Paged!MayRepeat => i \in Paged!MayRepeat'
        /\ i \in Paged!MayMiss => i \in Paged!MayMiss'
    <3>1. /\ i \in Paged!Ahead => i \in Paged!Ahead'
          /\ i \in Paged!Back => i \in Paged!Back'
      BY <1>1, <2>1 DEF Paged!Ahead, Paged!Back
    <3>2. i \in Paged!Tied => i \in Paged!Tied'
      BY <2>1, OthersWrite
    <3> QED BY <1>1, <2>1, <3>1, <3>2
            DEF Paged!MayRepeat, Paged!MayMiss, Paged!Pages, Paged!NewestPages,
                Paged!OldestPages
  <2> QED BY <2>2, <2>3
<1>3. list = "chats" /\ walk'.cursor # None => walk'.cursor.id \in present'
  <2>1. SUFFICES ASSUME list = "chats", walk.cursor # None, walk.cursor.id \in present
        PROVE  walk.cursor.id \in present'
    BY <1>1 DEF Pointed
  <2> QED BY <1>1, <2>1 DEF Paged!Environment, Paged!Insert, Paged!Delete, Paged!Touch
<1>4. walk'.rows = None \/ (walk'.rows # None /\ list = "mostLiked" /\ FALSE)
  <2>1. SUFFICES ASSUME walk.rows # None PROVE FALSE
    BY <1>1
  <2>2. list = "mostLiked"
    BY <2>1 DEF Pointed
  <2>3. torn'
    BY <2>1, <2>2 DEF Paged!Environment, Paged!Insert, Paged!Delete, Paged!Touch, Paged!Reading
  <2> QED BY <2>3
<1>5. \A i \in (present \ changed)' :
        /\ shown'[i] < 2 \/ i \in Paged!MayRepeat'
        /\ walk'.pc = "walking" /\ i \in Rest' => shown'[i] = 0 \/ i \in Paged!MayRepeat'
        /\ walk'.pc = "done" \/ i \notin Rest' => shown'[i] > 0 \/ i \in Paged!MayMiss'
  <2>1. \A i \in present \ changed :
          /\ shown[i] < 2 \/ i \in Paged!MayRepeat
          /\ i \in Rest => shown[i] = 0 \/ i \in Paged!MayRepeat
          /\ i \notin Rest => shown[i] > 0 \/ i \in Paged!MayMiss
    BY <1>1 DEF Pointed
  <2> QED BY <1>1, <1>2, <2>1
<1> QED BY <1>1, <1>3, <1>4, <1>5 DEF Pointed

\* Rows put behind move nothing, rows put in front move a row back, and a row that goes
\* moves it forward.
LEMMA PlacesMove ==
  ASSUME Paged!TypeOK, NEW i \in present
  PROVE  /\ Place(i) \in Nat /\ Place(i) < Cardinality(present)
         /\ Cardinality(present) \in 0..MaxId
         /\ Paged!Insert /\ list \in Paged!OldestPages => Place(i)' = Place(i)
         /\ Paged!Insert => Place(i)' \in Nat /\ Place(i) <= Place(i)'
         /\ Paged!Delete => Place(i)' \in Nat /\ Place(i)' <= Place(i)
<1> DEFINE Before == {j \in present : <<j, i>> \in PageOrder}
           After  == {j \in present' : <<j, i>> \in PageOrder}
<1>1. /\ present \in SUBSET Paged!Ids /\ IsFiniteSet(present) /\ Cardinality(present) \in Nat
      /\ Cardinality(present) <= MaxId
  BY ListTypes, IdsFinite, FS_Subset, FS_CardinalityType
<1>2. IsFiniteSet(Before) /\ Cardinality(Before) \in Nat /\ Place(i) = Cardinality(Before)
  BY <1>1, RankIs DEF Place
<1>3. Before \in SUBSET present /\ i \notin Before
  <2>1. <<i, i>> \notin PageOrder
    BY <1>1, NewerOrders DEF PageOrder, Ordered
  <2> QED BY <2>1
<1>4. Place(i) < Cardinality(present)
  <2> HIDE DEF Before
  <2>1. /\ Cardinality(Before) <= Cardinality(present)
        /\ Cardinality(present) = Cardinality(Before) => present = Before
    BY <1>1, <1>3, FS_Subset
  <2> QED BY <1>1, <1>2, <1>3, <2>1
<1>5. Cardinality(present) \in 0..MaxId
  BY <1>1, ListsAssumption
<1>6. ASSUME Paged!Insert \/ Paged!Delete
      PROVE  /\ IsFiniteSet(After) /\ Cardinality(After) \in Nat /\ Place(i)' = Cardinality(After)
  <2>1. list' = list
    BY <1>6 DEF Paged!Insert, Paged!Delete
  <2>2. PageOrder' = PageOrder
    BY <2>1 DEF PageOrder, Paged!Newer, Paged!Older
  <2>3. IsFiniteSet(present')
    <3>1. CASE Paged!Insert
      BY <1>1, <3>1, FS_AddElement DEF Paged!Insert
    <3>2. CASE Paged!Delete
      BY <1>1, <3>2, FS_RemoveElement DEF Paged!Delete
    <3> QED BY <1>6, <3>1, <3>2
  <2>4. Place(i)' = Paged!Rank(i, present', PageOrder)
    BY <2>2 DEF Place, Paged!Rank
  <2> QED BY <2>3, <2>4, RankIs
<1>7. ASSUME Paged!Insert
      PROVE  /\ Place(i)' \in Nat /\ Place(i) <= Place(i)'
             /\ list \in Paged!OldestPages => Place(i)' = Place(i)
  <2>1. Before \in SUBSET After
    BY <1>7 DEF Paged!Insert
  <2>2. Cardinality(Before) <= Cardinality(After)
    <3> HIDE DEF Before, After
    <3> QED BY <1>6, <1>7, <2>1, FS_Subset
  <2>3. ASSUME list \in Paged!OldestPages PROVE After = Before
    <3>1. /\ present' = present \union {nextId} /\ nextId \in Paged!Ids /\ i < nextId
          /\ i \in Nat /\ nextId \in Nat
      BY <1>1, <1>7, IdsFinite, ListsAssumption DEF Paged!Insert, Paged!TypeOK, Paged!Ids
    <3>2. <<nextId, i>> \notin PageOrder
      BY <1>1, <2>3, <3>1, NewerOrders DEF PageOrder
    <3> QED BY <3>1, <3>2
  <2> HIDE DEF Before, After
  <2> QED BY <1>2, <1>6, <1>7, <2>2, <2>3
<1>8. ASSUME Paged!Delete PROVE Place(i)' \in Nat /\ Place(i)' <= Place(i)
  <2>1. After \in SUBSET Before
    BY <1>8 DEF Paged!Delete
  <2>2. Cardinality(After) <= Cardinality(Before)
    <3> HIDE DEF Before, After
    <3> QED BY <1>2, <2>1, FS_Subset
  <2> HIDE DEF Before, After
  <2> QED BY <1>2, <1>6, <1>8, <2>2
<1> HIDE DEF Before, After
<1> QED BY <1>1, <1>2, <1>4, <1>5, <1>7, <1>8

LEMMA NumberedLeft ==
  ASSUME Paged!TypeOK, Written, Numbered, ~ torn', list \in Paged!Pages, Paged!Environment
  PROVE  Numbered'
<1>1. /\ walk' = walk /\ shown' = shown /\ list' = list /\ walk.pc = "walking" /\ ~ torn
      /\ (present' \ changed') \ Paged!Tied' \subseteq (present \ changed) \ Paged!Tied
  BY OthersLeave, OthersWrite
<1>2. Paged!Insert \/ Paged!Delete
  BY DEF Paged!Environment, Paged!Touch, Paged!Movable, Paged!Ranked, Paged!Pages,
         Paged!NewestPages, Paged!OldestPages
<1>3. Reached' = Reached /\ \A i : InRows(i)' <=> InRows(i)
  BY <1>1 DEF Reached, InRows
<1>4. Reached \in Nat /\ (walk.total = None \/ walk.total \in Nat)
  <2>1. walk.page \in Nat /\ walk.page - 1 \in Nat /\ Limit \in Nat
    BY ListTypes, ListsAssumption
  <2>2. walk.page * Limit \in Nat /\ (walk.page - 1) * Limit \in Nat
    BY <2>1
  <2> QED BY <2>2, ListTypes, ListsAssumption DEF Reached
<1>5. CASE Paged!Insert
  <2>1. inserted' /\ deleted' = deleted
    BY <1>5 DEF Paged!Insert
  <2>2. list \notin Paged!OldestPages => ~ (walk.total # None /\ walk.rows = None)
    BY <1>5 DEF Paged!Insert, Paged!Pages
  <2>3. ASSUME NEW i \in (present' \ changed') \ Paged!Tied'
        PROVE  /\ ~ deleted' =>
                    /\ walk'.pc = "done" => shown'[i] > 0
                    /\ Place(i)' < Reached' => shown'[i] > 0 \/ InRows(i)'
                    /\ walk'.total # None /\ walk'.rows = None => Place(i)' < walk'.total
                    /\ walk'.total # None /\ walk'.rows # None
                         /\ walk'.total <= walk'.page * Limit => shown'[i] > 0 \/ InRows(i)'
               /\ list' \in Paged!OldestPages \/ ~ inserted' =>
                    /\ shown'[i] < 2
                    /\ walk'.pc = "walking" /\ Place(i)' >= Reached'
                         => shown'[i] = 0 /\ ~ InRows(i)'
                    /\ InRows(i)' => shown'[i] = 0
    <3>1. i \in present /\ i \in (present \ changed) \ Paged!Tied
      BY <1>1, <2>3
    <3>2. /\ Place(i) \in Nat /\ Place(i)' \in Nat /\ Place(i) <= Place(i)'
          /\ list \in Paged!OldestPages => Place(i)' = Place(i)
      BY <1>5, <3>1, PlacesMove
    <3>3. /\ ~ deleted =>
               /\ Place(i) < Reached => shown[i] > 0 \/ InRows(i)
               /\ walk.total # None /\ walk.rows = None => Place(i) < walk.total
               /\ walk.total # None /\ walk.rows # None /\ walk.total <= walk.page * Limit
                    => shown[i] > 0 \/ InRows(i)
          /\ list \in Paged!OldestPages \/ ~ inserted =>
               /\ shown[i] < 2
               /\ Place(i) >= Reached => shown[i] = 0 /\ ~ InRows(i)
               /\ InRows(i) => shown[i] = 0
      BY <1>1, <3>1 DEF Numbered
    <3> QED BY <1>1, <1>3, <1>4, <2>1, <2>2, <3>2, <3>3
  <2> QED BY <2>3 DEF Numbered
<1>6. CASE Paged!Delete
  <2>1. deleted' /\ inserted' = inserted
    BY <1>6 DEF Paged!Delete
  <2>2. ASSUME NEW i \in (present' \ changed') \ Paged!Tied', list \in Paged!OldestPages \/ ~ inserted
        PROVE  /\ shown'[i] < 2
               /\ walk'.pc = "walking" /\ Place(i)' >= Reached' => shown'[i] = 0 /\ ~ InRows(i)'
               /\ InRows(i)' => shown'[i] = 0
    <3>1. i \in present /\ i \in (present \ changed) \ Paged!Tied
      BY <1>1, <2>2
    <3>2. Place(i) \in Nat /\ Place(i)' \in Nat /\ Place(i)' <= Place(i)
      BY <1>6, <3>1, PlacesMove
    <3>3. /\ shown[i] < 2
          /\ Place(i) >= Reached => shown[i] = 0 /\ ~ InRows(i)
          /\ InRows(i) => shown[i] = 0
      BY <1>1, <2>2, <3>1 DEF Numbered
    <3> QED BY <1>1, <1>3, <1>4, <3>2, <3>3
  <2> QED BY <1>1, <2>1, <2>2 DEF Numbered
<1> QED BY <1>2, <1>5, <1>6

\* The steps of a walk with page numbers.
LEMMA NumbersAre ==
  ASSUME Paged!TypeOK, Paged!Numbers
  PROVE  /\ list \in Paged!Pages /\ walk.pc = "walking"
         /\ UNCHANGED <<Paged!table, Paged!history>>
         /\ \/ /\ walk.rows = None
               /\ \E t \in Paged!Ties :
                    Paged!Read([walk EXCEPT !.rows = Paged!SortedBy(PageRows(PageBy(t)))])
            \/ Paged!ReadTotal
            \/ Paged!AnswerPage
<1> USE DEF Paged!Pages, Paged!NewestPages, Paged!OldestPages, Paged!Asked
<1>1. CASE Paged!AnswerPage
  BY <1>1 DEF Paged!AnswerPage, Paged!Serve
<1>2. CASE \/ Paged!getPostList \/ Paged!getAllPostList \/ Paged!getReportList
           \/ Paged!getCommunityHighlightList \/ Paged!listItems
  <2>1. /\ list \in Paged!NewestPages /\ walk.pc = "walking"
        /\ Paged!ReadRows(Paged!PagesOf(Paged!NewestFirst)) \/ Paged!ReadTotal
    BY <1>2 DEF Paged!getPostList, Paged!getAllPostList, Paged!getReportList,
                Paged!getCommunityHighlightList, Paged!listItems, Paged!ReadBoth,
                Paged!findByGameId, Paged!findAll, Paged!findReportsByUserId,
                Paged!findCommunityHighlights, Paged!findItemsWithPagination
  <2>2. CASE Paged!ReadTotal
    BY <2>1, <2>2 DEF Paged!ReadTotal, Paged!Read
  <2>3. CASE Paged!ReadRows(Paged!PagesOf(Paged!NewestFirst))
    <3>1. PICK q \in Paged!PagesOf(Paged!NewestFirst) :
            walk.rows = None /\ Paged!Read([walk EXCEPT !.rows = Paged!SortedBy(q)])
      BY <2>3 DEF Paged!ReadRows
    <3>2. PICK t \in Paged!Ties : q = PageRows(Paged!Newest(t))
      BY DEF Paged!PagesOf, Paged!NewestFirst, PageRows
    <3>3. q = PageRows(PageBy(t))
      BY <2>1, <3>2 DEF PageBy
    <3> QED BY <2>1, <3>1, <3>3 DEF Paged!Read
  <2> QED BY <2>1, <2>2, <2>3
<1>3. CASE Paged!getAzitMembers \/ Paged!getComments
  <2>1. /\ list \in Paged!OldestPages /\ walk.pc = "walking"
        /\ Paged!ReadRows(Paged!PagesOf(Paged!OldestFirst)) \/ Paged!ReadTotal
    BY <1>3 DEF Paged!getAzitMembers, Paged!getComments, Paged!ReadBoth,
                Paged!findMembersByAzitId, Paged!findCommentsByPartyId
  <2>2. CASE Paged!ReadTotal
    BY <2>1, <2>2 DEF Paged!ReadTotal, Paged!Read
  <2>3. CASE Paged!ReadRows(Paged!PagesOf(Paged!OldestFirst))
    <3>1. PICK q \in Paged!PagesOf(Paged!OldestFirst) :
            walk.rows = None /\ Paged!Read([walk EXCEPT !.rows = Paged!SortedBy(q)])
      BY <2>3 DEF Paged!ReadRows
    <3>2. PICK t \in Paged!Ties : q = PageRows(Paged!Oldest(t))
      BY DEF Paged!PagesOf, Paged!OldestFirst, PageRows
    <3>3. q = PageRows(PageBy(t))
      BY <2>1, <3>2 DEF PageBy
    <3> QED BY <2>1, <3>1, <3>3 DEF Paged!Read
  <2> QED BY <2>1, <2>2, <2>3
<1> QED BY <1>1, <1>2, <1>3 DEF Paged!Numbers

\* However the ties fall, an untied row is on the page its place puts it on.
LEMMA UntiedPlaces ==
  ASSUME Paged!TypeOK, Written, list \in Paged!Pages, NEW t \in Paged!Ties,
         NEW i \in present, i \notin Paged!Tied
  PROVE  Paged!Rank(i, present, PageBy(t)) = Place(i)
<1>1. /\ present \subseteq Paged!Ids /\ key \in [Paged!Ids -> 0..MaxKey]
      /\ list \in Paged!Dated
  BY ListTypes DEF Paged!Dated
<1>2. ASSUME NEW j \in present PROVE <<j, i>> \in PageBy(t) <=> <<j, i>> \in PageOrder
  <2>1. i \in Paged!Ids /\ j \in Paged!Ids
    BY <1>1
  <2> QED BY <1>1, <2>1, UntiedOrder, NewerOrders DEF PageBy, PageOrder
<1>3. {j \in present : <<j, i>> \in PageBy(t)} = {j \in present : <<j, i>> \in PageOrder}
  BY <1>2
<1> QED BY <1>3 DEF Place, Paged!Rank

LEMMA Spans ==
  ASSUME Paged!TypeOK
  PROVE  /\ walk.page \in Nat /\ walk.page * Limit \in Nat /\ (walk.page - 1) * Limit \in Nat
         /\ (walk.page - 1) * Limit < walk.page * Limit
         /\ ((walk.page + 1) - 1) * Limit = walk.page * Limit
         /\ walk.page <= walk.page * Limit
<1>1. walk.page \in Nat /\ walk.page >= 1 /\ Limit \in Nat /\ Limit >= 1
  BY ListTypes, ListsAssumption
<1>2. /\ walk.page * Limit \in Nat /\ (walk.page - 1) * Limit \in Nat
      /\ walk.page * Limit = (walk.page - 1) * Limit + Limit
      /\ (walk.page + 1) - 1 = walk.page
  BY <1>1
<1>3. walk.page <= walk.page * Limit
  <2>1. walk.page * Limit = walk.page + walk.page * (Limit - 1) /\ walk.page * (Limit - 1) \in Nat
    BY <1>1
  <2> QED BY <1>1, <2>1
<1> QED BY <1>1, <1>2, <1>3

LEMMA NumbersMove ==
  ASSUME Paged!TypeOK, Written, Numbered, Paged!Numbers
  PROVE  Numbered'
<1>1. /\ list \in Paged!Pages /\ walk.pc = "walking"
      /\ present' = present /\ changed' = changed /\ list' = list /\ key' = key
      /\ inserted' = inserted /\ deleted' = deleted /\ nextId' = nextId
  BY NumbersAre DEF Paged!table, Paged!history
<1>2. \A i : Place(i)' = Place(i)
  BY <1>1 DEF Place, PageOrder, Paged!Rank, Paged!Newer, Paged!Older
<1>9. Paged!Tied' = Paged!Tied
  BY <1>1 DEF Paged!Tied, Paged!Dated, Paged!Pages, Paged!NewestPages, Paged!OldestPages
<1> DEFINE low == (walk.page - 1) * Limit
           high == walk.page * Limit
<1>3. low \in Nat /\ high \in Nat /\ low < high /\ ((walk.page + 1) - 1) * Limit = high
  BY Spans
<1>4. ASSUME NEW i \in (present \ changed) \ Paged!Tied
      PROVE  /\ i \in Paged!Ids /\ shown[i] \in 0..2 /\ Place(i) \in Nat
             /\ Place(i) < Cardinality(present)
             /\ ~ deleted =>
                  /\ Place(i) < Reached => shown[i] > 0 \/ InRows(i)
                  /\ walk.total # None /\ walk.rows = None => Place(i) < walk.total
                  /\ walk.total # None /\ walk.rows # None /\ walk.total <= high
                       => shown[i] > 0 \/ InRows(i)
             /\ list \in Paged!OldestPages \/ ~ inserted =>
                  /\ shown[i] < 2
                  /\ Place(i) >= Reached => shown[i] = 0 /\ ~ InRows(i)
                  /\ InRows(i) => shown[i] = 0
  <2>1. i \in Paged!Ids /\ shown[i] \in 0..2
    BY ListTypes DEF Paged!TypeOK
  <2> QED BY <1>1, <2>1, PlacesMove DEF Numbered
<1>5. SUFFICES ASSUME NEW i \in (present \ changed) \ Paged!Tied
               PROVE  /\ ~ deleted =>
                           /\ walk'.pc = "done" => shown'[i] > 0
                           /\ Place(i) < Reached' => shown'[i] > 0 \/ InRows(i)'
                           /\ walk'.total # None /\ walk'.rows = None => Place(i) < walk'.total
                           /\ walk'.total # None /\ walk'.rows # None
                                /\ walk'.total <= walk'.page * Limit
                                => shown'[i] > 0 \/ InRows(i)'
                      /\ list \in Paged!OldestPages \/ ~ inserted =>
                           /\ shown'[i] < 2
                           /\ walk'.pc = "walking" /\ Place(i) >= Reached'
                                => shown'[i] = 0 /\ ~ InRows(i)'
                           /\ InRows(i)' => shown'[i] = 0
  BY <1>1, <1>2, <1>9 DEF Numbered
<1>6. ASSUME walk.rows = None, NEW t \in Paged!Ties,
             Paged!Read([walk EXCEPT !.rows = Paged!SortedBy(PageRows(PageBy(t)))])
      PROVE  /\ ~ deleted =>
                  /\ walk'.pc = "done" => shown'[i] > 0
                  /\ Place(i) < Reached' => shown'[i] > 0 \/ InRows(i)'
                  /\ walk'.total # None /\ walk'.rows = None => Place(i) < walk'.total
                  /\ walk'.total # None /\ walk'.rows # None
                       /\ walk'.total <= walk'.page * Limit => shown'[i] > 0 \/ InRows(i)'
             /\ list \in Paged!OldestPages \/ ~ inserted =>
                  /\ shown'[i] < 2
                  /\ walk'.pc = "walking" /\ Place(i) >= Reached' => shown'[i] = 0 /\ ~ InRows(i)'
                  /\ InRows(i)' => shown'[i] = 0
  <2> DEFINE q == PageRows(PageBy(t))
  <2>1. /\ walk.rows = None /\ shown' = shown
        /\ walk' = [walk EXCEPT !.rows = Paged!SortedBy(q)]
    BY <1>6 DEF Paged!Read
  <2>2. /\ walk'.pc = "walking" /\ walk'.page = walk.page /\ walk'.total = walk.total
        /\ walk'.rows = Paged!SortedBy(q)
    BY <1>1, <2>1, ListTypes DEF Paged!Walk
  <2>3. walk'.rows # None
    <3>1. q \in SUBSET Paged!Ids
      BY ListTypes DEF PageRows
    <3>2. Paged!SortedBy(q) \in [q -> 0..MaxKey]
      BY <3>1, ListTypes DEF Paged!SortedBy
    <3> QED BY <2>2, <3>1, <3>2, ListsAssumption DEF Paged!Rows
  <2>4. /\ Reached = low /\ Reached' = high /\ ~ InRows(i)
        /\ InRows(i)' <=> low <= Place(i) /\ Place(i) < high
    <3>1. i \in q <=> low <= Place(i) /\ Place(i) < high
      <4>1. Paged!Rank(i, present, PageBy(t)) = Place(i)
        BY <1>1, <1>6, UntiedPlaces
      <4>2. i \in q <=> Place(i) \in low..high - 1
        BY <4>1 DEF PageRows
      <4> HIDE DEF low, high, q
      <4> QED BY <1>3, <1>4, <4>2
    <3> HIDE DEF q
    <3> QED BY <2>1, <2>2, <2>3, <3>1 DEF Reached, InRows, Paged!SortedBy
  <2> HIDE DEF low, high
  <2>5. walk'.page * Limit = high
    BY <2>2 DEF high
  <2>6. walk.total = None \/ walk.total \in Nat
    BY ListTypes, ListsAssumption
  <2> QED BY <1>3, <1>4, <2>1, <2>2, <2>3, <2>4, <2>5, <2>6
<1>7. CASE Paged!ReadTotal
  <2>1. /\ walk.total = None /\ shown' = shown
        /\ walk' = [walk EXCEPT !.total = Cardinality(present)]
    BY <1>7, CountIs DEF Paged!ReadTotal, Paged!Read
  <2>2. /\ walk'.pc = "walking" /\ walk'.page = walk.page /\ walk'.total = Cardinality(present)
        /\ walk'.rows = walk.rows
    BY <1>1, <2>1, ListTypes DEF Paged!Walk
  <2>3. /\ Reached' = Reached /\ (InRows(i)' <=> InRows(i))
        /\ walk.rows # None => Reached = high
    BY <2>2 DEF Reached, InRows
  <2>4. walk'.page * Limit = high
    BY <2>2
  <2>5. Cardinality(present) \in Nat
    BY PlacesMove
  <2> HIDE DEF low, high
  <2> QED BY <1>3, <1>4, <2>1, <2>2, <2>3, <2>4, <2>5
<1>8. CASE Paged!AnswerPage
  <2>1. /\ walk.rows # None /\ walk.total # None
        /\ Shows(DOMAIN walk.rows)
        /\ walk' = IF (IF high < walk.total THEN [walk EXCEPT !.page = @ + 1] ELSE None) = None
                   THEN [walk EXCEPT !.pc = "done", !.rows = None, !.total = None]
                   ELSE [[walk EXCEPT !.page = @ + 1] EXCEPT !.rows = None, !.total = None]
    BY <1>8 DEF Paged!AnswerPage, Paged!Serve, Shows
  <2>2. /\ InRows(i) => shown'[i] > 0 /\ (shown[i] = 0 => shown'[i] < 2)
        /\ ~ InRows(i) => shown'[i] = shown[i]
        /\ shown[i] > 0 => shown'[i] > 0
    BY <1>4, <2>1 DEF Shows, InRows
  <2>3. Reached = high /\ walk.total \in Nat
    BY <2>1, ListTypes, ListsAssumption DEF Reached
  <2>4. CASE high < walk.total
    <3>1. [walk EXCEPT !.page = @ + 1] # None
      <4>1. walk.page + 1 \in 1..MaxId + 1
        BY <2>1, <2>4, Spans, ListTypes, ListsAssumption
      <4>2. [walk EXCEPT !.page = @ + 1] \in Paged!Walk
        BY <4>1, ListTypes DEF Paged!Walk
      <4> QED BY <4>2, ListsAssumption
    <3>2. walk' = [[walk EXCEPT !.page = @ + 1] EXCEPT !.rows = None, !.total = None]
      BY <2>1, <2>4, <3>1
    <3>3. /\ walk'.pc = "walking" /\ walk'.page = walk.page + 1 /\ walk'.rows = None
          /\ walk'.total = None
      BY <1>1, <3>2, ListTypes DEF Paged!Walk
    <3>4. Reached' = high /\ ~ InRows(i)'
      BY <1>3, <3>3 DEF Reached, InRows
    <3> HIDE DEF low, high
    <3> QED BY <1>3, <1>4, <2>2, <2>3, <3>3, <3>4
  <2>5. CASE ~ (high < walk.total)
    <3>1. walk' = [walk EXCEPT !.pc = "done", !.rows = None, !.total = None]
      BY <2>1, <2>5
    <3>2. /\ walk'.pc = "done" /\ walk'.page = walk.page /\ walk'.rows = None
          /\ walk'.total = None
      BY <3>1, ListTypes DEF Paged!Walk
    <3>3. Reached' = low /\ ~ InRows(i)'
      BY <3>2 DEF Reached, InRows
    <3> HIDE DEF low, high
    <3> QED BY <1>3, <1>4, <2>1, <2>2, <2>3, <2>5, <3>2, <3>3
  <2> QED BY <2>4, <2>5
<1> QED BY <1>6, <1>7, <1>8, NumbersAre

LEMMA ShownTyped ==
  ASSUME Paged!TypeOK, NEW page, NEW next \in Paged!Walk \union {None}, Paged!Serve(page, next)
  PROVE  Paged!TypeOK'
<1>1. /\ list' = list /\ present' = present /\ key' = key /\ nextId' = nextId
      /\ changed' = changed /\ inserted' = inserted /\ deleted' = deleted /\ torn' = torn
      /\ shown' = [i \in Paged!Ids |-> IF i \in page /\ shown[i] < 2 THEN shown[i] + 1 ELSE shown[i]]
      /\ next = None => Stops
      /\ next # None => GoesTo(next)
  BY DEF Paged!Serve, Paged!table, Paged!history, Stops, GoesTo
<1>2. \A i \in Paged!Ids : shown[i] \in 0..2
  BY DEF Paged!TypeOK
<1>3. shown' \in [Paged!Ids -> 0..2]
  BY <1>1, <1>2
<1>4. walk' \in Paged!Walk
  <2>1. CASE next = None
    BY <1>1, <2>1, Stopped
  <2>2. CASE next # None
    BY <1>1, <2>2, Goes
  <2> QED BY <2>1, <2>2
<1> QED BY <1>1, <1>3, <1>4 DEF Paged!TypeOK

LEMMA AnswerTyped ==
  ASSUME Paged!TypeOK, NEW q \in SUBSET Paged!Ids, NEW Order, Ordered(q, Order),
         NEW From, \A i \in Paged!Ids : From[i] \in Paged!Walk,
         Paged!Answer(q, Order, From)
  PROVE  Paged!TypeOK'
<1> DEFINE page == Paged!Take(Limit, q, Order)
<1>1. IsFiniteSet(q) /\ Cardinality(q) \in Nat /\ Limit \in Nat /\ Limit > 0
  <2>1. IsFiniteSet(q)
    BY IdsFinite, FS_Subset
  <2> QED BY <2>1, FS_CardinalityType, ListsAssumption
<1>2. ASSUME Cardinality(q) > Limit PROVE Paged!Last(page, Order) \in Paged!Ids
  <2>1. q # {}
    BY <1>1, <1>2, FS_EmptySet
  <2>2. page # {} /\ page \in SUBSET q
    BY <1>1, <2>1, TakeSome, TakeIs
  <2> QED BY <1>1, <2>2, LastOfTake
<1>4. Paged!NextCursor(q, Order, From) \in Paged!Walk \union {None}
  BY <1>2, CountIs DEF Paged!NextCursor
<1> QED BY <1>4, ShownTyped DEF Paged!Answer

LEMMA ReadTyped ==
  ASSUME Paged!TypeOK, NEW rows \in Paged!Rows \union {None}, NEW total \in 0..MaxId \union {None},
         Paged!Read([walk EXCEPT !.rows = rows]) \/ Paged!Read([walk EXCEPT !.total = total])
  PROVE  Paged!TypeOK'
<1>1. [walk EXCEPT !.rows = rows] \in Paged!Walk /\ [walk EXCEPT !.total = total] \in Paged!Walk
  BY ListTypes DEF Paged!Walk
<1>2. /\ list' = list /\ present' = present /\ key' = key /\ nextId' = nextId /\ shown' = shown
      /\ changed' = changed /\ inserted' = inserted /\ deleted' = deleted /\ torn' = torn
      /\ walk' \in Paged!Walk
  BY <1>1 DEF Paged!Read, Paged!table, Paged!history
<1> QED BY <1>2 DEF Paged!TypeOK

LEMMA SortedTyped ==
  ASSUME Paged!TypeOK, NEW q \in SUBSET Paged!Ids PROVE Paged!SortedBy(q) \in Paged!Rows
<1>1. Paged!SortedBy(q) \in [q -> 0..MaxKey]
  BY ListTypes DEF Paged!SortedBy
<1> QED BY <1>1 DEF Paged!Rows

LEMMA CursorsTyped ==
  ASSUME Paged!TypeOK, Paged!Cursors PROVE Paged!TypeOK'
<1>1. /\ Paged!Below \in SUBSET Paged!Ids /\ Paged!Above \in SUBSET Paged!Ids
      /\ Paged!Behind \in SUBSET Paged!Ids /\ Paged!Later \in SUBSET Paged!Ids
  BY ListTypes DEF Paged!Below, Paged!Above, Paged!Behind, Paged!Later
<1>2. \A n, Order : \A S \in SUBSET Paged!Ids : Paged!Take(n, S, Order) \in SUBSET Paged!Ids
  BY DEF Paged!Take
<1>3. \A q \in SUBSET Paged!Ids : \A Order \in {Paged!Newer, Paged!Older, Paged!Higher(key),
                                                 Paged!Earlier} : Ordered(q, Order)
  <2>1. /\ Ordered(Paged!Ids, Paged!Newer) /\ Ordered(Paged!Ids, Paged!Older)
        /\ Ordered(Paged!Ids, Paged!Higher(key)) /\ Ordered(Paged!Ids, Paged!Earlier)
    BY ListTypes, NewerOrders, HigherOrders, EarlierOrders
  <2> QED BY <2>1, OrderedSubset
<1>11. /\ \A i \in Paged!Ids : Paged!FromRow[i] \in Paged!Walk /\ Paged!FromLikes[i] \in Paged!Walk
       /\ \A s \in Shifts : \A i \in Paged!Ids : Paged!FromTime(s)[i] \in Paged!Walk
  BY NextCursors, TimeCursors
<1>4. CASE Paged!getParties \/ Paged!getMyParties \/ Paged!getMyPostList
             \/ Paged!getMyHighlightList \/ Paged!getUserFeedbacks
  <2>1. Paged!Answer(Paged!NewestBelow, Paged!Newer, Paged!FromRow)
    BY <1>4 DEF Paged!getParties, Paged!getMyParties, Paged!getMyPostList,
                Paged!getMyHighlightList, Paged!getUserFeedbacks,
                Paged!findPartiesByCursor, Paged!findPartiesByUserIdCursor,
                Paged!findByUserIdCursor, Paged!findHighlightsByUserId,
                Paged!findReceivedFeedbacks
  <2> QED BY <1>1, <1>2, <1>3, <1>11, <2>1, AnswerTyped DEF Paged!NewestBelow
<1>5. CASE Paged!getHighlightList
  <2>1. PICK o \in Paged!HighlightOrders :
          Paged!Answer(Paged!findHighlightsByAzitId(o), o, Paged!FromRow)
    BY <1>5 DEF Paged!getHighlightList
  <2>2. \/ o = Paged!Higher(key)
        \/ \E t \in Paged!Ties : o = Paged!Newest(t) \/ o = Paged!Oldest(t)
    BY DEF Paged!HighlightOrders, Paged!NewestFirst, Paged!OldestFirst
  <2>3. Paged!findHighlightsByAzitId(o) \in SUBSET Paged!Ids
    BY <1>1, <1>2 DEF Paged!findHighlightsByAzitId
  <2>4. Ordered(Paged!Ids, o)
    BY <2>2, ListTypes, HigherOrders, TiesOrder
  <2>5. Ordered(Paged!findHighlightsByAzitId(o), o)
    BY <2>3, <2>4, OrderedSubset
  <2> QED BY <1>11, <2>1, <2>3, <2>5, AnswerTyped
<1>6. CASE Paged!getSchedules
  <2>1. PICK s \in Shifts :
          Paged!Answer(Paged!findSchedulesByAzitId, Paged!Earlier, Paged!FromTime(s))
    BY <1>6 DEF Paged!getSchedules
  <2> QED BY <1>1, <1>2, <1>3, <1>11, <2>1, AnswerTyped DEF Paged!findSchedulesByAzitId
<1>7. CASE Paged!getFeedbacksMyPage
  <2>1. PICK s \in Shifts :
          Paged!Answer(Paged!findFeedbacksByTargetIdWithCursor, Paged!Higher(key),
                       Paged!FromTime(s))
    BY <1>7 DEF Paged!getFeedbacksMyPage
  <2> QED BY <1>1, <1>2, <1>3, <1>11, <2>1, AnswerTyped
          DEF Paged!findFeedbacksByTargetIdWithCursor
<1>8. CASE Paged!getMessages
  <2> DEFINE page == Paged!listChats
  <2>1. Paged!Serve(page, IF Cardinality(page) = Limit
                          THEN Paged!FromRow[Paged!Last(page, Paged!Newer)] ELSE None)
    BY <1>8, CountIs DEF Paged!getMessages
  <2>2. page = {} \/ page = Paged!Take(Limit, Paged!Below, Paged!Newer)
    BY DEF Paged!listChats
  <2> HIDE DEF page
  <2>3. ASSUME Cardinality(page) = Limit
        PROVE  Paged!FromRow[Paged!Last(page, Paged!Newer)] \in Paged!Walk
    <3>1. page # {}
      BY <2>3, ListsAssumption, FS_EmptySet
    <3>2. Ordered(Paged!Below, Paged!Newer) /\ IsFiniteSet(Paged!Below)
      BY <1>1, <1>3, IdsFinite, FS_Subset
    <3>3. Limit \in Nat
      BY ListsAssumption
    <3>4. page \in SUBSET Paged!Ids
      BY <1>1, <1>2, <2>2
    <3>5. Paged!Last(page, Paged!Newer) \in page
      BY <2>2, <3>1, <3>2, <3>3, LastOfTake
    <3> QED BY <3>4, <3>5, NextCursors
  <2> QED BY <2>1, <2>3, ShownTyped
<1>9. CASE Paged!MostLikedIds
  <2>1. Paged!findPartiesMostLikedWithCursor \in SUBSET Paged!Ids
    BY <1>1, <1>2 DEF Paged!findPartiesMostLikedWithCursor
  <2> QED BY <1>9, <2>1, SortedTyped, ReadTyped DEF Paged!MostLikedIds
<1>10. CASE Paged!MostLikedRows
  <2>1. CASE Paged!Answer(Paged!findPartiesMostLikedWithCursor, Paged!Higher(key), Paged!FromLikes)
    BY <1>1, <1>2, <1>3, <1>11, <2>1, AnswerTyped DEF Paged!findPartiesMostLikedWithCursor
  <2>2. CASE /\ walk.rows # None
             /\ Paged!Answer(DOMAIN walk.rows \intersect present, Paged!Higher(walk.rows),
                             Paged!FromLikes)
    <3>1. PICK S \in SUBSET Paged!Ids : walk.rows \in [S -> 0..MaxKey]
      BY <2>2, ListTypes DEF Paged!Rows
    <3>2. Ordered(S, Paged!Higher(walk.rows)) /\ DOMAIN walk.rows \intersect present \in SUBSET S
      BY <3>1, HigherOrders
    <3>3. Ordered(DOMAIN walk.rows \intersect present, Paged!Higher(walk.rows))
      BY <3>2, OrderedSubset
    <3> QED BY <1>11, <2>2, <3>2, <3>3, AnswerTyped
  <2> QED BY <1>10, <2>1, <2>2 DEF Paged!MostLikedRows
<1> QED BY <1>4, <1>5, <1>6, <1>7, <1>8, <1>9, <1>10 DEF Paged!Cursors

LEMMA NumbersTyped ==
  ASSUME Paged!TypeOK, Paged!Numbers PROVE Paged!TypeOK'
<1>1. ASSUME NEW t \in Paged!Ties,
             Paged!Read([walk EXCEPT !.rows = Paged!SortedBy(PageRows(PageBy(t)))])
      PROVE  Paged!TypeOK'
  <2>1. PageRows(PageBy(t)) \in SUBSET Paged!Ids
    BY ListTypes DEF PageRows
  <2> QED BY <1>1, <2>1, SortedTyped, ReadTyped
<1>2. CASE Paged!ReadTotal
  <2>1. Cardinality(present) \in 0..MaxId
    <3>1. present \in SUBSET Paged!Ids /\ Cardinality(present) <= MaxId
      BY ListTypes, IdsFinite, FS_Subset
    <3>2. Cardinality(present) \in Nat
      BY <3>1, IdsFinite, FS_Subset, FS_CardinalityType
    <3> QED BY <3>1, <3>2, ListsAssumption
  <2> QED BY <1>2, <2>1, CountIs, ReadTyped DEF Paged!ReadTotal
<1>3. CASE Paged!AnswerPage
  <2>1. ASSUME walk.page * Limit < walk.total
        PROVE  [walk EXCEPT !.page = @ + 1] \in Paged!Walk
    <3>1. walk.total # None
      BY <1>3 DEF Paged!AnswerPage
    <3>2. walk.page + 1 \in 1..MaxId + 1
      BY <2>1, <3>1, Spans, ListTypes, ListsAssumption
    <3> QED BY <3>2, ListTypes DEF Paged!Walk
  <2> QED BY <1>3, <2>1, ShownTyped DEF Paged!AnswerPage
<1> QED BY <1>1, <1>2, <1>3, NumbersAre

LEMMA OthersTyped ==
  ASSUME Paged!TypeOK, Paged!Environment PROVE Paged!TypeOK'
<1>1. Paged!Values \subseteq 0..MaxKey
  BY ListsAssumption DEF Paged!Values
<1>2. walk' = walk /\ shown' = shown /\ list' = list
  BY OthersLeave
<1>3. present \subseteq 1..nextId - 1 /\ nextId \in 1..MaxId + 1 /\ nextId \in Nat
  BY ListsAssumption DEF Paged!TypeOK
<1>4. CASE Paged!Insert
  <2>1. nextId \in Paged!Ids /\ nextId' \in 1..MaxId + 1 /\ present' \subseteq 1..nextId' - 1
    BY <1>3, <1>4, ListsAssumption DEF Paged!Insert, Paged!Ids
  <2>2. key' \in [Paged!Ids -> 0..MaxKey] /\ changed' \subseteq Paged!Ids
    BY <1>1, <1>4, <2>1 DEF Paged!Insert, Paged!TypeOK
  <2>3. {inserted', deleted', torn'} \subseteq BOOLEAN
    BY <1>4 DEF Paged!Insert, Paged!TypeOK
  <2> QED BY <1>2, <2>1, <2>2, <2>3 DEF Paged!TypeOK
<1>5. CASE Paged!Delete
  <2>1. /\ present' \subseteq 1..nextId' - 1 /\ nextId' = nextId /\ key' = key
        /\ changed' \subseteq Paged!Ids
    BY <1>3, <1>5, ListTypes DEF Paged!Delete, Paged!TypeOK
  <2>2. {inserted', deleted', torn'} \subseteq BOOLEAN
    BY <1>5 DEF Paged!Delete, Paged!TypeOK
  <2> QED BY <1>2, <2>1, <2>2 DEF Paged!TypeOK
<1>6. CASE Paged!Touch
  <2>1. /\ present' = present /\ nextId' = nextId /\ changed' \subseteq Paged!Ids
        /\ key' \in [Paged!Ids -> 0..MaxKey]
    BY <1>1, <1>6, ListTypes DEF Paged!Touch, Paged!TypeOK
  <2>2. {inserted', deleted', torn'} \subseteq BOOLEAN
    BY <1>6 DEF Paged!Touch, Paged!TypeOK
  <2> QED BY <1>2, <2>1, <2>2 DEF Paged!TypeOK
<1> QED BY <1>4, <1>5, <1>6 DEF Paged!Environment

LEMMA ListsInit ==
  ASSUME Paged!Init PROVE Paged!TypeOK /\ WalkOK
<1>1. /\ nextId \in 1..MaxId + 1 /\ present \subseteq 1..nextId - 1
      /\ present \subseteq Paged!Ids /\ key \in [Paged!Ids -> 0..MaxKey]
  <2>1. Paged!Values \subseteq 0..MaxKey
    BY ListsAssumption DEF Paged!Values
  <2>2. nextId \in 1..MaxId + 1 /\ present \subseteq 1..nextId - 1
    BY DEF Paged!Init
  <2>3. key \in [Paged!Ids -> Paged!Values]
    BY DEF Paged!Init
  <2>4. nextId \in Nat /\ nextId <= MaxId + 1
    BY <2>2, ListsAssumption
  <2>5. present \subseteq Paged!Ids
    BY <2>2, <2>4, ListsAssumption DEF Paged!Ids
  <2> QED BY <2>1, <2>2, <2>3, <2>5
<1>2. /\ walk.pc = "walking" /\ walk.cursor = None /\ walk.page = 1 /\ walk.rows = None
      /\ walk.total = None /\ walk \in Paged!Walk
  BY ListsAssumption DEF Paged!Init, Paged!Walk
<1>3. Paged!TypeOK
  <2>1. /\ list \in Lists /\ shown = [i \in Paged!Ids |-> 0] /\ changed = {}
        /\ inserted = FALSE /\ deleted = FALSE /\ torn = FALSE
    BY DEF Paged!Init
  <2>2. shown \in [Paged!Ids -> 0..2]
    BY <2>1
  <2> QED BY <1>1, <1>2, <2>1, <2>2 DEF Paged!TypeOK
<1>4. \A i \in present : shown[i] = 0 /\ i \in Paged!Ids
  BY <1>1 DEF Paged!Init
<1>5. Pointed
  <2>1. \A i \in present : i \in Rest
    BY <1>2 DEF Rest, Paged!Below, Paged!Above, Paged!Behind, Paged!Later
  <2> QED BY <1>2, <1>4, <2>1 DEF Pointed
<1>6. Numbered
  <2>1. Reached = 0 /\ \A i : ~ InRows(i)
    BY <1>2, ListsAssumption DEF Reached, InRows
  <2>2. \A i \in present : Place(i) \in Nat
    BY <1>3, PlacesMove
  <2> QED BY <1>2, <1>4, <2>1, <2>2 DEF Numbered
<1>7. Written
  <2>1. changed = {} /\ Paged!InOrder(key, present) /\ present \union changed = present
    BY DEF Paged!Init
  <2> QED BY <2>1 DEF Written
<1> QED BY <1>3, <1>5, <1>6, <1>7 DEF WalkOK

LEMMA ListsStepTyped ==
  ASSUME Paged!TypeOK, Paged!Next PROVE Paged!TypeOK'
BY CursorsTyped, NumbersTyped, OthersTyped DEF Paged!Next

LEMMA ListsStepOK ==
  ASSUME Paged!TypeOK, WalkOK, list \notin {"highlightsByLikes", "highlightsByUpdate"},
         Paged!Next
  PROVE  WalkOK' /\ list' = list
<1>1. CASE Paged!Cursors
  <2>1. list' = list
    BY <1>1 DEF Paged!Cursors, Paged!getParties, Paged!getMyParties, Paged!getMyPostList,
         Paged!getMyHighlightList, Paged!getUserFeedbacks, Paged!getSchedules,
         Paged!getFeedbacksMyPage, Paged!getHighlightList, Paged!getMessages, Paged!MostLikedIds,
         Paged!MostLikedRows, Paged!Answer, Paged!Serve, Paged!Read, Paged!table
  <2> QED BY <1>1, <2>1, CursorsMove
<1>2. CASE Paged!Numbers
  <2>1. list \in Paged!Pages /\ list' = list /\ torn' = torn
    BY <1>2, NumbersAre DEF Paged!table, Paged!history
  <2>2. Paged!Pages' = Paged!Pages
    BY DEF Paged!Pages, Paged!NewestPages, Paged!OldestPages
  <2>3. Written'
    <3>1. /\ key' = key /\ present' = present /\ changed' = changed /\ nextId' = nextId
      BY <1>2, NumbersAre DEF Paged!table, Paged!history
    <3>2. Paged!Dated' = Paged!Dated
      BY <2>2 DEF Paged!Dated
    <3> QED BY <2>1, <3>1, <3>2 DEF WalkOK, Written, Paged!InOrder
  <2> QED BY <1>2, <2>1, <2>2, <2>3, NumbersMove DEF WalkOK
<1>3. CASE Paged!Environment
  <2>1. list' = list /\ (torn => torn')
    BY <1>3, OthersLeave
  <2>2. Paged!Pages' = Paged!Pages
    BY DEF Paged!Pages, Paged!NewestPages, Paged!OldestPages
  <2>3. Written /\ Written'
    BY <1>3, OthersWrite DEF WalkOK
  <2> QED BY <1>3, <2>1, <2>2, <2>3, PointedLeft, NumberedLeft DEF WalkOK
<1> QED BY <1>1, <1>2, <1>3 DEF Paged!Next

\* Whoever walks a list finds the rows and the place of the walk to be of their types.
ListsTyped == which = "lists" => Paged!TypeOK
WalksKept  == which = "lists" =>
                list \notin {"highlightsByLikes", "highlightsByUpdate"} /\ WalkOK

LEMMA ListsServerStep ==
  ASSUME [ServerNext]_serverVars, which' = "lists"
  PROVE  which = "lists" /\ (Paged!Next \/ UNCHANGED Paged!vars)
<1>1. CASE UNCHANGED serverVars
  BY <1>1 DEF serverVars, shared, clientParts, lists, Paged!vars
<1>2. CASE ServerNext
  BY <1>2 DEF ServerNext, ClientStep, UserStep, AzitStep, HttpStep, SessionStep, ListsStep,
              PresenceStep, AttachmentsStep, ChatStep, MembershipStep, TimesStep, SeatsStep,
              PartyStep
<1> QED BY <1>1, <1>2

LEMMA ListsTypedNext == ListsTyped /\ [ServerNext]_serverVars => ListsTyped'
<1> SUFFICES ASSUME ListsTyped, [ServerNext]_serverVars, which' = "lists" PROVE Paged!TypeOK'
  BY DEF ListsTyped
<1>1. Paged!TypeOK /\ (Paged!Next \/ UNCHANGED Paged!vars)
  BY ListsServerStep DEF ListsTyped
<1>2. CASE UNCHANGED Paged!vars
  BY <1>1, <1>2 DEF Paged!vars, Paged!TypeOK
<1> QED BY <1>1, <1>2, ListsStepTyped

LEMMA WalksKeptNext == ListsTyped /\ WalksKept /\ [ServerNext]_serverVars => WalksKept'
<1> SUFFICES ASSUME ListsTyped, WalksKept, [ServerNext]_serverVars, which' = "lists"
             PROVE  list' \notin {"highlightsByLikes", "highlightsByUpdate"} /\ WalkOK'
  BY DEF WalksKept
<1>1. /\ Paged!TypeOK /\ list \notin {"highlightsByLikes", "highlightsByUpdate"} /\ WalkOK
      /\ Paged!Next \/ UNCHANGED Paged!vars
  BY ListsServerStep DEF ListsTyped, WalksKept
<1>2. CASE UNCHANGED Paged!vars
  <2>1. WalkOK' = WalkOK /\ list' = list
    BY <1>2 DEF Paged!vars, WalkOK, Pointed, Numbered, Rest, PageOrder, Place, Reached, InRows,
                Paged!Below, Paged!Above, Paged!Behind, Paged!Later, Paged!Newer, Paged!Older,
                Paged!Higher, Paged!Rank, Paged!Take, Paged!SortedBy, Paged!MayMiss,
                Paged!MayRepeat, Paged!Ahead, Paged!Back, Paged!Tied, Paged!Dated,
                Paged!findPartiesMostLikedWithCursor, Written, Paged!InOrder,
                Paged!Pages, Paged!NewestPages, Paged!OldestPages
  <2> QED BY <1>1, <2>1
<1> QED BY <1>1, <1>2, ListsStepOK

\* The rows of a list and the place of a walk through it keep their types, for pages of
\* any size: a cursor names a row there has been, and a page number stays within the list.
THEOREM ListsAreTyped == ServerSpec => []ListsTyped
<1>1. ServerInit => ListsTyped
  BY ListsInit DEF ServerInit, ClientInit, UserInit, AzitInit, ListsTyped
<1> QED BY <1>1, ListsTypedNext, PTL DEF ServerSpec

\* Whoever walks a list to its end sees every row that stays in place exactly once, for
\* lists and pages of any size, any time zone of the server and whatever other requests
\* insert, delete or move meanwhile.  Not so rows that share their createdAt in a list
\* sorted by it, rows between the time of a cursor and the time it is read back as (in a
\* server on UTC the nine hours the schedules skip and the feedbacks repeat), page numbers
\* once a row goes or is put in front, and torn pages; nor highlights by rank at all.
THEOREM WalksAreComplete ==
  ASSUME Lists \intersect {"highlightsByLikes", "highlightsByUpdate"} = {}
  PROVE  ServerSpec => []Complete
<1>1. ServerInit => ListsTyped /\ WalksKept
  <2> SUFFICES ASSUME ServerInit, which = "lists" PROVE Paged!Init
    BY ListsInit DEF ListsTyped, WalksKept, Paged!Init
  <2> QED BY DEF ServerInit, ClientInit, UserInit, AzitInit
<1>2. ListsTyped /\ WalksKept => Complete
  <2> SUFFICES ASSUME which = "lists", Paged!TypeOK, WalkOK, walk.pc = "done",
                      NEW i \in present \ changed
               PROVE  /\ i \notin Paged!MayMiss => shown[i] > 0
                      /\ i \notin Paged!MayRepeat => shown[i] < 2
    BY DEF ListsTyped, WalksKept, Complete, Paged!Complete
  <2>1. i \in Paged!Ids
    BY ListTypes
  <2>2. CASE torn
    BY <2>1, <2>2 DEF Paged!MayMiss, Paged!MayRepeat
  <2>3. CASE ~ torn /\ list \in Paged!Pages
    <3>1. i \notin Paged!Tied => /\ ~ deleted => shown[i] > 0
                                 /\ list \in Paged!OldestPages \/ ~ inserted => shown[i] < 2
      BY <2>3 DEF WalkOK, Numbered
    <3>2. /\ deleted \/ i \in Paged!Tied => i \in Paged!MayMiss
          /\ (list \notin Paged!OldestPages /\ inserted) \/ i \in Paged!Tied => i \in Paged!MayRepeat
      BY <2>1, <2>3 DEF Paged!MayMiss, Paged!MayRepeat, Paged!Pages
    <3> QED BY <3>1, <3>2
  <2>4. CASE ~ torn /\ list \notin Paged!Pages
    BY <2>4 DEF WalkOK, Pointed
  <2> QED BY <2>2, <2>3, <2>4
<1> QED BY <1>1, <1>2, ListsTypedNext, WalksKeptNext, PTL DEF ServerSpec
-----------------------------------------------------------------------------
(* Presence: the proof is that of PresenceProofs, whose definitions are those of Presence. *)

Online == INSTANCE PresenceProofs

LEMMA PresenceAssumed ==
  /\ Online!IsFiniteSet(Sockets) /\ MaxHandlers \in Nat /\ MaxRestart \in Nat
  /\ None \notin Users
BY ServerAssumption DEF Online!IsFiniteSet, IsFiniteSet

LEMMA SamePresence ==
  /\ Online!Init <=> Presence!Init
  /\ Online!Next <=> Presence!Next
  /\ Online!KeySocketsLive <=> Presence!KeySocketsLive
  /\ Online!NoGhostOnline <=> Presence!NoGhostOnline
<1> USE DEF Online!SocketsOf, Presence!SocketsOf, Online!Quiet, Presence!Quiet,
            Online!InFlight, Presence!InFlight, Online!Cardinality, Presence!Cardinality,
            Online!redis, Presence!redis
<1>1. Online!Init <=> Presence!Init
  BY DEF Online!Init, Presence!Init
<1>2. Online!Resume <=> Presence!Resume
  BY DEF Online!Resume, Presence!Resume, Online!Count, Presence!Count,
         Online!MarkOnline, Presence!MarkOnline, Online!DropKey, Presence!DropKey,
         Online!MarkOffline, Presence!MarkOffline, Online!AskFriends, Presence!AskFriends,
         Online!Resumes, Presence!Resumes, Online!Send, Presence!Send,
         Online!SendCard, Presence!SendCard, Online!Leave, Presence!Leave,
         Online!Rest, Presence!Rest
<1>3. \A t : Online!Notify(t) <=> Presence!Notify(t)
  BY DEF Online!Notify, Presence!Notify
<1>4. /\ \A s, u : Online!Connect(s, u) <=> Presence!Connect(s, u)
      /\ \A s : Online!Disconnect(s) <=> Presence!Disconnect(s)
      /\ Online!Restart <=> Presence!Restart
  BY DEF Online!Connect, Presence!Connect, Online!Disconnect, Presence!Disconnect,
         Online!Restart, Presence!Restart
<1>5. Online!Next <=> Presence!Next
  BY <1>2, <1>3, <1>4 DEF Online!Next, Presence!Next, Online!System, Presence!System
<1>6. /\ Online!KeySocketsLive <=> Presence!KeySocketsLive
      /\ Online!NoGhostOnline <=> Presence!NoGhostOnline
  BY DEF Online!KeySocketsLive, Presence!KeySocketsLive,
         Online!NoGhostOnline, Presence!NoGhostOnline
<1> QED BY <1>1, <1>5, <1>6

PresencePart == which = "presence" => Online!Inv

LEMMA PresencePartInit == ServerInit => PresencePart
<1> SUFFICES ASSUME ServerInit, which = "presence" PROVE Online!Inv
  BY DEF PresencePart
<1>1. Presence!Init
  BY DEF ServerInit, ClientInit, UserInit, AzitInit
<1> QED BY <1>1, PresenceAssumed, SamePresence, Online!InitInv

LEMMA PresencePartNext == PresencePart /\ [ServerNext]_serverVars => PresencePart'
<1> SUFFICES ASSUME PresencePart, [ServerNext]_serverVars, which' = "presence"
             PROVE  Online!Inv'
  BY DEF PresencePart
<1>1. which = "presence" /\ [Online!Next]_(Online!vars)
  <2>1. CASE UNCHANGED serverVars
    BY <2>1 DEF serverVars, shared, clientParts, presence, Online!vars, Online!redis
  <2>2. CASE ServerNext
    <3>1. which = "presence" /\ Presence!Next
      BY <2>2 DEF ServerNext, ClientStep, UserStep, AzitStep, HttpStep, SessionStep, ListsStep,
                  PresenceStep, AttachmentsStep, ChatStep, MembershipStep, TimesStep, SeatsStep,
                  PartyStep
    <3> QED BY <3>1, SamePresence
  <2> QED BY <2>1, <2>2
<1> QED BY <1>1, PresenceAssumed, Online!TypesStay, Online!KeysStay, Online!ErasersStay
        DEF PresencePart, Online!Inv

\* presence.service.ts, register and unregister: the socket ids kept for a user are
\* connections of that user, but for those a restart cut off.
THEOREM KeysAreLive == ServerSpec => []KeySocketsLive
<1>1. PresencePart => KeySocketsLive
  BY SamePresence DEF PresencePart, KeySocketsLive, Online!Inv
<1> QED BY <1>1, PresencePartInit, PresencePartNext, PTL DEF ServerSpec

\* presence.service.ts, unregister: a user whose last connection is gone and whose handlers
\* are done is not shown online, in whatever order its handlers ran.
THEOREM NobodyIsLeftOnline == ServerSpec => []NoGhostOnline
<1>1. PresencePart => NoGhostOnline
  BY PresenceAssumed, SamePresence, Online!NoGhosts DEF PresencePart, NoGhostOnline
<1> QED BY <1>1, PresencePartInit, PresencePartNext, PTL DEF ServerSpec
-----------------------------------------------------------------------------
(* AzitMembership with one request at a time: AzitMembershipProofs. *)

SoloMembership == INSTANCE AzitMembershipProofs
                    WITH Requests <- {Solo}, MaxMember <- 2, MaxFile <- 2

LEMMA MembershipAssumed ==
  /\ MaxAzit \in Nat /\ 2 \in Nat
  /\ None \notin Users /\ None \notin Names /\ None \notin Nat
  /\ SoloMembership!OneAtATime
BY ServerAssumption DEF SoloMembership!OneAtATime

LEMMA SameMembership ==
  /\ SoloMembership!Init <=> Membership!Init
  /\ SoloMembership!Next <=> Membership!Next
<1> USE DEF SoloMembership!tableVars, Membership!tableVars, SoloMembership!rows,
            Membership!rows, SoloMembership!s3, Membership!s3, SoloMembership!Idle,
            Membership!Idle, SoloMembership!AzitId, Membership!AzitId,
            SoloMembership!MemberId, Membership!MemberId, SoloMembership!NewMember,
            Membership!NewMember, SoloMembership!RowsOf, Membership!RowsOf,
            SoloMembership!Caller, Membership!Caller, SoloMembership!IsHost,
            Membership!IsHost
<1>1. SoloMembership!Init <=> Membership!Init
  BY DEF SoloMembership!Init, Membership!Init, SoloMembership!TableInit,
         Membership!TableInit
<1>2. /\ \A r, q : SoloMembership!Become(r, q) <=> Membership!Become(r, q)
      /\ \A r, q : SoloMembership!Begin(r, q) <=> Membership!Begin(r, q)
      /\ \A r : SoloMembership!Return(r) <=> Membership!Return(r)
      /\ \A r, q : SoloMembership!Goto(r, q) <=> Membership!Goto(r, q)
      /\ \A r, q, pc : SoloMembership!At(r, q, pc) <=> Membership!At(r, q, pc)
  BY DEF SoloMembership!Become, Membership!Become, SoloMembership!Begin,
         Membership!Begin, SoloMembership!Return, Membership!Return,
         SoloMembership!Goto, Membership!Goto, SoloMembership!At, Membership!At
<1>3. /\ \A a : SoloMembership!EraseAzit(a) <=> Membership!EraseAzit(a)
      /\ \A u, a, ro : SoloMembership!InsertMember(u, a, ro) <=> Membership!InsertMember(u, a, ro)
      /\ \A q, x : SoloMembership!NameTaken(q, x) <=> Membership!NameTaken(q, x)
  BY DEF SoloMembership!EraseAzit, Membership!EraseAzit, SoloMembership!InsertMember,
         Membership!InsertMember, SoloMembership!NameTaken, Membership!NameTaken
<1>4. /\ \A r : SoloMembership!StartCreateAzit(r) <=> Membership!StartCreateAzit(r)
      /\ \A r : SoloMembership!StartUpdateAzit(r) <=> Membership!StartUpdateAzit(r)
      /\ \A r : SoloMembership!StartDeleteAzit(r) <=> Membership!StartDeleteAzit(r)
  BY DEF SoloMembership!StartCreateAzit, Membership!StartCreateAzit,
         SoloMembership!StartUpdateAzit, Membership!StartUpdateAzit,
         SoloMembership!StartDeleteAzit, Membership!StartDeleteAzit,
         SoloMembership!Begin, Membership!Begin, SoloMembership!Become,
         Membership!Become
<1>13. /\ \A r : SoloMembership!StartAddMember(r) <=> Membership!StartAddMember(r)
       /\ \A r : SoloMembership!StartRemoveMember(r) <=> Membership!StartRemoveMember(r)
       /\ \A r : SoloMembership!StartAcceptApplicant(r) <=> Membership!StartAcceptApplicant(r)
  BY SMTT(30) DEF SoloMembership!StartAddMember, Membership!StartAddMember,
         SoloMembership!StartRemoveMember, Membership!StartRemoveMember,
         SoloMembership!StartAcceptApplicant, Membership!StartAcceptApplicant,
         SoloMembership!Begin, Membership!Begin, SoloMembership!Become,
         Membership!Become
<1>5. /\ \A r, op, next : SoloMembership!FindAzit(r, op, next) <=> Membership!FindAzit(r, op, next)
      /\ \A r, op : SoloMembership!CheckMember(r, op) <=> Membership!CheckMember(r, op)
      /\ \A r, op : SoloMembership!CheckExisting(r, op) <=> Membership!CheckExisting(r, op)
      /\ \A r : SoloMembership!CreateCheckName(r) <=> Membership!CreateCheckName(r)
  BY <1>2, <1>3, ZenonT(40) DEF SoloMembership!FindAzit, Membership!FindAzit, SoloMembership!CheckMember,
         Membership!CheckMember, SoloMembership!CheckExisting,
         Membership!CheckExisting, SoloMembership!CreateCheckName,
         Membership!CreateCheckName
<1>6. /\ \A r : SoloMembership!UpdateCheckHost(r) <=> Membership!UpdateCheckHost(r)
      /\ \A r : SoloMembership!UpdateCheckName(r) <=> Membership!UpdateCheckName(r)
      /\ \A r : SoloMembership!DeleteCheckHost(r) <=> Membership!DeleteCheckHost(r)
  BY <1>2, <1>3, ZenonT(40) DEF SoloMembership!UpdateCheckHost, Membership!UpdateCheckHost,
         SoloMembership!UpdateCheckName, Membership!UpdateCheckName,
         SoloMembership!DeleteCheckHost, Membership!DeleteCheckHost,
         SoloMembership!KeptUrl, Membership!KeptUrl, SoloMembership!AfterNames,
         Membership!AfterNames
<1>7. /\ \A r, op : SoloMembership!Upload(r, op) <=> Membership!Upload(r, op)
      /\ \A r, op : SoloMembership!UploadFails(r, op) <=> Membership!UploadFails(r, op)
      /\ \A r, op : SoloMembership!DeleteIcon(r, op) <=> Membership!DeleteIcon(r, op)
  BY <1>2 DEF SoloMembership!Upload, Membership!Upload, SoloMembership!UploadFails,
         Membership!UploadFails, SoloMembership!DeleteIcon, Membership!DeleteIcon
<1>8. /\ \A r : SoloMembership!AddCheckRequester(r) <=> Membership!AddCheckRequester(r)
      /\ \A r : SoloMembership!RemoveFindTarget(r) <=> Membership!RemoveFindTarget(r)
      /\ \A r : SoloMembership!RemoveCheckRequester(r) <=> Membership!RemoveCheckRequester(r)
  BY <1>2 DEF SoloMembership!AddCheckRequester, Membership!AddCheckRequester,
         SoloMembership!RemoveFindTarget, Membership!RemoveFindTarget,
         SoloMembership!RemoveCheckRequester, Membership!RemoveCheckRequester,
         SoloMembership!MayRemove, Membership!MayRemove
<1>9. /\ \A r : SoloMembership!CreateWrite(r) <=> Membership!CreateWrite(r)
      /\ \A r : SoloMembership!UpdateWrite(r) <=> Membership!UpdateWrite(r)
      /\ \A r : SoloMembership!DeleteWrite(r) <=> Membership!DeleteWrite(r)
      /\ \A r, op : SoloMembership!AddWrite(r, op) <=> Membership!AddWrite(r, op)
      /\ \A r : SoloMembership!RemoveWrite(r) <=> Membership!RemoveWrite(r)
  BY <1>2, <1>3 DEF SoloMembership!CreateWrite, Membership!CreateWrite,
         SoloMembership!UpdateWrite, Membership!UpdateWrite,
         SoloMembership!DeleteWrite, Membership!DeleteWrite,
         SoloMembership!Referenced, Membership!Referenced, SoloMembership!AddWrite,
         Membership!AddWrite, SoloMembership!RemoveWrite, Membership!RemoveWrite
<1>10. /\ SoloMembership!CreateParty <=> Membership!CreateParty
       /\ SoloMembership!LoseLastPost <=> Membership!LoseLastPost
       /\ SoloMembership!DeleteLastParty <=> Membership!DeleteLastParty
       /\ SoloMembership!Restart <=> Membership!Restart
  BY <1>3 DEF SoloMembership!CreateParty, Membership!CreateParty,
         SoloMembership!LoseLastPost, Membership!LoseLastPost,
         SoloMembership!DeleteLastParty, Membership!DeleteLastParty,
         SoloMembership!Restart, Membership!Restart
<1>11. \A r : SoloMembership!Step(r) <=> Membership!Step(r)
  BY <1>4, <1>13, <1>5, <1>6, <1>7, <1>8, <1>9 DEF SoloMembership!Step, Membership!Step
<1>12. SoloMembership!Next <=> Membership!Next
  BY <1>10, <1>11 DEF SoloMembership!Next, Membership!Next
<1> QED BY <1>1, <1>12

MembershipPart == which = "membership" => SoloMembership!Inv /\ SoloMembership!Serial

LEMMA MembershipPartInit == ServerInit => MembershipPart
<1> SUFFICES ASSUME ServerInit, which = "membership"
             PROVE  SoloMembership!Inv /\ SoloMembership!Serial
  BY DEF MembershipPart
<1>1. Membership!Init
  BY DEF ServerInit, ClientInit, UserInit, AzitInit
<1> QED BY <1>1, MembershipAssumed, SameMembership, SoloMembership!InitInv,
           SoloMembership!InitSerial

\* A step of the server in this part.
LEMMA MembershipStepOfPart ==
  [ServerNext]_serverVars /\ which' = "membership"
    => which = "membership" /\ [SoloMembership!Next]_(SoloMembership!vars)
<1>1. CASE UNCHANGED serverVars
  BY <1>1 DEF serverVars, shared, azitParts, azitTables, membership, SoloMembership!vars,
              SoloMembership!rows, SoloMembership!s3, SoloMembership!tableVars
<1>2. ASSUME ServerNext, which' = "membership" PROVE which = "membership" /\ Membership!Next
  BY <1>2 DEF ServerNext, ClientStep, UserStep, AzitStep, HttpStep, SessionStep, ListsStep,
              PresenceStep, AttachmentsStep, ChatStep, MembershipStep, TimesStep, SeatsStep,
              PartyStep
<1> QED BY <1>1, <1>2, SameMembership DEF serverVars

LEMMA MembershipPartNext == MembershipPart /\ [ServerNext]_serverVars => MembershipPart'
<1> SUFFICES ASSUME MembershipPart, [ServerNext]_serverVars, which' = "membership"
             PROVE  (SoloMembership!Inv /\ SoloMembership!Serial)'
  BY DEF MembershipPart
<1> QED BY MembershipAssumed, MembershipStepOfPart, SoloMembership!NextInv,
           SoloMembership!NextSerial DEF MembershipPart

\* azit.service.ts, updateAzit and deleteAzit: with one request at a time the icon of an azit
\* is stored, but while it is replaced and after a request that failed.
THEOREM IconsAreStored == ServerSpec => []IconStored
<1>1. MembershipPart => IconStored
  BY DEF MembershipPart, IconStored, SoloMembership!Serial, SoloMembership!IconKept,
         SoloMembership!Replaces, Membership!IconStored
<1> QED BY <1>1, MembershipPartInit, MembershipPartNext, PTL DEF ServerSpec

\* azit.service.ts:121, "keep it if null": with one request at a time a name changes only to
\* the one an update brings.
THEOREM NamesAreKept == ServerSpec => NameKeptIfNull
<1>1. MembershipPart /\ [ServerNext]_serverVars
        => [which = "membership" => Membership!NameKept]_serverVars
  <2> SUFFICES ASSUME MembershipPart, ServerNext, which = "membership"
               PROVE  Membership!NameKept
    OBVIOUS
  <2>1. which' = which
    BY DEF ServerNext, ClientStep, UserStep, AzitStep, HttpStep, SessionStep, ListsStep,
           PresenceStep, AttachmentsStep, ChatStep, MembershipStep, TimesStep, SeatsStep,
           PartyStep
  <2>2. SoloMembership!NameKept
    BY <2>1, MembershipAssumed, MembershipStepOfPart, SoloMembership!NameStays DEF MembershipPart
  <2> QED BY <2>2 DEF SoloMembership!NameKept, Membership!NameKept, SoloMembership!At, Membership!At
<1> QED BY <1>1, MembershipPartInit, MembershipPartNext, PTL DEF ServerSpec, NameKeptIfNull
-----------------------------------------------------------------------------
(* AzitSchedule with one request at a time: AzitScheduleProofs. *)

SoloTimes == INSTANCE AzitScheduleProofs
               WITH Requests <- {Solo}, MaxAzit <- 1, Capacities <- {2}, Settable <- {"JOIN"}

LEMMA TimesAssumed ==
  /\ SoloTimes!IsFiniteSet({Solo}) /\ 1 \in Nat /\ {2} \subseteq Nat \ {0, 1}
  /\ MaxSchedule \in Nat /\ MaxTime \in Nat /\ MaxMember \in Nat
  /\ {"JOIN"} \subseteq {"PENDING", "DECLINE", "CANCELLED", "JOIN"}
  /\ None \notin Users /\ None \notin Nat
  /\ SoloTimes!OneAtATime
<1>1. SoloTimes!IsFiniteSet({Solo})
  BY FS_Singleton DEF SoloTimes!IsFiniteSet, IsFiniteSet
<1> QED BY <1>1, ServerAssumption DEF SoloTimes!OneAtATime

LEMMA SameTimes ==
  /\ SoloTimes!Init <=> Times!Init
  /\ SoloTimes!Next <=> Times!Next
<1> USE DEF SoloTimes!tableVars, Times!tableVars, SoloTimes!tables, Times!tables,
            SoloTimes!Reads, Times!Reads, SoloTimes!Idle, Times!Idle, SoloTimes!AzitId,
            Times!AzitId, SoloTimes!ScheduleId, Times!ScheduleId, SoloTimes!Time,
            Times!Time
<1>1. SoloTimes!Init <=> Times!Init
  BY DEF SoloTimes!Init, Times!Init, SoloTimes!TableInit, Times!TableInit
<1>2. /\ \A r : SoloTimes!FindAzit(r) <=> Times!FindAzit(r)
      /\ \A r : SoloTimes!FindMember(r) <=> Times!FindMember(r)
      /\ \A r : SoloTimes!FindSchedule(r) <=> Times!FindSchedule(r)
  BY DEF SoloTimes!FindAzit, Times!FindAzit, SoloTimes!FindMember, Times!FindMember,
         SoloTimes!FindSchedule, Times!FindSchedule, SoloTimes!Become, Times!Become,
         SoloTimes!Goto, Times!Goto, SoloTimes!Return, Times!Return, SoloTimes!Closed,
         Times!Closed, SoloTimes!AfterMember, Times!AfterMember,
         SoloTimes!AfterSchedule, Times!AfterSchedule
<1>3. /\ \A r : SoloTimes!StartCreate(r) <=> Times!StartCreate(r)
      /\ \A r : SoloTimes!StartEdit(r) <=> Times!StartEdit(r)
      /\ \A r : SoloTimes!StartParticipation(r) <=> Times!StartParticipation(r)
  BY DEF SoloTimes!StartCreate, Times!StartCreate, SoloTimes!StartEdit,
         Times!StartEdit, SoloTimes!StartParticipation, Times!StartParticipation,
         SoloTimes!Begin, Times!Begin, SoloTimes!Become, Times!Become
<1>4. /\ \A r : SoloTimes!CreateSchedule(r) <=> Times!CreateSchedule(r)
      /\ \A r : SoloTimes!CreateRejected(r) <=> Times!CreateRejected(r)
      /\ \A r : SoloTimes!EditRejected(r) <=> Times!EditRejected(r)
  BY DEF SoloTimes!CreateSchedule, Times!CreateSchedule, SoloTimes!CreateRejected,
         Times!CreateRejected, SoloTimes!EditRejected, Times!EditRejected,
         SoloTimes!Become, Times!Become, SoloTimes!Return, Times!Return, SoloTimes!At,
         Times!At, SoloTimes!ValidTimes, Times!ValidTimes
<1>5. /\ \A r : SoloTimes!CheckCreator(r) <=> Times!CheckCreator(r)
      /\ \A r : SoloTimes!CheckCapacity(r) <=> Times!CheckCapacity(r)
      /\ \A r : SoloTimes!CheckExists(r) <=> Times!CheckExists(r)
      /\ \A r : SoloTimes!FindParticipation(r) <=> Times!FindParticipation(r)
  BY DEF SoloTimes!CheckCreator, Times!CheckCreator, SoloTimes!CheckCapacity,
         Times!CheckCapacity, SoloTimes!CheckExists, Times!CheckExists,
         SoloTimes!FindParticipation, Times!FindParticipation, SoloTimes!Become,
         Times!Become, SoloTimes!Goto, Times!Goto, SoloTimes!Return, Times!Return,
         SoloTimes!RowsFor, Times!RowsFor, SoloTimes!Joined, Times!Joined,
         SoloTimes!IsJoined, Times!IsJoined, SoloTimes!Cardinality, Times!Cardinality
<1>6. /\ \A r : SoloTimes!UpdateSchedule(r) <=> Times!UpdateSchedule(r)
      /\ \A r : SoloTimes!DeleteSchedule(r) <=> Times!DeleteSchedule(r)
  BY DEF SoloTimes!UpdateSchedule, Times!UpdateSchedule, SoloTimes!DeleteSchedule,
         Times!DeleteSchedule, SoloTimes!Become, Times!Become, SoloTimes!Return,
         Times!Return, SoloTimes!At, Times!At, SoloTimes!ValidTimes, Times!ValidTimes,
         SoloTimes!TimesAccepted, Times!TimesAccepted, SoloTimes!Or, Times!Or,
         SoloTimes!Merged, Times!Merged, SoloTimes!EraseSchedules,
         Times!EraseSchedules
<1>7. \A r : SoloTimes!WriteParticipation(r) <=> Times!WriteParticipation(r)
  BY DEF SoloTimes!WriteParticipation, Times!WriteParticipation, SoloTimes!Become,
         Times!Become, SoloTimes!Return, Times!Return, SoloTimes!SetStatus,
         Times!SetStatus, SoloTimes!InsertParticipation, Times!InsertParticipation,
         SoloTimes!RowsFor, Times!RowsFor
<1>8. /\ SoloTimes!MembersChange <=> Times!MembersChange
      /\ SoloTimes!Tick <=> Times!Tick
  BY DEF SoloTimes!MembersChange, Times!MembersChange, SoloTimes!Tick, Times!Tick,
         SoloTimes!CreateAzit, Times!CreateAzit, SoloTimes!AddMember, Times!AddMember,
         SoloTimes!RemoveMember, Times!RemoveMember, SoloTimes!DeleteAzit,
         Times!DeleteAzit, SoloTimes!NewMember, Times!NewMember, SoloTimes!Hosts,
         Times!Hosts, SoloTimes!EraseSchedules, Times!EraseSchedules
<1>9. \A r : SoloTimes!Step(r) <=> Times!Step(r)
  BY <1>2, <1>3, <1>4, <1>5, <1>6, <1>7 DEF SoloTimes!Step, Times!Step
<1>10. SoloTimes!Next <=> Times!Next
  BY <1>8, <1>9 DEF SoloTimes!Next, Times!Next
<1> QED BY <1>1, <1>10
-----------------------------------------------------------------------------
(* The race for the seats of a schedule: AzitScheduleProofs. *)

RacingSeats == INSTANCE AzitScheduleProofs
                 WITH MaxAzit <- 1, MaxTime <- 2, Capacities <- {2}, Settable <- {"JOIN"}

LEMMA SeatsAssumed ==
  /\ RacingSeats!IsFiniteSet(Requests) /\ 1 \in Nat /\ 2 \in Nat /\ {2} \subseteq Nat \ {0, 1}
  /\ MaxSchedule \in Nat /\ MaxMember \in Nat
  /\ {"JOIN"} \subseteq {"PENDING", "DECLINE", "CANCELLED", "JOIN"}
  /\ None \notin Users /\ None \notin Nat
BY ServerAssumption DEF RacingSeats!IsFiniteSet, IsFiniteSet

LEMMA SameSeats ==
  /\ RacingSeats!Init <=> Seats!Init
  /\ RacingSeats!Next <=> Seats!Next
<1> USE DEF RacingSeats!tableVars, Seats!tableVars, RacingSeats!tables, Seats!tables,
            RacingSeats!Reads, Seats!Reads, RacingSeats!Idle, Seats!Idle,
            RacingSeats!AzitId, Seats!AzitId, RacingSeats!ScheduleId, Seats!ScheduleId,
            RacingSeats!Time, Seats!Time
<1>1. RacingSeats!Init <=> Seats!Init
  BY DEF RacingSeats!Init, Seats!Init, RacingSeats!TableInit, Seats!TableInit
<1>2. /\ \A r : RacingSeats!FindAzit(r) <=> Seats!FindAzit(r)
      /\ \A r : RacingSeats!FindMember(r) <=> Seats!FindMember(r)
      /\ \A r : RacingSeats!FindSchedule(r) <=> Seats!FindSchedule(r)
  BY DEF RacingSeats!FindAzit, Seats!FindAzit, RacingSeats!FindMember,
         Seats!FindMember, RacingSeats!FindSchedule, Seats!FindSchedule,
         RacingSeats!Become, Seats!Become, RacingSeats!Goto, Seats!Goto,
         RacingSeats!Return, Seats!Return, RacingSeats!Closed, Seats!Closed,
         RacingSeats!AfterMember, Seats!AfterMember, RacingSeats!AfterSchedule,
         Seats!AfterSchedule
<1>3. /\ \A r : RacingSeats!StartCreate(r) <=> Seats!StartCreate(r)
      /\ \A r : RacingSeats!StartEdit(r) <=> Seats!StartEdit(r)
      /\ \A r : RacingSeats!StartParticipation(r) <=> Seats!StartParticipation(r)
  BY DEF RacingSeats!StartCreate, Seats!StartCreate, RacingSeats!StartEdit,
         Seats!StartEdit, RacingSeats!StartParticipation, Seats!StartParticipation,
         RacingSeats!Begin, Seats!Begin, RacingSeats!Become, Seats!Become
<1>4. /\ \A r : RacingSeats!CreateSchedule(r) <=> Seats!CreateSchedule(r)
      /\ \A r : RacingSeats!CreateRejected(r) <=> Seats!CreateRejected(r)
      /\ \A r : RacingSeats!EditRejected(r) <=> Seats!EditRejected(r)
  BY DEF RacingSeats!CreateSchedule, Seats!CreateSchedule, RacingSeats!CreateRejected,
         Seats!CreateRejected, RacingSeats!EditRejected, Seats!EditRejected,
         RacingSeats!Become, Seats!Become, RacingSeats!Return, Seats!Return,
         RacingSeats!At, Seats!At, RacingSeats!ValidTimes, Seats!ValidTimes
<1>5. /\ \A r : RacingSeats!CheckCreator(r) <=> Seats!CheckCreator(r)
      /\ \A r : RacingSeats!CheckCapacity(r) <=> Seats!CheckCapacity(r)
      /\ \A r : RacingSeats!CheckExists(r) <=> Seats!CheckExists(r)
      /\ \A r : RacingSeats!FindParticipation(r) <=> Seats!FindParticipation(r)
  BY DEF RacingSeats!CheckCreator, Seats!CheckCreator, RacingSeats!CheckCapacity,
         Seats!CheckCapacity, RacingSeats!CheckExists, Seats!CheckExists,
         RacingSeats!FindParticipation, Seats!FindParticipation, RacingSeats!Become,
         Seats!Become, RacingSeats!Goto, Seats!Goto, RacingSeats!Return, Seats!Return,
         RacingSeats!RowsFor, Seats!RowsFor, RacingSeats!Joined, Seats!Joined,
         RacingSeats!IsJoined, Seats!IsJoined, RacingSeats!Cardinality,
         Seats!Cardinality
<1>6. /\ \A r : RacingSeats!UpdateSchedule(r) <=> Seats!UpdateSchedule(r)
      /\ \A r : RacingSeats!DeleteSchedule(r) <=> Seats!DeleteSchedule(r)
  BY DEF RacingSeats!UpdateSchedule, Seats!UpdateSchedule, RacingSeats!DeleteSchedule,
         Seats!DeleteSchedule, RacingSeats!Become, Seats!Become, RacingSeats!Return,
         Seats!Return, RacingSeats!At, Seats!At, RacingSeats!ValidTimes,
         Seats!ValidTimes, RacingSeats!TimesAccepted, Seats!TimesAccepted,
         RacingSeats!Or, Seats!Or, RacingSeats!Merged, Seats!Merged,
         RacingSeats!EraseSchedules, Seats!EraseSchedules
<1>7. \A r : RacingSeats!WriteParticipation(r) <=> Seats!WriteParticipation(r)
  BY DEF RacingSeats!WriteParticipation, Seats!WriteParticipation, RacingSeats!Become,
         Seats!Become, RacingSeats!Return, Seats!Return, RacingSeats!SetStatus,
         Seats!SetStatus, RacingSeats!InsertParticipation, Seats!InsertParticipation,
         RacingSeats!RowsFor, Seats!RowsFor
<1>8. /\ RacingSeats!MembersChange <=> Seats!MembersChange
      /\ RacingSeats!Tick <=> Seats!Tick
  BY DEF RacingSeats!MembersChange, Seats!MembersChange, RacingSeats!Tick, Seats!Tick,
         RacingSeats!CreateAzit, Seats!CreateAzit, RacingSeats!AddMember,
         Seats!AddMember, RacingSeats!RemoveMember, Seats!RemoveMember,
         RacingSeats!DeleteAzit, Seats!DeleteAzit, RacingSeats!NewMember,
         Seats!NewMember, RacingSeats!Hosts, Seats!Hosts, RacingSeats!EraseSchedules,
         Seats!EraseSchedules
<1>9. \A r : RacingSeats!Step(r) <=> Seats!Step(r)
  BY <1>2, <1>3, <1>4, <1>5, <1>6, <1>7 DEF RacingSeats!Step, Seats!Step
<1>10. RacingSeats!Next <=> Seats!Next
  BY <1>8, <1>9 DEF RacingSeats!Next, Seats!Next
<1> QED BY <1>1, <1>10
-----------------------------------------------------------------------------
(* PartyApplication with one request at a time: PartyApplicationProofs. *)

SoloParty == INSTANCE PartyApplicationProofs WITH Requests <- {Solo}, MaxRestart <- 0

LEMMA PartyAssumed ==
  /\ MaxAzit \in Nat /\ MaxMember \in Nat /\ MaxPost \in Nat /\ MaxApp \in Nat /\ 0 \in Nat
  /\ None \notin Users /\ None \notin Nat
  /\ SoloParty!OneAtATime
BY ServerAssumption DEF SoloParty!OneAtATime

LEMMA SameParty ==
  /\ SoloParty!Init <=> Party!Init
  /\ SoloParty!Next <=> Party!Next
<1> USE DEF SoloParty!tableVars, Party!tableVars, SoloParty!partyTables,
            Party!partyTables, SoloParty!Reads, Party!Reads, SoloParty!Idle,
            Party!Idle, SoloParty!AzitId, Party!AzitId
<1>1. SoloParty!Init <=> Party!Init
  BY DEF SoloParty!Init, Party!Init, SoloParty!TableInit, Party!TableInit
<1>2. /\ \A r : SoloParty!StartApply(r) <=> Party!StartApply(r)
      /\ \A r : SoloParty!StartHandle(r) <=> Party!StartHandle(r)
      /\ \A r : SoloParty!StartCancel(r) <=> Party!StartCancel(r)
  BY DEF SoloParty!StartApply, Party!StartApply, SoloParty!StartHandle,
         Party!StartHandle, SoloParty!StartCancel, Party!StartCancel, SoloParty!Begin,
         Party!Begin, SoloParty!Become, Party!Become, SoloParty!MayHandle,
         Party!MayHandle, SoloParty!MayCancel, Party!MayCancel
<1>3. /\ \A r : SoloParty!StartCreate(r) <=> Party!StartCreate(r)
      /\ \A r : SoloParty!StartUpdate(r) <=> Party!StartUpdate(r)
      /\ \A r : SoloParty!StartDelete(r) <=> Party!StartDelete(r)
  BY DEF SoloParty!StartCreate, Party!StartCreate, SoloParty!StartUpdate,
         Party!StartUpdate, SoloParty!StartDelete, Party!StartDelete, SoloParty!Begin,
         Party!Begin, SoloParty!Become, Party!Become
<1>4. /\ \A r : SoloParty!ApplyCheckDuplicate(r) <=> Party!ApplyCheckDuplicate(r)
      /\ \A r : SoloParty!ApplyInsert(r) <=> Party!ApplyInsert(r)
  BY DEF SoloParty!ApplyCheckDuplicate, Party!ApplyCheckDuplicate,
         SoloParty!ApplyInsert, Party!ApplyInsert, SoloParty!Become, Party!Become,
         SoloParty!Goto, Party!Goto, SoloParty!Return, Party!Return, SoloParty!At,
         Party!At, SoloParty!Applied, Party!Applied
<1>5. /\ \A r : SoloParty!HandleStatus(r) <=> Party!HandleStatus(r)
      /\ \A r : SoloParty!HandleFindMember(r) <=> Party!HandleFindMember(r)
      /\ \A r : SoloParty!HandleAdmit(r) <=> Party!HandleAdmit(r)
  BY DEF SoloParty!HandleStatus, Party!HandleStatus, SoloParty!HandleFindMember,
         Party!HandleFindMember, SoloParty!HandleAdmit, Party!HandleAdmit,
         SoloParty!Become, Party!Become, SoloParty!Goto, Party!Goto, SoloParty!Return,
         Party!Return, SoloParty!At, Party!At, SoloParty!AppRow, Party!AppRow,
         SoloParty!IsMember, Party!IsMember, SoloParty!RowsOf, Party!RowsOf,
         SoloParty!NewMember, Party!NewMember
<1>6. /\ \A r : SoloParty!CancelDelete(r) <=> Party!CancelDelete(r)
      /\ \A r : SoloParty!CreatePost(r) <=> Party!CreatePost(r)
      /\ \A r : SoloParty!UpdateFindAzit(r) <=> Party!UpdateFindAzit(r)
      /\ \A r : SoloParty!UpdatePost(r) <=> Party!UpdatePost(r)
  BY DEF SoloParty!CancelDelete, Party!CancelDelete, SoloParty!CreatePost,
         Party!CreatePost, SoloParty!UpdateFindAzit, Party!UpdateFindAzit,
         SoloParty!UpdatePost, Party!UpdatePost, SoloParty!Become, Party!Become,
         SoloParty!Goto, Party!Goto, SoloParty!Return, Party!Return, SoloParty!At,
         Party!At, SoloParty!AppRow, Party!AppRow, SoloParty!SetPost, Party!SetPost
<1>7. /\ \A r : SoloParty!DeleteSnapshot(r) <=> Party!DeleteSnapshot(r)
      /\ \A r : SoloParty!DeleteCommit(r) <=> Party!DeleteCommit(r)
  BY DEF SoloParty!DeleteSnapshot, Party!DeleteSnapshot, SoloParty!DeleteCommit,
         Party!DeleteCommit, SoloParty!Become, Party!Become, SoloParty!Return,
         Party!Return, SoloParty!At, Party!At, SoloParty!Others, Party!Others,
         SoloParty!PostsOf, Party!PostsOf, SoloParty!ErasePost, Party!ErasePost,
         SoloParty!DeleteAzit, Party!DeleteAzit
<1>8. /\ SoloParty!MembersChange <=> Party!MembersChange
      /\ SoloParty!Restart <=> Party!Restart
  BY DEF SoloParty!MembersChange, Party!MembersChange, SoloParty!Restart,
         Party!Restart, SoloParty!TableNext, Party!TableNext, SoloParty!CreateAzit,
         Party!CreateAzit, SoloParty!AddMember, Party!AddMember,
         SoloParty!RemoveMember, Party!RemoveMember, SoloParty!DeleteAzit,
         Party!DeleteAzit, SoloParty!NewMember, Party!NewMember, SoloParty!Hosts,
         Party!Hosts
<1>9. \A r : SoloParty!Step(r) <=> Party!Step(r)
  BY <1>2, <1>3, <1>4, <1>5, <1>6, <1>7 DEF SoloParty!Step, Party!Step
<1>10. SoloParty!Next <=> Party!Next
  BY <1>8, <1>9 DEF SoloParty!Next, Party!Next
<1> QED BY <1>1, <1>10
-----------------------------------------------------------------------------
(* The steps of the server in the parts of schedules and parties. *)

TimesPart == which = "times" => SoloTimes!Inv /\ SoloTimes!Serial
SeatsPart == which = "seats" => RacingSeats!Inv
PartyPart == which = "party" => SoloParty!Inv /\ SoloParty!Serial /\ SoloParty!AcceptedAdmitted

LEMMA AzitPartsInit == ServerInit => TimesPart /\ SeatsPart /\ PartyPart
<1> SUFFICES ASSUME ServerInit PROVE TimesPart /\ SeatsPart /\ PartyPart
  OBVIOUS
<1>1. /\ which = "times" => Times!Init
      /\ which = "seats" => Seats!Init
      /\ which = "party" => Party!Init
  BY DEF ServerInit, ClientInit, UserInit, AzitInit
<1>2. TimesPart
  BY <1>1, TimesAssumed, SameTimes, SoloTimes!InitInv, SoloTimes!InitSerial DEF TimesPart
<1>3. SeatsPart
  BY <1>1, SeatsAssumed, SameSeats, RacingSeats!InitInv DEF SeatsPart
<1>4. PartyPart
  <2>1. SoloParty!Init => SoloParty!AcceptedAdmitted
    BY DEF SoloParty!Init, SoloParty!AcceptedAdmitted
  <2> QED BY <1>1, <2>1, PartyAssumed, SameParty, SoloParty!InitInv, SoloParty!InitSerial
          DEF PartyPart
<1> QED BY <1>2, <1>3, <1>4

LEMMA AzitServerStep ==
  ASSUME [ServerNext]_serverVars
  PROVE  /\ which' = which
         /\ which = "times" => [SoloTimes!Next]_(SoloTimes!vars)
         /\ which = "seats" => [RacingSeats!Next]_(RacingSeats!vars)
         /\ which = "party" => [SoloParty!Next]_(SoloParty!vars)
<1>1. CASE UNCHANGED serverVars
  BY <1>1 DEF serverVars, shared, azitParts, azitTables, userParts, chatRooms, schedules, parties,
              SoloTimes!vars, SoloTimes!tables, SoloTimes!tableVars,
              RacingSeats!vars, RacingSeats!tables, RacingSeats!tableVars,
              SoloParty!vars, SoloParty!partyTables, SoloParty!tableVars
<1>2. CASE ServerNext
  <2>1. /\ which' = which
        /\ which = "times" => Times!Next
        /\ which = "seats" => Seats!Next
        /\ which = "party" => Party!Next
    BY <1>2 DEF ServerNext, ClientStep, UserStep, AzitStep, HttpStep, SessionStep, ListsStep,
                PresenceStep, AttachmentsStep, ChatStep, MembershipStep, TimesStep, SeatsStep,
                PartyStep
  <2> QED BY <2>1, SameTimes, SameSeats, SameParty
<1> QED BY <1>1, <1>2

LEMMA TimesPartNext == TimesPart /\ [ServerNext]_serverVars => TimesPart'
<1> SUFFICES ASSUME TimesPart, [ServerNext]_serverVars, which' = "times"
             PROVE  (SoloTimes!Inv /\ SoloTimes!Serial)'
  BY DEF TimesPart
<1> QED BY TimesAssumed, AzitServerStep, SoloTimes!NextInv, SoloTimes!NextSerial DEF TimesPart

LEMMA SeatsPartNext == SeatsPart /\ [ServerNext]_serverVars => SeatsPart'
<1> SUFFICES ASSUME SeatsPart, [ServerNext]_serverVars, which' = "seats"
             PROVE  RacingSeats!Inv'
  BY DEF SeatsPart
<1> QED BY SeatsAssumed, AzitServerStep, RacingSeats!NextInv DEF SeatsPart

LEMMA PartyPartNext == PartyPart /\ [ServerNext]_serverVars => PartyPart'
<1> SUFFICES ASSUME PartyPart, [ServerNext]_serverVars, which' = "party"
             PROVE  (SoloParty!Inv /\ SoloParty!Serial /\ SoloParty!AcceptedAdmitted)'
  BY DEF PartyPart
<1>1. SoloParty!Inv /\ SoloParty!Serial /\ SoloParty!AcceptedAdmitted
      /\ [SoloParty!Next]_(SoloParty!vars)
  BY AzitServerStep DEF PartyPart
<1> QED BY <1>1, PartyAssumed, SoloParty!NextInv, SoloParty!NextSerial,
           SoloParty!AcceptedStayAdmitted

\* azit-schedule.service.ts, setParticipationStatus: the seats are counted and taken in two
\* statements, so every request that has counted is counted with those that sit.
THEOREM SeatsRaceBounded == ServerSpec => []BoundedOversubscription
<1>1. SeatsPart => BoundedOversubscription
  <2> SUFFICES ASSUME SeatsPart, which = "seats" PROVE Seats!BoundedOversubscription
    BY DEF BoundedOversubscription
  <2>1. RacingSeats!BoundedOversubscription
    BY DEF SeatsPart, RacingSeats!Inv, RacingSeats!SeatsOK, RacingSeats!BoundedOversubscription
  <2> QED BY <2>1 DEF RacingSeats!BoundedOversubscription, Seats!BoundedOversubscription,
                      RacingSeats!Joined, Seats!Joined, RacingSeats!Validated, Seats!Validated,
                      RacingSeats!Cardinality, Seats!Cardinality
<1> QED BY <1>1, AzitPartsInit, SeatsPartNext, PTL DEF ServerSpec

\* handleApplication: with one request at a time whoever is accepted has been found or made
\* a member of the azit, unless the request is about to do so.
THEOREM AcceptedAreAdmitted == ServerSpec => []AcceptedAdmitted
<1>1. PartyPart => AcceptedAdmitted
  BY DEF PartyPart, AcceptedAdmitted, SoloParty!AcceptedAdmitted, Party!AcceptedAdmitted
<1> QED BY <1>1, AzitPartsInit, PartyPartNext, PTL DEF ServerSpec

\* handleApplication, "already accepted": with one request at a time no acceptance is taken
\* back, and no new application takes the place of an accepted one.
THEOREM AcceptanceStays == ServerSpec => AcceptanceFinal
<1>1. PartyPart /\ [ServerNext]_serverVars
        => [which = "party" => Party!KeepsAccepted]_serverVars
  <2> SUFFICES ASSUME PartyPart, ServerNext, which = "party" PROVE Party!KeepsAccepted
    OBVIOUS
  <2>1. SoloParty!KeepsAccepted
    BY PartyAssumed, AzitServerStep, SoloParty!AcceptedStays DEF PartyPart
  <2> QED BY <2>1 DEF SoloParty!KeepsAccepted, Party!KeepsAccepted
<1> QED BY <1>1, AzitPartsInit, PartyPartNext, PTL DEF ServerSpec, AcceptanceFinal

\* deleteParty, "delete the party and tidy up the azit": with one request at a time the azit
\* goes with a post exactly if that was its last one.
THEOREM AzitsGoWithPosts == ServerSpec => AzitGoesWithLastPost
<1>1. PartyPart /\ [ServerNext]_serverVars
        => [which = "party" => Party!AzitGoesWithPost]_serverVars
  <2> SUFFICES ASSUME PartyPart, ServerNext, which = "party" PROVE Party!AzitGoesWithPost
    OBVIOUS
  <2>1. SoloParty!AzitGoesWithPost
    BY PartyAssumed, AzitServerStep, SoloParty!AzitGoes DEF PartyPart
  <2> QED BY <2>1 DEF SoloParty!AzitGoesWithPost, Party!AzitGoesWithPost
<1> QED BY <1>1, AzitPartsInit, PartyPartNext, PTL DEF ServerSpec, AzitGoesWithLastPost

\* What the services look up before they insert or update holds afterwards, with one request
\* at a time: one membership per user and azit, distinct names of a host's azits, one
\* application per user and post, and the times of a schedule in order.
THEOREM GuardsAreKept == ServerSpec => []GuardsHold
<1>1. MembershipPart /\ TimesPart /\ PartyPart => GuardsHold
  <2> SUFFICES ASSUME MembershipPart, TimesPart, PartyPart PROVE GuardsHold
    OBVIOUS
  <2>1. CASE which = "membership"
    <3>1. SoloMembership!MembershipUnique /\ SoloMembership!HostNamesDistinct
      BY <2>1 DEF MembershipPart, SoloMembership!Serial
    <3>2. Membership!MembershipUnique /\ Membership!HostNamesDistinct
      BY <3>1 DEF SoloMembership!MembershipUnique, SoloMembership!HostNamesDistinct,
                  Membership!MembershipUnique, Membership!HostNamesDistinct,
                  SoloMembership!IsHost, Membership!IsHost
    <3> QED BY <2>1, <3>2 DEF GuardsHold
  <2>2. CASE which = "party"
    <3>1. Party!OneApplication
      BY <2>2 DEF PartyPart, SoloParty!Serial, SoloParty!OneApplication, Party!OneApplication
    <3> QED BY <2>2, <3>1 DEF GuardsHold
  <2>3. CASE which = "times"
    <3>1. Times!TimesOrdered
      BY <2>3 DEF TimesPart, SoloTimes!Serial, SoloTimes!TimesOrdered, Times!TimesOrdered,
                  SoloTimes!ValidTimes, Times!ValidTimes
    <3> QED BY <2>3, <3>1 DEF GuardsHold
  <2> QED BY <2>1, <2>2, <2>3 DEF GuardsHold
<1> QED BY <1>1, MembershipPartInit, MembershipPartNext, AzitPartsInit, TimesPartNext,
           PartyPartNext, PTL DEF ServerSpec
-----------------------------------------------------------------------------
(* Attachments: AttachmentsProofs. *)

Stored == INSTANCE AttachmentsProofs WITH Kinds <- {"highlight", "post", "report"}

LEMMA AttachmentsAssumed == Stored!SoundConstants
BY ServerAssumption DEF Stored!SoundConstants, Stored!IsFiniteSet, IsFiniteSet

LEMMA SameAttachments ==
  /\ Stored!Init <=> Attached!Init
  /\ Stored!Next <=> Attached!Next
  /\ Stored!FilesKept <=> Attached!FilesKept
  /\ Stored!UploadsBounded <=> Attached!UploadsBounded
<1> USE DEF Stored!Idle, Attached!Idle, Stored!Reads, Attached!Reads, Stored!rows, Attached!rows,
            Stored!ghosts, Attached!ghosts, Stored!MediasOf, Attached!MediasOf
<1>1. Stored!Init <=> Attached!Init
  BY DEF Stored!Init, Attached!Init
<1>2. /\ \A r, q : Stored!Begin(r, q) <=> Attached!Begin(r, q)
      /\ \A r, q : Stored!Become(r, q) <=> Attached!Become(r, q)
      /\ \A r, pc : Stored!Goto(r, pc) <=> Attached!Goto(r, pc)
      /\ \A r : Stored!Return(r) <=> Attached!Return(r)
      /\ \A r, op, pc : Stored!At(r, op, pc) <=> Attached!At(r, op, pc)
  BY DEF Stored!Begin, Attached!Begin, Stored!Become, Attached!Become, Stored!Goto, Attached!Goto,
         Stored!Return, Attached!Return, Stored!At, Attached!At
<1>3. \A r, kind, counts : Stored!StartCreate(r, kind, counts) <=> Attached!StartCreate(r, kind, counts)
  BY <1>2, ZenonT(40) DEF Stored!StartCreate, Attached!StartCreate
<1>4. ASSUME NEW r, NEW op, NEW kind, NEW pc, NEW n
      PROVE  Stored!StartEdit(r, op, kind, pc, n) <=> Attached!StartEdit(r, op, kind, pc, n)
  <2>1. \A u : Stored!Owned(u, kind) = Attached!Owned(u, kind)
    BY DEF Stored!Owned, Attached!Owned
  <2> DEFINE Old(u, i) == [Attached!Idle EXCEPT !.op = op, !.pc = pc, !.user = u, !.item = i, !.left = n,
                           !.copy = IF op \in {"rewrite", "erase"} THEN Attached!MediasOf(i)
                                    ELSE {}]
  <2>2. Attached!StartEdit(r, op, kind, pc, n) <=>
          /\ \E u \in Users : \E i \in Attached!Owned(u, kind) : Attached!Begin(r, Old(u, i))
          /\ Attached!Reads
    BY DEF Attached!StartEdit
  <2>3. Stored!StartEdit(r, op, kind, pc, n) <=>
          /\ \E u \in Users : \E i \in Stored!Owned(u, kind) : Stored!Begin(r, Old(u, i))
          /\ Stored!Reads
    BY DEF Stored!StartEdit
  <2> HIDE DEF Old
  <2> QED BY <1>2, <2>1, <2>2, <2>3
<1>5. /\ \A i : Stored!Given(i) = Attached!Given(i)
      /\ \A ms : Stored!UrlsOf(ms) = Attached!UrlsOf(ms)
      /\ Stored!File = Attached!File
  BY DEF Stored!Given, Attached!Given, Stored!UrlsOf, Attached!UrlsOf, Stored!File, Attached!File
<1>6. /\ \A i, new : Stored!InsertMedias(i, new) <=> Attached!InsertMedias(i, new)
      /\ \A i : Stored!Deleted(i) <=> Attached!Deleted(i)
      /\ \A i : Stored!Detached(i) = Attached!Detached(i)
      /\ \A i, urls, last : Stored!Rows(i, urls, last) = Attached!Rows(i, urls, last)
      /\ \A ms : Stored!MaxOrder(ms) = Attached!MaxOrder(ms)
  BY DEF Stored!InsertMedias, Attached!InsertMedias, Stored!Deleted, Attached!Deleted,
         Stored!Detached, Attached!Detached, Stored!Rows, Attached!Rows,
         Stored!MaxOrder, Attached!MaxOrder, Stored!Max, Attached!Max
<1>7. ASSUME NEW r
      PROVE  /\ Stored!Upload(r) <=> Attached!Upload(r)
             /\ Stored!UploadFails(r) <=> Attached!UploadFails(r)
             /\ Stored!InsertFails(r) <=> Attached!InsertFails(r)
             /\ Stored!Insert(r) <=> Attached!Insert(r)
  BY <1>2, <1>6 DEF Stored!Upload, Attached!Upload, Stored!UploadFails, Attached!UploadFails,
         Stored!InsertFails, Attached!InsertFails, Stored!Insert, Attached!Insert,
         Stored!AfterUpload, Attached!AfterUpload
<1>8. ASSUME NEW r
      PROVE  /\ Stored!ReadMedias(r) <=> Attached!ReadMedias(r)
             /\ Stored!WriteText(r) <=> Attached!WriteText(r)
             /\ Stored!AppendMedias(r) <=> Attached!AppendMedias(r)
             /\ Stored!Rewrite(r) <=> Attached!Rewrite(r)
  BY <1>2, <1>5, <1>6 DEF Stored!ReadMedias, Attached!ReadMedias, Stored!WriteText, Attached!WriteText,
         Stored!AppendMedias, Attached!AppendMedias, Stored!Rewrite, Attached!Rewrite,
         Stored!WithinLimit, Attached!WithinLimit, Stored!Cardinality, Attached!Cardinality
<1>9. ASSUME NEW r
      PROVE  /\ Stored!Clear(r) <=> Attached!Clear(r)
             /\ Stored!Refill(r) <=> Attached!Refill(r)
             /\ Stored!DeleteFile(r) <=> Attached!DeleteFile(r)
             /\ Stored!FilesDeleted(r) <=> Attached!FilesDeleted(r)
             /\ Stored!EraseRow(r) <=> Attached!EraseRow(r)
             /\ Stored!DeleteRow(r) <=> Attached!DeleteRow(r)
             /\ Stored!Withdraw(r) <=> Attached!Withdraw(r)
  BY <1>2, <1>6 DEF Stored!Clear, Attached!Clear, Stored!Refill, Attached!Refill,
         Stored!DeleteFile, Attached!DeleteFile, Stored!FilesDeleted, Attached!FilesDeleted,
         Stored!EraseRow, Attached!EraseRow, Stored!DeleteRow, Attached!DeleteRow,
         Stored!Withdraw, Attached!Withdraw
<1>10. Stored!Restart <=> Attached!Restart
  BY DEF Stored!Restart, Attached!Restart
<1>11. ASSUME NEW r
       PROVE  /\ Stored!HighlightStep(r) <=> Attached!HighlightStep(r)
              /\ Stored!PostStep(r) <=> Attached!PostStep(r)
              /\ Stored!ReportStep(r) <=> Attached!ReportStep(r)
              /\ Stored!CommonStep(r) <=> Attached!CommonStep(r)
  BY <1>3, <1>4, <1>7, <1>8, <1>9
     DEF Stored!HighlightStep, Attached!HighlightStep, Stored!PostStep, Attached!PostStep,
         Stored!ReportStep, Attached!ReportStep, Stored!CommonStep, Attached!CommonStep,
         Stored!CreateHighlight, Attached!CreateHighlight,
         Stored!CreateCommunityHighlight, Attached!CreateCommunityHighlight,
         Stored!UpdateHighlight, Attached!UpdateHighlight,
         Stored!UpdateCommunityHighlight, Attached!UpdateCommunityHighlight,
         Stored!DeleteHighlight, Attached!DeleteHighlight,
         Stored!DeleteCommunityHighlight, Attached!DeleteCommunityHighlight,
         Stored!CreatePost, Attached!CreatePost, Stored!UpdatePost, Attached!UpdatePost,
         Stored!DeletePost, Attached!DeletePost, Stored!CreateReport, Attached!CreateReport,
         Stored!UpdateReport, Attached!UpdateReport, Stored!DeleteReport, Attached!DeleteReport
<1>12. Stored!Next <=> Attached!Next
  BY <1>10, <1>11 DEF Stored!Next, Attached!Next, Stored!Step, Attached!Step
<1>13. Stored!FilesKept <=> Attached!FilesKept
  BY DEF Stored!FilesKept, Attached!FilesKept, Stored!File, Attached!File
<1>14. Stored!UploadsBounded <=> Attached!UploadsBounded
  BY DEF Stored!UploadsBounded, Attached!UploadsBounded, Stored!Uploaded, Attached!Uploaded,
         Stored!Pending, Attached!Pending, Stored!AddsTo, Attached!AddsTo,
         Stored!Adding, Attached!Adding, Stored!Cardinality, Attached!Cardinality
<1> QED BY <1>1, <1>12, <1>13, <1>14

AttachmentsPart == which = "attachments" => Stored!AttachmentsInv

LEMMA AttachmentsPartInit == ServerInit => AttachmentsPart
<1> SUFFICES ASSUME ServerInit, which = "attachments" PROVE Stored!AttachmentsInv
  BY DEF AttachmentsPart
<1>1. Attached!Init
  BY DEF ServerInit, ClientInit, UserInit, AzitInit
<1> QED BY <1>1, AttachmentsAssumed, SameAttachments, Stored!AttachmentsInit

LEMMA AttachmentsPartNext == AttachmentsPart /\ [ServerNext]_serverVars => AttachmentsPart'
<1> SUFFICES ASSUME AttachmentsPart, [ServerNext]_serverVars, which' = "attachments"
             PROVE  Stored!AttachmentsInv'
  BY DEF AttachmentsPart
<1>1. which = "attachments" /\ [Stored!Next]_(Stored!vars)
  <2>1. CASE UNCHANGED serverVars
    BY <2>1 DEF serverVars, shared, userParts, attachments, Stored!vars
  <2>2. CASE ServerNext
    <3>1. which = "attachments" /\ Attached!Next
      BY <2>2 DEF ServerNext, ClientStep, UserStep, AzitStep, HttpStep, SessionStep, ListsStep,
                  PresenceStep, AttachmentsStep, ChatStep, MembershipStep, TimesStep, SeatsStep,
                  PartyStep
    <3> QED BY <3>1, SameAttachments
  <2> QED BY <2>1, <2>2
<1> QED BY <1>1, AttachmentsAssumed, Stored!AttachmentsNext DEF AttachmentsPart

\* highlight-delete.service.ts deletes the files in S3, then the row: a media that is shown
\* has its file, unless its item is being deleted or a restart has cut that short, or a body
\* has given the url to an item that did not show it.
THEOREM FilesAreKept == ServerSpec => []FilesKept
<1>1. AttachmentsPart => FilesKept
  BY AttachmentsAssumed, SameAttachments, Stored!FilesOfRows
     DEF AttachmentsPart, FilesKept, Stored!AttachmentsInv
<1> QED BY <1>1, AttachmentsPartInit, AttachmentsPartNext, PTL DEF ServerSpec

\* validateMediaCountForUpdate counts medias before the uploads and updateReport clears them
\* before it inserts: overlapping requests exceed the limit by at most the limit for each,
\* in medias that were uploaded, whatever else bodies have given.
THEOREM UploadsAreBounded == ServerSpec => []UploadsBounded
<1>1. AttachmentsPart => UploadsBounded
  BY AttachmentsAssumed, SameAttachments, Stored!UploadsOfRoom
     DEF AttachmentsPart, UploadsBounded, Stored!AttachmentsInv, Stored!AttachedOK
<1> QED BY <1>1, AttachmentsPartInit, AttachmentsPartNext, PTL DEF ServerSpec
=============================================================================

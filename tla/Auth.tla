-------------------------------- MODULE Auth --------------------------------
(***************************************************************************)
(* AuthService: sign-up, login, refresh of the session and verification of *)
(* a phone number, over the users table and two kinds of Redis keys.       *)
(*                                                                         *)
(* Every Redis command and every query is a step of its own: what a        *)
(* request compared may be gone when it writes.  A refresh token is        *)
(* signed from the user and the second, so that two of one second are the  *)
(* same token; a verification code is random and taken to be new.          *)
(***************************************************************************)
EXTENDS Naturals, FiniteSets

CONSTANTS
  Phones,    \* a user is known by the phone number
  Nicknames,
  Requests,  \* concurrent requests in flight
  MaxTime,   \* bound: seconds
  Life,      \* seconds a refresh token is valid
  MaxCode,   \* bound: codes sent
  None       \* absent value

VARIABLES
  users,    \* rows of users: the nickname of every phone signed up
  tokens,   \* Redis rt:<user>: the second the stored token was signed in, or None
  codes,    \* Redis sms:<phone>: the stored code, or None
  nextCode,
  now,
  req,      \* local state of every request
  issued,   \* history: pairs <<phone, second>>, the refresh tokens clients were given
  spent,    \* history: how often a token was exchanged for one of another second
  retired,  \* history: tokens exchanged for one of another second by a request that was alone
  verified  \* history: how often a code was accepted

vars == <<users, tokens, codes, nextCode, now, req, issued, spent, retired, verified>>

Time == 0..MaxTime
Code == 1..MaxCode
Ops  == {"idle", "signUp", "login", "refresh", "send", "verify"}
Pcs  == {"idle", "nickname", "insert", "compare", "stored", "user", "sign", "keep", "set", "sms", "del"}
Request ==
  [op: Ops, pc: Pcs, phone: Phones \union {None}, nickname: Nicknames \union {None},
   token: Time \union {None},  \* the token presented, then the one signed
   from: Time \union {None},   \* history: the token a refresh was given
   code: Code \union {None}]   \* history: the code that was compared

Idle == [op |-> "idle", pc |-> "idle", phone |-> None, nickname |-> None,
         token |-> None, from |-> None, code |-> None]

TypeOK ==
  /\ DOMAIN users \subseteq Phones /\ \A p \in DOMAIN users : users[p] \in Nicknames
  /\ tokens \in [Phones -> Time \union {None}] /\ codes \in [Phones -> Code \union {None}]
  /\ nextCode \in 1..MaxCode + 1 /\ now \in Time
  /\ req \in [Requests -> Request]
  /\ issued \subseteq Phones \X Time /\ retired \subseteq Phones \X Time
  /\ spent \in [Phones \X Time -> Nat] /\ verified \in [Code -> Nat]

Init ==
  /\ users = [p \in {} |-> None]
  /\ tokens = [p \in Phones |-> None] /\ codes = [p \in Phones |-> None]
  /\ nextCode = 1 /\ now = 0
  /\ req = [r \in Requests |-> Idle]
  /\ issued = {} /\ retired = {}
  /\ spent = [x \in Phones \X Time |-> 0] /\ verified = [c \in Code |-> 0]
-----------------------------------------------------------------------------
Become(r, q)  == req' = [req EXCEPT ![r] = q]
Goto(r, pc)   == Become(r, [req[r] EXCEPT !.pc = pc])
Return(r)     == Become(r, Idle)
Begin(r, q)   == req[r] = Idle /\ Become(r, q)
At(r, op, pc) == req[r].op = op /\ req[r].pc = pc

history == <<issued, spent, retired, verified>>
Reads   == UNCHANGED <<users, tokens, codes, nextCode, now, history>>
-----------------------------------------------------------------------------
(* signUp: that the phone was verified is not asked. *)

\* checkPhoneNumberDuplicate
signUp(r) ==
  /\ \E p \in Phones \ DOMAIN users, n \in Nicknames :
       Begin(r, [Idle EXCEPT !.op = "signUp", !.pc = "nickname", !.phone = p, !.nickname = n])
  /\ Reads

NicknameTaken(n) == \E p \in DOMAIN users : users[p] = n

\* checkNicknameDuplicate, then the password is hashed, which may fail.
CheckNickname(r) ==
  /\ At(r, "signUp", "nickname")
  /\ \/ ~ NicknameTaken(req[r].nickname) /\ Goto(r, "insert")
     \/ Return(r)
  /\ Reads

\* createUser: phone and nickname are unique keys.
InsertUser(r) ==
  LET q == req[r] IN
  /\ At(r, "signUp", "insert")
  /\ users' = IF q.phone \in DOMAIN users \/ NicknameTaken(q.nickname) THEN users
              ELSE [p \in DOMAIN users \union {q.phone} |->
                      IF p = q.phone THEN q.nickname ELSE users[p]]
  /\ Return(r)
  /\ UNCHANGED <<tokens, codes, nextCode, now, history>>
-----------------------------------------------------------------------------
(* login and refresh *)

\* comparePasswordStep: the user, then the password.
login(r) ==
  /\ \E p \in DOMAIN users :
       Begin(r, [Idle EXCEPT !.op = "login", !.pc = "compare", !.phone = p])
  /\ Reads

ComparePassword(r) ==
  /\ At(r, "login", "compare")
  /\ Goto(r, "sign") \/ Return(r)
  /\ Reads

\* verifyRefreshTokenStep: the signature and the end of the token's life.
refresh(r) ==
  /\ \E x \in issued :
       /\ now < x[2] + Life
       /\ Begin(r, [Idle EXCEPT !.op = "refresh", !.pc = "stored", !.phone = x[1], !.token = x[2]])
  /\ Reads

\* Mutant of Accepted: any token with a valid signature.
AcceptedSigned(q) == tokens[q.phone] # None

\* validateStoredRefreshTokenStep
Accepted(q) == tokens[q.phone] = q.token

CompareStored(r) ==
  LET q == req[r] IN
  /\ At(r, "refresh", "stored")
  /\ IF Accepted(q) THEN Become(r, [q EXCEPT !.pc = "user", !.from = q.token]) ELSE Return(r)
  /\ Reads

FindUser(r) ==
  /\ At(r, "refresh", "user")
  /\ IF req[r].phone \in DOMAIN users THEN Goto(r, "sign") ELSE Return(r)
  /\ Reads

\* generateTokensStep: both tokens carry the user and the second.
Sign(r) ==
  /\ req[r].pc = "sign"
  /\ Become(r, [req[r] EXCEPT !.pc = "keep", !.token = now])
  /\ Reads

\* storeRefreshTokenStep, and the answer.
StoreToken(r) ==
  LET q == req[r] IN
  /\ q.pc = "keep"
  /\ tokens' = [tokens EXCEPT ![q.phone] = q.token]
  /\ issued' = issued \union {<<q.phone, q.token>>}
  /\ spent' = IF q.from \in {None, q.token} THEN spent
              ELSE [spent EXCEPT ![<<q.phone, q.from>>] = @ + 1]
  /\ retired' = IF q.from \in {None, q.token} \/ \E s \in Requests \ {r} : req[s] # Idle
                THEN retired ELSE retired \union {<<q.phone, q.from>>}
  /\ Return(r)
  /\ UNCHANGED <<users, codes, nextCode, now, verified>>
-----------------------------------------------------------------------------
(* sendCertification and verifyCertification *)

sendCertification(r) ==
  /\ \E p \in Phones \ DOMAIN users :
       Begin(r, [Idle EXCEPT !.op = "send", !.pc = "set", !.phone = p])
  /\ Reads

\* storeVerificationCode
StoreCode(r) ==
  /\ At(r, "send", "set") /\ nextCode <= MaxCode
  /\ codes' = [codes EXCEPT ![req[r].phone] = nextCode]
  /\ nextCode' = nextCode + 1
  /\ Goto(r, "sms")
  /\ UNCHANGED <<users, tokens, now, history>>

\* sendVerificationSms: the code stays stored when it cannot be sent.
SendSms(r) == At(r, "send", "sms") /\ Return(r) /\ Reads

\* fetchStoredCodeStep, validateCodeExpiration, validateCodeMatch: any code the
\* client has may be sent in; one that does not match ends the request.
verifyCertification(r) ==
  /\ \E p \in Phones :
       /\ codes[p] # None
       /\ Begin(r, [Idle EXCEPT !.op = "verify", !.pc = "del", !.phone = p, !.code = codes[p]])
  /\ Reads

\* Mutant of CodesLeft: nothing is deleted.
CodesLeftAll(p) == codes

\* deleteCodeStep deletes the key, whatever code it holds by now.
CodesLeft(p) == [codes EXCEPT ![p] = None]

DeleteCode(r) ==
  /\ At(r, "verify", "del")
  /\ codes' = CodesLeft(req[r].phone)
  /\ verified' = [verified EXCEPT ![req[r].code] = @ + 1]
  /\ Return(r)
  /\ UNCHANGED <<users, tokens, nextCode, now, issued, spent, retired>>

\* Redis lets a code go after its time.
ExpireCode ==
  /\ \E p \in Phones : codes[p] # None /\ codes' = [codes EXCEPT ![p] = None]
  /\ UNCHANGED <<users, tokens, nextCode, now, req, history>>

Tick ==
  /\ now < MaxTime /\ now' = now + 1
  /\ UNCHANGED <<users, tokens, codes, nextCode, req, history>>

\* The process dies; Redis and the database keep what they have.
Restart ==
  /\ \E r \in Requests : req[r] # Idle
  /\ req' = [r \in Requests |-> Idle]
  /\ Reads

Step(r) ==
  \/ signUp(r) \/ CheckNickname(r) \/ InsertUser(r)
  \/ login(r) \/ ComparePassword(r)
  \/ refresh(r) \/ CompareStored(r) \/ FindUser(r) \/ Sign(r) \/ StoreToken(r)
  \/ sendCertification(r) \/ StoreCode(r) \/ SendSms(r)
  \/ verifyCertification(r) \/ DeleteCode(r)

Next == ExpireCode \/ Tick \/ Restart \/ \E r \in Requests : Step(r)
Spec == Init /\ [][Next]_vars
-----------------------------------------------------------------------------
(* Properties *)

\* A verification code is looked at, compared and deleted in separate
\* commands: it is accepted once, and only once more for every other request
\* that looked before the first one deleted it.
CodesSpent == \A c \in Code : verified[c] <= Cardinality(Requests)

\* Rotation: a refresh token that was exchanged for another is never accepted
\* again, but for requests that overlap the exchange.  Every one of n requests may
\* exchange it, and a login of the same second that is still about to store it
\* brings it back once: n exchanges, after n - 1, and so on.
TokensSpent ==
  LET n == Cardinality(Requests) IN
  /\ \A p \in Phones, t \in Time : 2 * spent[<<p, t>>] <= n * (n + 1)
  /\ \A r \in Requests : req[r].from # None => <<req[r].phone, req[r].from>> \notin retired
=============================================================================

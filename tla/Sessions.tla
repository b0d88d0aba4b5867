------------------------------ MODULE Sessions ------------------------------
(***************************************************************************)
(* The refresh-token sessions of the auth server: SessionService           *)
(* (createSession, refreshSession, revokeSession) over the Redis keys      *)
(* auth:session:{sessionId}.  A request runs on the Node event loop and    *)
(* may be overtaken by any other request at each `await' of a Redis        *)
(* command, so every Redis command is a step of its own and the code       *)
(* between two commands belongs to one of them.                            *)
(*                                                                         *)
(* `now' is the clock the service reads with Date.now and Redis expires    *)
(* keys by.  One tick is any amount of time that matters.                  *)
(***************************************************************************)
EXTENDS Naturals

CONSTANTS
  Request,    \* concurrently running handler invocations
  Token,      \* session identifiers, which are the refresh tokens
  UUID,       \* external account identifiers
  Project,    \* project identifiers
  TTL,        \* TTL_SECONDS
  MaxNow,     \* bound: the clock stops here
  NoToken,    \* no session identifier
  NoRecord,   \* no value under a key
  NoClaims    \* no access token

\* A SessionRecord, without the optional client metadata.
SessionRecord ==
  [sessionId : Token, uuid : UUID, projectId : Project,
   createdAt : Nat, lastUsedAt : Nat, expiresAt : Nat]

\* What a session keeps for its whole life.
Identity == [uuid : UUID, projectId : Project, createdAt : Nat]

\* The claims of an access token that name the account and the project.
Claims == [sub : UUID, aud : Project]

ASSUME SessionsAssumption ==
  /\ TTL \in Nat \ {0}
  /\ MaxNow \in Nat
  /\ NoToken \notin Token
  /\ NoRecord \notin SessionRecord
  /\ NoRecord \notin Identity
  /\ NoClaims \notin Claims

VARIABLES
  store,      \* Redis: the record under each session key
  deadline,   \* Redis: when each key expires (0: no key)
  now,        \* the clock
  used,       \* the identifiers randomUUID has returned so far
  pc,         \* where each request stands
  tok,        \* the refresh token a request presented
  rec,        \* the record a request has read (`old') or is about to store
  access,     \* the claims of the access token a request has signed
  \* History, read by properties only:
  family,     \* the identifier of the sign-in each session descends from
  opened,     \* the identity each sign-in established
  issued,     \* the access claims delivered together with each refresh token
  spent,      \* tokens whose refresh or logout was answered with success
  ended       \* why the tokens of each family went away

redisVars == <<store, deadline>>
localVars == <<pc, tok, rec, access>>
historyVars == <<family, opened, issued, spent, ended>>
vars == <<redisVars, now, used, localVars, historyVars>>

Causes == {"logout", "expired", "failed"}

TypeOK ==
  /\ store \in [Token -> SessionRecord \cup {NoRecord}]
  /\ deadline \in [Token -> Nat]
  /\ now \in Nat
  /\ used \in SUBSET Token
  /\ pc \in [Request -> {"idle", "createSet", "refreshDel", "rotate",
                         "refreshSet", "reply", "revoked"}]
  /\ tok \in [Request -> Token \cup {NoToken}]
  /\ rec \in [Request -> SessionRecord \cup {NoRecord}]
  /\ access \in [Request -> Claims \cup {NoClaims}]
  /\ family \in [Token -> Token \cup {NoToken}]
  /\ opened \in [Token -> Identity \cup {NoRecord}]
  /\ issued \in [Token -> Claims \cup {NoClaims}]
  /\ spent \in SUBSET Token
  /\ ended \in [Token -> SUBSET Causes]

-----------------------------------------------------------------------------
(* Redis and the clients, as the service uses them.                        *)

Live(t) == store[t] # NoRecord

\* SET key record EX TTL
RedisSet(record) ==
  /\ store' = [store EXCEPT ![record.sessionId] = record]
  /\ deadline' = [deadline EXCEPT ![record.sessionId] = now + TTL]

\* Mutant of RedisDel: deletes every session of the account.
RedisDelAllOfAccount(t) ==
  LET same == {s \in Token : Live(t) /\ Live(s) /\ store[s].uuid = store[t].uuid}
  IN /\ store' = [s \in Token |-> IF s \in same THEN NoRecord ELSE store[s]]
     /\ deadline' = [s \in Token |-> IF s \in same THEN 0 ELSE deadline[s]]

\* DEL key, which ignores a missing key
RedisDel(t) ==
  /\ store' = [store EXCEPT ![t] = NoRecord]
  /\ deadline' = [deadline EXCEPT ![t] = 0]

\* The tokens a client can present: those it was handed in a reply.  It may
\* present one again, in any number of requests at the same time.
Delivered == {t \in Token : issued[t] # NoClaims}

\* Mutant of Sign: the arguments swapped.
SignSwapped(uuid, projectId) == [sub |-> projectId, aud |-> uuid]

\* TokenService.sign: sub is the account, aud the project.
Sign(uuid, projectId) == [sub |-> uuid, aud |-> projectId]

\* Mutants of Successor: the session starts anew, or is not extended.
SuccessorStartsAnew(old, t) ==
  [old EXCEPT !.sessionId = t, !.createdAt = now, !.lastUsedAt = now,
              !.expiresAt = now + TTL]
SuccessorNotExtended(old, t) == [old EXCEPT !.sessionId = t, !.lastUsedAt = now]

\* { ...old, sessionId, lastUsedAt, expiresAt }
Successor(old, t) ==
  [old EXCEPT !.sessionId = t, !.lastUsedAt = now, !.expiresAt = now + TTL]

\* A request that ends holds nothing any more.
Finish(r) ==
  /\ pc' = [pc EXCEPT ![r] = "idle"]
  /\ tok' = [tok EXCEPT ![r] = NoToken]
  /\ rec' = [rec EXCEPT ![r] = NoRecord]
  /\ access' = [access EXCEPT ![r] = NoClaims]

Init ==
  /\ store = [t \in Token |-> NoRecord]
  /\ deadline = [t \in Token |-> 0]
  /\ now = 0
  /\ used = {}
  /\ pc = [r \in Request |-> "idle"]
  /\ tok = [r \in Request |-> NoToken]
  /\ rec = [r \in Request |-> NoRecord]
  /\ access = [r \in Request |-> NoClaims]
  /\ family = [t \in Token |-> NoToken]
  /\ opened = [t \in Token |-> NoRecord]
  /\ issued = [t \in Token |-> NoClaims]
  /\ spent = {}
  /\ ended = [t \in Token |-> {}]

-----------------------------------------------------------------------------
(* createSession                                                           *)

\* Sign, draw an identifier, read the clock and build the record.
CreateSession(r, uuid, projectId, t) ==
  /\ pc[r] = "idle"
  /\ t \notin used
  /\ access' = [access EXCEPT ![r] = Sign(uuid, projectId)]
  /\ used' = used \cup {t}
  /\ rec' = [rec EXCEPT ![r] =
               [sessionId |-> t, uuid |-> uuid, projectId |-> projectId,
                createdAt |-> now, lastUsedAt |-> now, expiresAt |-> now + TTL]]
  /\ pc' = [pc EXCEPT ![r] = "createSet"]
  /\ family' = [family EXCEPT ![t] = t]
  /\ opened' = [opened EXCEPT ![t] =
                  [uuid |-> uuid, projectId |-> projectId, createdAt |-> now]]
  /\ UNCHANGED <<redisVars, now, tok, issued, spent, ended>>

CreateSet(r) ==
  /\ pc[r] = "createSet"
  /\ RedisSet(rec[r])
  /\ pc' = [pc EXCEPT ![r] = "reply"]
  /\ UNCHANGED <<now, used, tok, rec, access, historyVars>>

-----------------------------------------------------------------------------
(* refreshSession                                                          *)

RefreshGet(r, t) ==
  /\ pc[r] = "idle"
  /\ t \in Delivered
  /\ Live(t)
  /\ tok' = [tok EXCEPT ![r] = t]
  /\ rec' = [rec EXCEPT ![r] = store[t]]
  /\ pc' = [pc EXCEPT ![r] = "refreshDel"]
  /\ UNCHANGED <<redisVars, now, used, access, historyVars>>

\* GET returned nothing: 401, and nothing changes.
RefreshUnauthorized(r, t) ==
  /\ pc[r] = "idle"
  /\ t \in Delivered
  /\ ~Live(t)
  /\ UNCHANGED vars

\* Mutant of RefreshDel: the old token is not deleted.
RefreshKeepsOld(r) ==
  /\ pc[r] = "refreshDel"
  /\ pc' = [pc EXCEPT ![r] = "rotate"]
  /\ UNCHANGED <<redisVars, now, used, tok, rec, access, historyVars>>

RefreshDel(r) ==
  /\ pc[r] = "refreshDel"
  /\ RedisDel(tok[r])
  /\ pc' = [pc EXCEPT ![r] = "rotate"]
  /\ UNCHANGED <<now, used, tok, rec, access, historyVars>>

\* Draw an identifier, read the clock, sign, and build the successor of `old'.
Rotate(r, t) ==
  /\ pc[r] = "rotate"
  /\ t \notin used
  /\ used' = used \cup {t}
  /\ access' = [access EXCEPT ![r] = Sign(rec[r].uuid, rec[r].projectId)]
  /\ rec' = [rec EXCEPT ![r] = Successor(rec[r], t)]
  /\ pc' = [pc EXCEPT ![r] = "refreshSet"]
  /\ family' = [family EXCEPT ![t] = family[tok[r]]]
  /\ UNCHANGED <<redisVars, now, tok, opened, issued, spent, ended>>

\* Mutants of RefreshSet: the new session is not stored, or under the old key.
RefreshSetForgotten(r) ==
  /\ pc[r] = "refreshSet"
  /\ pc' = [pc EXCEPT ![r] = "reply"]
  /\ UNCHANGED <<redisVars, now, used, tok, rec, access, historyVars>>
RefreshSetOldKey(r) ==
  /\ pc[r] = "refreshSet"
  /\ RedisSet([rec[r] EXCEPT !.sessionId = tok[r]])
  /\ pc' = [pc EXCEPT ![r] = "reply"]
  /\ UNCHANGED <<now, used, tok, rec, access, historyVars>>

RefreshSet(r) ==
  /\ pc[r] = "refreshSet"
  /\ RedisSet(rec[r])
  /\ pc' = [pc EXCEPT ![r] = "reply"]
  /\ UNCHANGED <<now, used, tok, rec, access, historyVars>>

\* { accessToken, refreshToken: sessionId } reaches the client, after either
\* createSession (no token was presented) or refreshSession.
Reply(r) ==
  /\ pc[r] = "reply"
  /\ issued' = [issued EXCEPT ![rec[r].sessionId] = access[r]]
  /\ spent' = spent \cup ({tok[r]} \ {NoToken})
  /\ Finish(r)
  /\ UNCHANGED <<redisVars, now, used, family, opened, ended>>

-----------------------------------------------------------------------------
(* revokeSession                                                           *)

\* Mutant of RevokeDel: answers without deleting.
RevokeKeeps(r, t) ==
  /\ pc[r] = "idle"
  /\ t \in Delivered
  /\ tok' = [tok EXCEPT ![r] = t]
  /\ pc' = [pc EXCEPT ![r] = "revoked"]
  /\ ended' = IF Live(t)
              THEN [ended EXCEPT ![family[t]] = @ \cup {"logout"}]
              ELSE ended
  /\ UNCHANGED <<redisVars, now, used, rec, access, family, opened, issued, spent>>

RevokeDel(r, t) ==
  /\ pc[r] = "idle"
  /\ t \in Delivered
  /\ RedisDel(t)
  /\ tok' = [tok EXCEPT ![r] = t]
  /\ pc' = [pc EXCEPT ![r] = "revoked"]
  /\ ended' = IF Live(t)
              THEN [ended EXCEPT ![family[t]] = @ \cup {"logout"}]
              ELSE ended
  /\ UNCHANGED <<now, used, rec, access, family, opened, issued, spent>>

RevokeReply(r) ==
  /\ pc[r] = "revoked"
  /\ spent' = spent \cup {tok[r]}
  /\ Finish(r)
  /\ UNCHANGED <<redisVars, now, used, family, opened, issued, ended>>

-----------------------------------------------------------------------------
(* The environment                                                         *)

\* A Redis command is rejected, the process dies or the reply is lost.  Nothing
\* is rolled back: what Redis has already executed stays.
Fail(r) ==
  /\ pc[r] # "idle"
  /\ ended' = IF pc[r] \in {"rotate", "refreshSet"}
              THEN [ended EXCEPT ![family[tok[r]]] = @ \cup {"failed"}]
              ELSE ended
  /\ Finish(r)
  /\ UNCHANGED <<redisVars, now, used, family, opened, issued, spent>>

\* Time passes, and Redis drops the keys whose time to live is over.
Tick ==
  /\ now < MaxNow
  /\ now' = now + 1
  /\ LET due == {t \in Token : Live(t) /\ deadline[t] <= now + 1}
     IN /\ store' = [t \in Token |-> IF t \in due THEN NoRecord ELSE store[t]]
        /\ deadline' = [t \in Token |-> IF t \in due THEN 0 ELSE deadline[t]]
        /\ ended' = [f \in Token |->
                       IF \E t \in due : family[t] = f
                       THEN ended[f] \cup {"expired"} ELSE ended[f]]
  /\ UNCHANGED <<used, localVars, family, opened, issued, spent>>

-----------------------------------------------------------------------------

Next ==
  \/ \E r \in Request, t \in Token :
       \/ \E uuid \in UUID, projectId \in Project :
            CreateSession(r, uuid, projectId, t)
       \/ RefreshGet(r, t)
       \/ RefreshUnauthorized(r, t)
       \/ Rotate(r, t)
       \/ RevokeDel(r, t)
  \/ \E r \in Request :
       \/ CreateSet(r)
       \/ RefreshDel(r)
       \/ RefreshSet(r)
       \/ Reply(r)
       \/ RevokeReply(r)
       \/ Fail(r)
  \/ Tick

Spec == Init /\ [][Next]_vars

-----------------------------------------------------------------------------
(* What holds however the requests overlap                                 *)

\* A token whose refresh or logout was answered with success is dead: no later
\* request can use it, and no handler still running will store it again
\* (refreshSession deletes before it sets, revokeSession deletes).
SpentIsDead == \A t \in spent : ~Live(t)

\* Rotation carries the session along unchanged: the stored record, and the
\* access token handed out with each refresh token, name the account, the
\* project and the creation time of the sign-in the token descends from, over
\* any number of refreshes by any interleaving of handlers.
LineageKeepsIdentity ==
  \A t \in Token :
    /\ Live(t) =>
         /\ store[t].sessionId = t
         /\ [uuid |-> store[t].uuid, projectId |-> store[t].projectId,
             createdAt |-> store[t].createdAt] = opened[family[t]]
    /\ t \in Delivered =>
         issued[t] = Sign(opened[family[t]].uuid, opened[family[t]].projectId)

\* The record's own dates agree with the clock and with Redis: the session is
\* extended from its last use, and the key outlives the expiry the record
\* announces, though the clock was read before the SET was executed.
RollingWindow ==
  \A t \in Token : Live(t) =>
    /\ store[t].createdAt <= store[t].lastUsedAt
    /\ store[t].lastUsedAt <= now
    /\ store[t].expiresAt = store[t].lastUsedAt + TTL
    /\ store[t].expiresAt <= deadline[t]
    /\ now < deadline[t]

\* A signed-in family whose tokens are all dead, with no handler between its DEL
\* and its SET, was logged out, expired, or was lost by a refresh that failed
\* between the two.  Overlapping refreshes never lose it by themselves.
NoSilentLoss ==
  \A f \in Delivered :
    \/ \E t \in Token : Live(t) /\ family[t] = family[f]
    \/ \E r \in Request : /\ pc[r] \in {"rotate", "refreshSet"}
                          /\ family[tok[r]] = family[f]
    \/ ended[family[f]] # {}

\* A token that a reply has carried and that has disappeared never comes back.
RetiredStaysRetired ==
  [][\A t \in Delivered : ~Live(t) => store'[t] = NoRecord]_vars

\* A session leaves Redis only by a DEL of a request that names it, or once
\* the expiry its record announces is reached; never earlier.
EndsOnlyByRequestOrExpiry ==
  [][\A t \in Token : Live(t) /\ store'[t] = NoRecord =>
       \/ store[t].expiresAt <= now'
       \/ \E r \in Request : tok'[r] = t /\ pc[r] # pc'[r]]_vars

-----------------------------------------------------------------------------
(* What the comments of session.controller.ts say                          *)

\* "The old refresh token is discarded at once (token rotation)": one sign-in
\* has at most one usable refresh token.
OneLiveTokenPerSignIn ==
  \A t1, t2 \in Token :
    Live(t1) /\ Live(t2) /\ family[t1] = family[t2] => t1 = t2

\* "Discards the refresh token to end the session (logout)": once a logout has
\* deleted the live token of a sign-in, the sign-in has no live token.
LogoutEndsSession ==
  \A t \in Token : Live(t) => "logout" \notin ended[family[t]]
=============================================================================

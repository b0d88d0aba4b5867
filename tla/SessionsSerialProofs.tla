------------------------ MODULE SessionsSerialProofs ------------------------
(***************************************************************************)
(* Theorems about SessionsSerial: what a client that waits for its answers *)
(* may rely on, and that the service then keeps the promise of             *)
(* SessionPromise.  They rest on SerialInv, which says that every sign-in  *)
(* is held by one token at a time.                                         *)
(***************************************************************************)
EXTENDS SessionsSerial, SessionsProofs

\* A token by which its sign-in goes on: it is live, or a handler is about to
\* store it for the first time or to replace it.
Creating(r) == pc[r] = "createSet"

Held(t) ==
  \/ Live(t)
  \/ \E r \in Request : Rotating(r) /\ tok[r] = t
  \/ \E r \in Request : Creating(r) /\ rec[r].sessionId = t

\* A sign-in goes on by one token.
OneHeld ==
  \A t1, t2 \in Token : Held(t1) /\ Held(t2) /\ family[t1] = family[t2] => t1 = t2

\* One that goes on was not logged out, and one not stored yet has not ended.
EndedInv ==
  /\ \A t \in Token : Held(t) => "logout" \notin ended[family[t]]
  /\ \A f \in Token : ended[f] # {} => f \in used
  /\ \A r \in Request : Creating(r) =>
       family[rec[r].sessionId] = rec[r].sessionId /\ ended[rec[r].sessionId] = {}

\* A token that goes away while its refresh is about to delete it has expired.
OvertakenInv ==
  \A r \in Request : pc[r] = "refreshDel" /\ ~Live(tok[r]) => ended[family[tok[r]]] # {}

SerialInv == Serial /\ OneHeld /\ EndedInv /\ OvertakenInv

-----------------------------------------------------------------------------
(* What is held                                                            *)

\* The tokens handlers hold have been drawn, and are not held in two ways.
LEMMA HeldFacts ==
  ASSUME Ind
  PROVE  /\ \A t \in Token : Held(t) => t \in used /\ family[t] \in used
         /\ \A r \in Request : Rotating(r) =>
              /\ tok[r] \in Delivered /\ tok[r] \in Token /\ tok[r] # NoToken
              /\ tok[r] \in used /\ family[tok[r]] \in used
         /\ \A r \in Request : Creating(r) =>
              /\ rec[r].sessionId \in Token /\ rec[r].sessionId \in used
              /\ ~Live(rec[r].sessionId) /\ rec[r].sessionId \notin Delivered
              /\ tok[r] = NoToken
         /\ used \subseteq Token
<1>1. \A r \in Request : Rotating(r) =>
        /\ tok[r] \in Delivered /\ tok[r] \in Token /\ tok[r] # NoToken
        /\ tok[r] \in used /\ family[tok[r]] \in used
  BY DEF Ind, HandlerInv, HandlerOK, DeliveredInv, Drawn, Rotating, Delivered, TypeOK
<1>2. \A r \in Request : Creating(r) =>
        /\ rec[r].sessionId \in Token /\ rec[r].sessionId \in used
        /\ family[rec[r].sessionId] \in used
        /\ ~Live(rec[r].sessionId) /\ rec[r].sessionId \notin Delivered
        /\ tok[r] = NoToken
  BY DEF Ind, HandlerInv, HandlerOK, HoldsRecord, RecordOK, Drawn, SessionRecord,
     FreshInv, Pending, Creating
<1>3. \A t \in Token : Live(t) => t \in used /\ family[t] \in used
  BY DEF Ind, StoreInv, RecordOK, Drawn, TypeOK
<1>4. QED
  BY <1>1, <1>2, <1>3 DEF Held, Ind, TypeOK

\* A step after which nothing else is held, and no held sign-in logged out.
LEMMA NothingNewHeld ==
  ASSUME Ind, SerialInv,
         \A t \in Token : Held(t)' => Held(t),
         \A t \in used : family'[t] = family[t],
         \A t \in Token : Held(t)' /\ "logout" \in ended'[family[t]] =>
           "logout" \in ended[family[t]]
  PROVE  OneHeld' /\ \A t \in Token : Held(t)' => "logout" \notin ended'[family'[t]]
BY HeldFacts DEF SerialInv, OneHeld, EndedInv

\* A step that changes nothing but where a handler stands.
LEMMA NothingEnds ==
  ASSUME Ind, SerialInv, Serial',
         \A t \in Token : Held(t)' => Held(t),
         \A t \in used : family'[t] = family[t],
         used \subseteq used', ended' = ended,
         \A q \in Request : Creating(q)' => Creating(q) /\ rec'[q] = rec[q],
         OvertakenInv'
  PROVE  SerialInv'
BY NothingNewHeld, HeldFacts DEF SerialInv, EndedInv

-----------------------------------------------------------------------------
(* Every step preserves the invariant                                      *)

LEMMA CreateSessionSerial ==
  ASSUME Ind, SerialInv, Serial', NEW r \in Request, NEW t \in Token,
         NEW uuid \in UUID, NEW projectId \in Project,
         CreateSession(r, uuid, projectId, t)
  PROVE  SerialInv'
<1> USE DEF CreateSession, redisVars, localVars, historyVars
<1>1. \A q \in Request :
        /\ Rotating(q)' <=> Rotating(q)
        /\ Creating(q)' <=> Creating(q) \/ q = r
        /\ q # r => rec'[q] = rec[q] /\ pc'[q] = pc[q]
        /\ tok'[q] = tok[q]
  BY DEF Ind, TypeOK, Rotating, Creating
<1>2. rec'[r].sessionId = t
  BY DEF Ind, TypeOK
<1>3. /\ family'[t] = t
      /\ \A s \in used : family'[s] = family[s] /\ s # t
  BY DEF Ind, TypeOK
<1>4. \A s \in Token : Held(s)' => Held(s) \/ s = t
  BY <1>1, <1>2 DEF Held, Live
<1>5. OneHeld'
  BY <1>3, <1>4, HeldFacts DEF OneHeld, SerialInv
<1>6. ended[t] = {}
  BY DEF SerialInv, EndedInv
<1>7. EndedInv'
  BY <1>1, <1>2, <1>3, <1>4, <1>6, HeldFacts DEF EndedInv, SerialInv
<1>8. OvertakenInv'
  <2> SUFFICES ASSUME NEW q \in Request, pc'[q] = "refreshDel", ~Live(tok[q])'
               PROVE  ended'[family'[tok'[q]]] # {}
    BY DEF OvertakenInv
  <2>1. q # r /\ pc[q] = "refreshDel" /\ ~Live(tok[q])
    BY <1>1 DEF Ind, TypeOK, Live
  <2>2. QED
    BY <1>1, <1>3, <2>1, HeldFacts DEF OvertakenInv, SerialInv, Rotating
<1>9. QED
  BY <1>5, <1>7, <1>8 DEF SerialInv

LEMMA CreateSetSerial ==
  ASSUME Ind, SerialInv, Serial', NEW r \in Request, CreateSet(r)
  PROVE  SerialInv'
<1> USE DEF CreateSet, RedisSet, redisVars, localVars, historyVars
<1>1. Creating(r)
  BY DEF Creating
<1>2. \A s \in Token : Live(s)' <=> Live(s) \/ s = rec[r].sessionId
  BY <1>1, HeldFacts, SessionsAssumption DEF Live, Ind, TypeOK, HandlerInv, HandlerOK,
     HoldsRecord, RecordOK, Creating
<1>3. \A q \in Request :
        /\ Rotating(q)' <=> Rotating(q)
        /\ Creating(q)' => Creating(q)
        /\ pc'[q] = "refreshDel" => pc[q] = "refreshDel"
  BY DEF Ind, TypeOK, Rotating, Creating
<1>4. \A s \in Token : Held(s)' => Held(s)
  BY <1>1, <1>2, <1>3 DEF Held
<1>5. OvertakenInv'
  BY <1>2, <1>3, HeldFacts DEF OvertakenInv, SerialInv, Rotating
<1>6. QED
  BY <1>3, <1>4, <1>5, NothingEnds

LEMMA RefreshGetSerial ==
  ASSUME Ind, SerialInv, Serial', NEW r \in Request, NEW t \in Token, RefreshGet(r, t)
  PROVE  SerialInv'
<1> USE DEF RefreshGet, redisVars, localVars, historyVars
<1>1. \A q \in Request :
        /\ q # r => pc'[q] = pc[q] /\ tok'[q] = tok[q] /\ rec'[q] = rec[q]
        /\ ~Creating(r)'
  BY DEF Ind, TypeOK, Creating
<1>2. tok'[r] = t /\ Live(t) /\ pc'[r] = "refreshDel"
  BY DEF Ind, TypeOK
<1>3. \A s \in Token : Held(s)' => Held(s)
  BY <1>1, <1>2 DEF Held, Live, Rotating, Creating
<1>4. OvertakenInv'
  BY <1>1, <1>2 DEF OvertakenInv, SerialInv, Live
<1>5. QED
  BY <1>1, <1>3, <1>4, NothingEnds DEF Creating

LEMMA RefreshDelSerial ==
  ASSUME Ind, SerialInv, Serial', NEW r \in Request, RefreshDel(r)
  PROVE  SerialInv'
<1> USE DEF RefreshDel, RedisDel, redisVars, localVars, historyVars
<1>1. Rotating(r)
  BY DEF Rotating
<1>2. \A s \in Token : Live(s)' <=> Live(s) /\ s # tok[r]
  BY <1>1, HeldFacts DEF Live, Ind, TypeOK
<1>3. \A q \in Request :
        /\ Rotating(q)' <=> Rotating(q)
        /\ Creating(q)' <=> Creating(q)
        /\ pc'[q] = "refreshDel" => pc[q] = "refreshDel" /\ q # r
  BY DEF Ind, TypeOK, Rotating, Creating
<1>4. \A s \in Token : Held(s)' => Held(s)
  BY <1>2, <1>3 DEF Held
<1>5. \A q \in Request : pc'[q] = "refreshDel" => tok[q] # tok[r]
  BY <1>1, <1>3, HeldFacts DEF SerialInv, Serial
<1>6. OvertakenInv'
  BY <1>2, <1>3, <1>5, HeldFacts DEF OvertakenInv, SerialInv, Rotating
<1>7. QED
  BY <1>3, <1>4, <1>6, NothingEnds

LEMMA RotateSerial ==
  ASSUME Ind, SerialInv, Serial', NEW r \in Request, NEW t \in Token, Rotate(r, t)
  PROVE  SerialInv'
<1> USE DEF Rotate, redisVars, localVars, historyVars
<1>1. \A q \in Request :
        /\ Rotating(q)' <=> Rotating(q)
        /\ Creating(q)' <=> Creating(q)
        /\ q # r => rec'[q] = rec[q] /\ pc'[q] = pc[q]
        /\ ~Creating(r)
        /\ pc'[r] = "refreshSet"
  BY DEF Ind, TypeOK, Rotating, Creating
<1>2. \A s \in used : family'[s] = family[s]
  BY DEF Ind, TypeOK
<1>3. \A s \in Token : Held(s)' => Held(s)
  BY <1>1 DEF Held, Live
<1>4. OvertakenInv'
  BY <1>1, <1>2, HeldFacts DEF OvertakenInv, SerialInv, Rotating, Live
<1>5. QED
  BY <1>1, <1>2, <1>3, <1>4, NothingEnds

\* The new token takes over from the one that was deleted.
LEMMA RefreshSetSerial ==
  ASSUME Ind, SerialInv, Serial', NEW r \in Request, RefreshSet(r)
  PROVE  SerialInv'
<1> USE DEF RefreshSet, RedisSet, redisVars, localVars, historyVars
<1> DEFINE t == rec[r].sessionId
<1>1. Rotating(r)
  BY DEF Rotating
<1>2. /\ rec[r] \in SessionRecord /\ t \in Token /\ t \in used
      /\ t \notin Delivered /\ ~Live(tok[r]) /\ family[t] = family[tok[r]]
  BY HeldFacts, <1>1 DEF Ind, HandlerInv, HandlerOK, HoldsRecord, RecordOK, Drawn,
     SessionRecord, FreshInv, Pending, DeadInv
<1>3. \A s \in Token : Live(s)' <=> Live(s) \/ s = t
  BY <1>2, SessionsAssumption DEF Live, Ind, TypeOK
<1>4. \A q \in Request :
        /\ Rotating(q)' <=> Rotating(q) /\ q # r
        /\ Creating(q)' <=> Creating(q)
        /\ pc'[q] = "refreshDel" => pc[q] = "refreshDel"
  BY DEF Ind, TypeOK, Rotating, Creating
<1>5. \A q \in Request : Rotating(q)' => tok[q] # tok[r]
  BY <1>1, <1>4, HeldFacts DEF SerialInv, Serial
<1>6. \A q \in Request : Creating(q) => rec[q].sessionId # tok[r]
  BY <1>1, HeldFacts
<1>7. Held(tok[r]) /\ tok[r] \in Token /\ tok[r] # t
  BY <1>1, <1>2, HeldFacts DEF Held
<1>8. \A s \in Token : Held(s)' => s = t \/ (Held(s) /\ s # tok[r])
  BY <1>2, <1>3, <1>4, <1>5, <1>6 DEF Held
<1>9. OneHeld'
  BY <1>2, <1>7, <1>8 DEF OneHeld, SerialInv
<1>10. EndedInv'
  BY <1>2, <1>4, <1>7, <1>8 DEF EndedInv, SerialInv
<1>11. OvertakenInv'
  BY <1>3, <1>4, HeldFacts DEF OvertakenInv, SerialInv, Rotating
<1>12. QED
  BY <1>9, <1>10, <1>11 DEF SerialInv

\* A handler that ends leaves what the others hold alone.
LEMMA FinishHolds ==
  ASSUME Ind, NEW r \in Request, Finish(r), UNCHANGED redisVars
  PROVE  /\ \A q \in Request :
              q # r => pc'[q] = pc[q] /\ tok'[q] = tok[q] /\ rec'[q] = rec[q]
         /\ pc'[r] = "idle" /\ ~Rotating(r)' /\ ~Creating(r)'
         /\ \A t \in Token : Live(t)' <=> Live(t)
         /\ \A t \in Token : Held(t)' => Held(t)
<1>1. /\ \A q \in Request :
           q # r => pc'[q] = pc[q] /\ tok'[q] = tok[q] /\ rec'[q] = rec[q]
      /\ pc'[r] = "idle"
  BY DEF Finish, Ind, TypeOK
<1>2. \A t \in Token : Live(t)' <=> Live(t)
  BY DEF Live, redisVars
<1>3. QED
  BY <1>1, <1>2 DEF Held, Rotating, Creating

LEMMA ReplySerial ==
  ASSUME Ind, SerialInv, Serial', NEW r \in Request, Reply(r) \/ RevokeReply(r)
  PROVE  SerialInv'
<1>1. Finish(r) /\ UNCHANGED <<redisVars, used, family, ended>>
  BY DEF Reply, RevokeReply
<1>2. OvertakenInv'
  BY <1>1, FinishHolds, HeldFacts DEF OvertakenInv, SerialInv, Rotating
<1>3. QED
  BY <1>1, <1>2, FinishHolds, NothingEnds DEF Creating

LEMMA RevokeDelSerial ==
  ASSUME Ind, SerialInv, Serial', NEW r \in Request, NEW t \in Token, RevokeDel(r, t)
  PROVE  SerialInv'
<1> USE DEF RevokeDel, RedisDel, redisVars, localVars, historyVars
<1>1. \A s \in Token : Live(s)' <=> Live(s) /\ s # t
  BY DEF Live, Ind, TypeOK
<1>2. \A q \in Request :
        /\ q # r => pc'[q] = pc[q] /\ tok'[q] = tok[q]
        /\ rec'[q] = rec[q]
        /\ pc'[r] = "revoked" /\ tok'[r] = t
  BY DEF Ind, TypeOK
<1>3. \A q \in Request :
        /\ Rotating(q)' => Rotating(q) /\ tok[q] # t /\ q # r
        /\ Creating(q)' => Creating(q) /\ rec[q].sessionId # t
  BY <1>2, HeldFacts, SessionsAssumption DEF Rotating, Creating, Serial
<1>4. \A s \in Token : Held(s)' => Held(s) /\ s # t
  BY <1>1, <1>2, <1>3 DEF Held
<1>5. \A f \in Token :
        /\ ended[f] \subseteq ended'[f]
        /\ ended'[f] # ended[f] => Live(t) /\ f = family[t]
  BY DEF Ind, TypeOK
<1>6. \A s \in Token : Live(s) => Held(s)
  BY DEF Held
<1>7. \A s \in Token : Held(s)' => family[s] \in Token /\ ended'[family[s]] = ended[family[s]]
  BY <1>4, <1>5, <1>6, HeldFacts DEF SerialInv, OneHeld
<1>8. OneHeld' /\ \A s \in Token : Held(s)' => "logout" \notin ended'[family'[s]]
  BY <1>4, <1>7 DEF SerialInv, OneHeld, EndedInv
<1>9. \A f \in Token : ended'[f] # {} => f \in used'
  BY <1>5, <1>6, HeldFacts DEF SerialInv, EndedInv
<1>10. ASSUME NEW q \in Request, Creating(q)'
       PROVE  /\ family'[rec'[q].sessionId] = rec'[q].sessionId
              /\ ended'[rec'[q].sessionId] = {}
  <2>1. Creating(q) /\ rec[q].sessionId \in Token /\ rec'[q] = rec[q]
    BY <1>2, <1>3, <1>10, HeldFacts
  <2>2. Held(rec[q].sessionId)' /\ family[rec[q].sessionId] = rec[q].sessionId
    BY <1>2, <1>10, <2>1 DEF Held, SerialInv, EndedInv
  <2>3. QED
    BY <1>7, <2>1, <2>2 DEF SerialInv, EndedInv
<1>11. EndedInv'
  BY <1>8, <1>9, <1>10 DEF EndedInv
<1>12. ASSUME NEW q \in Request, pc'[q] = "refreshDel", ~Live(tok[q])'
       PROVE  ended'[family'[tok'[q]]] # {}
  <2>1. Rotating(q) /\ tok[q] # t /\ q # r /\ tok[q] \in Token
    BY <1>2, <1>3, <1>12, HeldFacts DEF Rotating
  <2>2. pc[q] = "refreshDel" /\ tok'[q] = tok[q] /\ ~Live(tok[q])
    BY <1>1, <1>2, <1>12, <2>1
  <2>3. QED
    BY <1>5, <2>1, <2>2, HeldFacts DEF OvertakenInv, SerialInv
<1>13. OvertakenInv'
  BY <1>12 DEF OvertakenInv
<1>14. QED
  BY <1>8, <1>11, <1>13 DEF SerialInv

LEMMA FailSerial ==
  ASSUME Ind, SerialInv, Serial', NEW r \in Request, Fail(r)
  PROVE  SerialInv'
<1>1. Finish(r) /\ UNCHANGED <<redisVars, used, family>>
  BY DEF Fail
<1>2. \A f \in Token :
        /\ ended[f] \subseteq ended'[f] /\ ended'[f] \subseteq ended[f] \cup {"failed"}
        /\ ended'[f] # ended[f] => Rotating(r) /\ family[tok[r]] = f
  BY DEF Fail, Ind, TypeOK, Rotating
<1>3. \A t \in Token : Held(t)' => Held(t)
  BY <1>1, FinishHolds
<1>4. OneHeld' /\ \A t \in Token : Held(t)' => "logout" \notin ended'[family'[t]]
  BY <1>1, <1>2, <1>3, NothingNewHeld, HeldFacts
<1>5. \A f \in Token : ended'[f] # {} => f \in used'
  BY <1>1, <1>2, HeldFacts DEF SerialInv, EndedInv
<1>6. ASSUME NEW q \in Request, Creating(q)'
      PROVE  /\ family'[rec'[q].sessionId] = rec'[q].sessionId
             /\ ended'[rec'[q].sessionId] = {}
  <2>1. Creating(q) /\ rec'[q] = rec[q] /\ rec[q].sessionId \in Token /\ q # r
    BY <1>1, <1>6, FinishHolds, HeldFacts DEF Creating
  <2>2. Rotating(r) => tok[r] # rec[q].sessionId /\ family[tok[r]] # family[rec[q].sessionId]
    BY <2>1, HeldFacts DEF Held, SerialInv, OneHeld
  <2>3. QED
    BY <1>1, <1>2, <2>1, <2>2 DEF SerialInv, EndedInv
<1>7. OvertakenInv'
  BY <1>1, <1>2, FinishHolds, HeldFacts DEF OvertakenInv, SerialInv, Rotating
<1>8. QED
  BY <1>4, <1>5, <1>6, <1>7 DEF SerialInv, EndedInv

LEMMA TickSerial ==
  ASSUME Ind, SerialInv, Serial', Tick
  PROVE  SerialInv'
<1> USE DEF Tick, redisVars, localVars, historyVars
<1>1. \A t \in Token :
        /\ Live(t)' => Live(t)
        /\ Live(t) /\ ~Live(t)' /\ family[t] \in Token => ended'[family[t]] # {}
  BY SessionsAssumption DEF Live
<1>2. \A f \in Token :
        /\ ended[f] \subseteq ended'[f] /\ ended'[f] \subseteq ended[f] \cup {"expired"}
        /\ ended'[f] # ended[f] => \E t \in Token : Live(t) /\ family[t] = f
  BY DEF Live
<1>3. \A t \in Token : Held(t)' => Held(t)
  BY <1>1 DEF Held, Rotating, Creating
<1>4. OneHeld' /\ \A t \in Token : Held(t)' => "logout" \notin ended'[family'[t]]
  BY <1>2, <1>3, NothingNewHeld, HeldFacts
<1>5. \A f \in Token : ended'[f] # {} => f \in used'
  BY <1>2, HeldFacts DEF SerialInv, EndedInv, Held
<1>6. ASSUME NEW q \in Request, Creating(q)
      PROVE  ended'[rec[q].sessionId] = {}
  <2>1. /\ rec[q].sessionId \in Token /\ ~Live(rec[q].sessionId)
        /\ Held(rec[q].sessionId)
        /\ family[rec[q].sessionId] = rec[q].sessionId /\ ended[rec[q].sessionId] = {}
    BY <1>6, HeldFacts DEF SerialInv, EndedInv, Held
  <2>2. \A t \in Token : Live(t) => family[t] # rec[q].sessionId
    BY <2>1 DEF Held, SerialInv, OneHeld
  <2>3. QED
    BY <1>2, <2>1, <2>2
<1>7. EndedInv'
  BY <1>4, <1>5, <1>6 DEF EndedInv, SerialInv, Creating
<1>8. OvertakenInv'
  BY <1>1, <1>2, HeldFacts DEF OvertakenInv, SerialInv, Rotating
<1>9. QED
  BY <1>4, <1>7, <1>8 DEF SerialInv

LEMMA SameSerial ==
  ASSUME SerialInv, UNCHANGED vars
  PROVE  SerialInv'
BY DEF SerialInv, Serial, OneHeld, EndedInv, OvertakenInv, Held, Live, Rotating, Creating,
   vars, redisVars, localVars, historyVars

LEMMA SerialNextPreserves ==
  ASSUME Ind, SerialInv, [SerialNext]_vars
  PROVE  SerialInv'
<1> SUFFICES ASSUME Next, Serial' PROVE SerialInv'
  BY SameSerial DEF SerialNext
<1>1. ASSUME NEW r \in Request, NEW t \in Token, NEW uuid \in UUID,
             NEW projectId \in Project, CreateSession(r, uuid, projectId, t)
      PROVE  SerialInv'
  BY <1>1, CreateSessionSerial
<1>2. ASSUME NEW r \in Request, NEW t \in Token,
             \/ RefreshGet(r, t) \/ RefreshUnauthorized(r, t)
             \/ Rotate(r, t) \/ RevokeDel(r, t)
      PROVE  SerialInv'
  BY <1>2, RefreshGetSerial, RotateSerial, RevokeDelSerial, SameSerial
     DEF RefreshUnauthorized
<1>3. ASSUME NEW r \in Request,
             \/ CreateSet(r) \/ RefreshDel(r) \/ RefreshSet(r)
             \/ Reply(r) \/ RevokeReply(r) \/ Fail(r)
      PROVE  SerialInv'
  BY <1>3, CreateSetSerial, RefreshDelSerial, RefreshSetSerial, ReplySerial, FailSerial
<1>4. QED
  BY <1>1, <1>2, <1>3, TickSerial DEF Next

LEMMA InitSerial == Init => SerialInv
BY SessionsAssumption DEF Init, SerialInv, Serial, OneHeld, EndedInv, OvertakenInv, Held,
   Live, Rotating, Creating

\* For clients that wait, both invariants hold.
THEOREM SerialInvariance == SerialSpec => [](Ind /\ SerialInv)
<1>1. Init => Ind /\ SerialInv
  BY InitInd, InitSerial
<1>2. Ind /\ SerialInv /\ [SerialNext]_vars => (Ind /\ SerialInv)'
  BY NextPreserves, SerialNextPreserves DEF SerialNext
<1>3. QED
  BY <1>1, <1>2, PTL DEF SerialSpec

-----------------------------------------------------------------------------
(* The theorems                                                            *)

\* One sign-in has at most one usable refresh token.
THEOREM OneToken == SerialSpec => []OneLiveTokenPerSignIn
<1>1. SerialInv => OneLiveTokenPerSignIn
  BY DEF SerialInv, OneHeld, Held, OneLiveTokenPerSignIn
<1>2. QED
  BY <1>1, SerialInvariance, PTL

\* A sign-in that was logged out has no live token.
THEOREM LogoutIsFinal == SerialSpec => []LogoutEndsSession
<1>1. SerialInv => LogoutEndsSession
  BY DEF SerialInv, EndedInv, Held, LogoutEndsSession
<1>2. QED
  BY <1>1, SerialInvariance, PTL

-----------------------------------------------------------------------------
(* The refinement: what the promise sees of a session                      *)

HasLive(s) == \E t \in Token : Live(t) /\ family[t] = s
HandedOver(s) == \E r \in Request : Rotating(r) /\ family[tok[r]] = s

LEMMA PhaseIs ==
  \A s \in Token :
    Phase(s) = IF HasLive(s) THEN "open"
               ELSE IF HandedOver(s) THEN "handover"
               ELSE IF ended[s] # {} THEN "closed" ELSE "unopened"
BY DEF Phase, HasLive, HandedOver

LEMMA CurrentIs ==
  OneHeld =>
    \A s \in Token :
      /\ ~HasLive(s) => CurrentToken(s) = NoToken
      /\ \A t \in Token : Live(t) /\ family[t] = s => CurrentToken(s) = t
<1> SUFFICES ASSUME OneHeld, NEW s \in Token
             PROVE  /\ ~HasLive(s) => CurrentToken(s) = NoToken
                    /\ \A t \in Token : Live(t) /\ family[t] = s => CurrentToken(s) = t
  OBVIOUS
<1>1. ~HasLive(s) => CurrentToken(s) = NoToken
  BY PhaseIs DEF CurrentToken
<1>2. ASSUME NEW t \in Token, Live(t), family[t] = s PROVE CurrentToken(s) = t
  <2>1. Phase(s) = "open"
    BY <1>2, PhaseIs DEF HasLive
  <2>2. \A u \in Token : Live(u) /\ family[u] = s <=> u = t
    BY <1>2 DEF OneHeld, Held
  <2>3. (CHOOSE u \in Token : Live(u) /\ family[u] = s) = t
    BY <2>2
  <2>4. QED
    BY <2>1, <2>3 DEF CurrentToken
<1>3. QED
  BY <1>1, <1>2

LEMMA PhaseIsNext ==
  (\A s \in Token :
     Phase(s) = IF HasLive(s) THEN "open"
                ELSE IF HandedOver(s) THEN "handover"
                ELSE IF ended[s] # {} THEN "closed" ELSE "unopened")'
BY PhaseIs, PTL

LEMMA CurrentIsNext ==
  (OneHeld =>
    \A s \in Token :
      /\ ~HasLive(s) => CurrentToken(s) = NoToken
      /\ \A t \in Token : Live(t) /\ family[t] = s => CurrentToken(s) = t)'
BY CurrentIs, PTL

\* Nothing changes for a session that keeps its live token or its handler.
LEMMA SameView ==
  ASSUME OneHeld, OneHeld', NEW s \in Token,
         \A t \in Token : Live(t)' /\ family'[t] = s <=> Live(t) /\ family[t] = s,
         HasLive(s) \/ (HandedOver(s)' <=> HandedOver(s)),
         HasLive(s) \/ HandedOver(s) \/ (ended'[s] = {} <=> ended[s] = {})
  PROVE  Phase(s)' = Phase(s) /\ CurrentToken(s)' = CurrentToken(s)
<1>1. HasLive(s)' <=> HasLive(s)
  BY DEF HasLive
<1>2. Phase(s)' = Phase(s)
  BY <1>1, PhaseIs, PhaseIsNext
<1>3. CASE HasLive(s)
  <2>1. PICK t \in Token : Live(t) /\ family[t] = s
    BY <1>3 DEF HasLive
  <2>2. CurrentToken(s) = t /\ CurrentToken(s)' = t
    BY <2>1, CurrentIs, CurrentIsNext
  <2>3. QED
    BY <1>2, <2>2
<1>4. CASE ~HasLive(s)
  BY <1>1, <1>2, <1>4, CurrentIs, CurrentIsNext
<1>5. QED
  BY <1>3, <1>4

\* A dead token is current for no session.
LEMMA DeadIsNotCurrent ==
  ASSUME OneHeld, NEW t \in Token, ~Live(t)
  PROVE  t \notin Promise!Current
<1> SUFFICES ASSUME NEW s \in Token, Phase(s) = "open" PROVE CurrentToken(s) # t
  BY DEF Promise!Current, Promise!In
<1>1. HasLive(s)
  BY PhaseIs
<1>2. QED
  BY <1>1, CurrentIs DEF HasLive

\* The promise sees nothing of a step.
Unseen == Promise!vars' = Promise!vars

LEMMA UnseenIf ==
  ASSUME UNCHANGED spent,
         \A s \in Token : Phase(s)' = Phase(s) /\ CurrentToken(s)' = CurrentToken(s)
  PROVE  Unseen
BY DEF Unseen, Promise!vars

-----------------------------------------------------------------------------
(* Every step is a step of the promise, or unseen                          *)

\* A step that leaves Redis, the families in use and the ends alone, and whose
\* handler hands over as before, or only what is still live.
LEMMA HandlerUnseen ==
  ASSUME Ind, SerialInv, SerialInv',
         UNCHANGED <<store, spent, ended>>, \A t \in used : family'[t] = family[t],
         \A q \in Request : Rotating(q) => Rotating(q)' /\ tok'[q] = tok[q],
         \A q \in Request : Rotating(q)' => tok'[q] \in used /\
           (Live(tok'[q]) \/ (Rotating(q) /\ tok'[q] = tok[q]))
  PROVE  Unseen
<1> SUFFICES ASSUME NEW s \in Token
             PROVE  Phase(s)' = Phase(s) /\ CurrentToken(s)' = CurrentToken(s)
  BY UnseenIf
<1>1. \A t \in Token : Live(t)' /\ family'[t] = s <=> Live(t) /\ family[t] = s
  BY HeldFacts DEF Live, Held
<1>2. HasLive(s) \/ (HandedOver(s)' <=> HandedOver(s))
  BY HeldFacts DEF HandedOver, HasLive
<1>3. QED
  BY <1>1, <1>2, SameView DEF SerialInv

LEMMA CreateSessionUnseen ==
  ASSUME Ind, SerialInv, SerialInv', NEW r \in Request, NEW t \in Token,
         NEW uuid \in UUID, NEW projectId \in Project,
         CreateSession(r, uuid, projectId, t)
  PROVE  Unseen
<1> USE DEF CreateSession, redisVars, localVars, historyVars
<1>1. \A q \in Request : Rotating(q)' <=> Rotating(q)
  BY DEF Ind, TypeOK, Rotating
<1>2. \A s \in used : family'[s] = family[s]
  BY DEF Ind, TypeOK
<1>3. QED
  BY <1>1, <1>2, HeldFacts, HandlerUnseen

LEMMA CreateSetOpens ==
  ASSUME Ind, SerialInv, SerialInv', NEW r \in Request, CreateSet(r)
  PROVE  Promise!Open(rec[r].sessionId)
<1> USE DEF CreateSet, RedisSet, redisVars, localVars, historyVars
<1> DEFINE s == rec[r].sessionId
<1>1. Creating(r)
  BY DEF Creating
<1>2. /\ s \in Token /\ ~Live(s) /\ s \notin spent /\ family[s] = s /\ ended[s] = {}
      /\ Held(s)
  BY <1>1, HeldFacts DEF SerialInv, EndedInv, Ind, DeliveredInv, Held
<1>3. ~HasLive(s) /\ ~HandedOver(s)
  <2>1. \A t \in Token : Held(t) /\ family[t] = s => t = s
    BY <1>2 DEF SerialInv, OneHeld
  <2>2. ~HasLive(s)
    BY <1>2, <2>1 DEF HasLive, Held
  <2>3. \A q \in Request : Rotating(q) => tok[q] # s /\ Held(tok[q])
    BY <1>1, HeldFacts DEF Held
  <2>4. QED
    BY <2>1, <2>2, <2>3, HeldFacts DEF HandedOver
<1>4. \A t \in Token : Live(t)' <=> Live(t) \/ t = s
  BY <1>1, <1>2, HeldFacts, SessionsAssumption DEF Live, Ind, TypeOK, HandlerInv, HandlerOK,
     HoldsRecord, RecordOK, Creating
<1>5. \A q \in Request : Rotating(q)' <=> Rotating(q)
  BY DEF Ind, TypeOK, Rotating
<1>6. ASSUME NEW x \in Token, x # s
      PROVE  Phase(x)' = Phase(x) /\ CurrentToken(x)' = CurrentToken(x)
  BY <1>2, <1>4, <1>5, <1>6, SameView DEF SerialInv, HandedOver
<1>7. Phase(s) = "unopened" /\ Phase(s)' = "open" /\ CurrentToken(s)' = s
  BY <1>2, <1>3, <1>4, PhaseIs, PhaseIsNext, CurrentIsNext DEF HasLive, SerialInv
<1>8. s \notin Promise!Current \cup spent
  BY <1>2, DeadIsNotCurrent DEF SerialInv
<1>9. QED
  BY <1>2, <1>6, <1>7, <1>8 DEF Promise!Open

LEMMA RefreshGetUnseen ==
  ASSUME Ind, SerialInv, SerialInv', NEW r \in Request, NEW t \in Token, RefreshGet(r, t)
  PROVE  Unseen
<1> USE DEF RefreshGet, redisVars, localVars, historyVars
<1>1. \A q \in Request : q # r => (Rotating(q)' <=> Rotating(q)) /\ tok'[q] = tok[q]
  BY DEF Ind, TypeOK, Rotating
<1>2. tok'[r] = t /\ Live(t) /\ ~Rotating(r)
  BY DEF Ind, TypeOK, Rotating
<1>3. t \in used
  BY <1>2, HeldFacts DEF Held
<1>4. QED
  BY <1>1, <1>2, <1>3, HeldFacts, HandlerUnseen

LEMMA RotateUnseen ==
  ASSUME Ind, SerialInv, SerialInv', NEW r \in Request, NEW t \in Token, Rotate(r, t)
  PROVE  Unseen
<1> USE DEF Rotate, redisVars, localVars, historyVars
<1>1. \A q \in Request : Rotating(q)' <=> Rotating(q)
  BY DEF Ind, TypeOK, Rotating
<1>2. \A s \in used : family'[s] = family[s]
  BY DEF Ind, TypeOK
<1>3. QED
  BY <1>1, <1>2, HeldFacts, HandlerUnseen

\* The DEL of a refresh: its session waits for the successor, unless the token
\* had expired and it was waiting already.
LEMMA RefreshDelRetires ==
  ASSUME Ind, SerialInv, SerialInv', NEW r \in Request, RefreshDel(r)
  PROVE  Promise!Next \/ Unseen
<1> USE DEF RefreshDel, RedisDel, redisVars, localVars, historyVars
<1> DEFINE s == family[tok[r]]
<1>1. Rotating(r) /\ tok[r] \in Token /\ s \in Token /\ tok[r] \in used
  BY HeldFacts DEF Rotating
<1>2. \A t \in Token : Live(t)' <=> Live(t) /\ t # tok[r]
  BY <1>1 DEF Live, Ind, TypeOK
<1>3. \A q \in Request : Rotating(q)' <=> Rotating(q)
  BY DEF Ind, TypeOK, Rotating
<1>4. CASE ~Live(tok[r])
  <2>1. \A x \in Token : Phase(x)' = Phase(x) /\ CurrentToken(x)' = CurrentToken(x)
    BY <1>2, <1>3, <1>4, SameView DEF SerialInv, HandedOver
  <2>2. QED
    BY <2>1, UnseenIf
<1>5. CASE Live(tok[r])
  <2>1. ASSUME NEW x \in Token, x # s
        PROVE  Phase(x)' = Phase(x) /\ CurrentToken(x)' = CurrentToken(x)
    BY <1>1, <1>2, <1>3, <2>1, SameView DEF SerialInv, HandedOver
  <2>2. Phase(s) = "open"
    BY <1>1, <1>5, PhaseIs DEF HasLive
  <2>3. ~HasLive(s)' /\ HandedOver(s)'
    BY <1>1, <1>2, <1>3, <1>5 DEF HasLive, HandedOver, SerialInv, OneHeld, Held
  <2>4. Phase(s)' = "handover" /\ CurrentToken(s)' = NoToken
    BY <1>1, <2>3, PhaseIsNext, CurrentIsNext DEF SerialInv
  <2>5. Promise!Retire({s}, {})
    BY <2>1, <2>4 DEF Promise!Retire
  <2>6. {s} \in SUBSET Promise!In("open")
    BY <1>1, <2>2 DEF Promise!In
  <2>7. QED
    BY <2>5, <2>6 DEF Promise!Next
<1>6. QED
  BY <1>4, <1>5

LEMMA RefreshSetHandsOver ==
  ASSUME Ind, SerialInv, SerialInv', NEW r \in Request, RefreshSet(r)
  PROVE  Promise!HandOver(family[tok[r]], rec[r].sessionId)
<1> USE DEF RefreshSet, RedisSet, redisVars, localVars, historyVars
<1> DEFINE s == family[tok[r]]
           t == rec[r].sessionId
<1>1. Rotating(r) /\ tok[r] \in Token /\ s \in Token
  BY HeldFacts DEF Rotating
<1>2. /\ rec[r] \in SessionRecord /\ t \in Token /\ ~Live(t) /\ t \notin spent
      /\ ~Live(tok[r]) /\ family[t] = s
  BY HeldFacts, <1>1 DEF Ind, HandlerInv, HandlerOK, HoldsRecord, RecordOK, Drawn,
     SessionRecord, FreshInv, Pending, DeadInv, DeliveredInv
<1>3. \A u \in Token : Live(u)' <=> Live(u) \/ u = t
  BY <1>2, SessionsAssumption DEF Live, Ind, TypeOK
<1>4. \A q \in Request : Rotating(q)' <=> Rotating(q) /\ q # r
  BY DEF Ind, TypeOK, Rotating
<1>5. ASSUME NEW x \in Token, x # s
      PROVE  Phase(x)' = Phase(x) /\ CurrentToken(x)' = CurrentToken(x)
  BY <1>2, <1>3, <1>4, <1>5, SameView DEF SerialInv, HandedOver
<1>6. ~HasLive(s) /\ HandedOver(s)
  BY <1>1, <1>2 DEF HasLive, HandedOver, SerialInv, OneHeld, Held
<1>7. Phase(s) = "handover" /\ Phase(s)' = "open" /\ CurrentToken(s)' = t
  BY <1>1, <1>2, <1>3, <1>6, PhaseIs, PhaseIsNext, CurrentIsNext DEF HasLive, SerialInv
<1>8. t \notin Promise!Current \cup spent
  BY <1>2, DeadIsNotCurrent DEF SerialInv
<1>9. QED
  BY <1>1, <1>5, <1>7, <1>8 DEF Promise!HandOver

\* A handler that holds no session over and answers for nothing new.
LEMMA EndUnseen ==
  ASSUME Ind, SerialInv, SerialInv', NEW r \in Request, Finish(r),
         UNCHANGED <<redisVars, family>>,
         ~Rotating(r) \/ Live(tok[r]),
         \A f \in Token : f # family[tok[r]] \/ ~Rotating(r) => ended'[f] = ended[f]
  PROVE  \A s \in Token : Phase(s)' = Phase(s) /\ CurrentToken(s)' = CurrentToken(s)
<1> SUFFICES ASSUME NEW s \in Token
             PROVE  Phase(s)' = Phase(s) /\ CurrentToken(s)' = CurrentToken(s)
  OBVIOUS
<1>1. \A t \in Token : Live(t)' /\ family'[t] = s <=> Live(t) /\ family[t] = s
  BY DEF Live, redisVars
<1>2. HasLive(s) \/ (HandedOver(s)' <=> HandedOver(s))
  BY FinishHolds, HeldFacts DEF HandedOver, HasLive, Rotating
<1>3. HasLive(s) \/ HandedOver(s) \/ ended'[s] = ended[s]
  BY HeldFacts DEF HandedOver
<1>4. QED
  BY <1>1, <1>2, <1>3, SameView DEF SerialInv

LEMMA ReplyAnswers ==
  ASSUME Ind, SerialInv, SerialInv', NEW r \in Request, Reply(r) \/ RevokeReply(r)
  PROVE  Promise!Next \/ Unseen
<1>1. /\ Finish(r) /\ UNCHANGED <<redisVars, family, ended>> /\ ~Rotating(r)
      /\ spent' = spent \cup ({tok[r]} \ {NoToken})
  BY DEF Reply, RevokeReply, Rotating, Ind, HandlerInv, HandlerOK
<1>2. \A s \in Token : Phase(s)' = Phase(s) /\ CurrentToken(s)' = CurrentToken(s)
  BY <1>1, EndUnseen
<1>3. CASE tok[r] = NoToken
  BY <1>1, <1>2, <1>3, UnseenIf
<1>4. CASE tok[r] # NoToken
  <2>1. tok[r] \in Token /\ ~Live(tok[r])
    BY <1>4 DEF Ind, TypeOK, DeadInv, Reply, RevokeReply
  <2>2. Promise!Answer(tok[r])
    BY <1>1, <1>2, <1>4, <2>1, DeadIsNotCurrent DEF Promise!Answer, SerialInv
  <2>3. QED
    BY <2>1, <2>2 DEF Promise!Next
<1>5. QED
  BY <1>3, <1>4

\* A logout closes the session whose live token it names.
LEMMA RevokeDelRetires ==
  ASSUME Ind, SerialInv, SerialInv', NEW r \in Request, NEW t \in Token, RevokeDel(r, t)
  PROVE  Promise!Next \/ Unseen
<1> USE DEF RevokeDel, RedisDel, redisVars, localVars, historyVars
<1> DEFINE s == family[t]
<1>1. \A u \in Token : Live(u)' <=> Live(u) /\ u # t
  BY DEF Live, Ind, TypeOK
<1>2. \A q \in Request : (Rotating(q)' <=> Rotating(q)) /\ (q # r => tok'[q] = tok[q])
  BY DEF Ind, TypeOK, Rotating
<1>3. ~Rotating(r) /\ tok'[r] = t
  BY DEF Ind, TypeOK, Rotating
<1>4. \A x : HandedOver(x)' <=> HandedOver(x)
  BY <1>2, <1>3 DEF HandedOver
<1>5. CASE ~Live(t)
  <2>1. \A x \in Token : Phase(x)' = Phase(x) /\ CurrentToken(x)' = CurrentToken(x)
    BY <1>1, <1>4, <1>5, SameView DEF SerialInv
  <2>2. QED
    BY <2>1, UnseenIf
<1>6. CASE Live(t)
  <2>1. s \in Token /\ Held(t)
    BY <1>6, HeldFacts DEF Held
  <2>2. \A f \in Token : ended'[f] = IF f = s THEN ended[f] \cup {"logout"} ELSE ended[f]
    BY <1>6 DEF Ind, TypeOK
  <2>3. ASSUME NEW x \in Token, x # s
        PROVE  Phase(x)' = Phase(x) /\ CurrentToken(x)' = CurrentToken(x)
    BY <1>1, <1>4, <2>2, <2>3, SameView DEF SerialInv
  <2>4. ~HasLive(s)'
    BY <1>1, <2>1 DEF HasLive, SerialInv, OneHeld, Held
  <2>5. ~HandedOver(s)'
    <3>1. \A q \in Request : Rotating(q)' => Held(tok[q]) /\ tok[q] \in Token /\ tok[q] # t
      BY <1>2, <1>3, HeldFacts, SessionsAssumption DEF Held, SerialInv, Serial
    <3>2. QED
      BY <2>1, <3>1, <1>2, <1>3 DEF HandedOver, SerialInv, OneHeld
  <2>6. Phase(s) = "open" /\ Phase(s)' = "closed" /\ CurrentToken(s)' = NoToken
    <3>1. HasLive(s) /\ ended'[s] # {}
      BY <1>6, <2>1, <2>2 DEF HasLive
    <3>2. QED
      BY <2>1, <2>4, <2>5, <3>1, PhaseIs, PhaseIsNext, CurrentIsNext DEF SerialInv
  <2>7. Promise!Retire({}, {s})
    BY <2>3, <2>6 DEF Promise!Retire
  <2>8. {s} \in SUBSET Promise!In("open")
    BY <2>1, <2>6 DEF Promise!In
  <2>9. QED
    BY <2>7, <2>8 DEF Promise!Next
<1>7. QED
  BY <1>5, <1>6

\* A refresh that fails past its token's end abandons the session.
LEMMA FailAbandons ==
  ASSUME Ind, SerialInv, SerialInv', NEW r \in Request, Fail(r)
  PROVE  Promise!Next \/ Unseen
<1> PICK s : s = family[tok[r]]
  OBVIOUS
<1>1. Finish(r) /\ UNCHANGED <<redisVars, family, spent>>
  BY DEF Fail
<1>2. \A f \in Token : ended'[f] = IF pc[r] \in {"rotate", "refreshSet"} /\ f = s
                                   THEN ended[f] \cup {"failed"} ELSE ended[f]
  BY DEF Fail, Ind, TypeOK
<1>3. CASE ~Rotating(r) \/ Live(tok[r])
  <2>1. \A x \in Token : Phase(x)' = Phase(x) /\ CurrentToken(x)' = CurrentToken(x)
    BY <1>1, <1>2, <1>3, EndUnseen DEF Rotating
  <2>2. QED
    BY <1>1, <2>1, UnseenIf
<1>4. CASE Rotating(r) /\ ~Live(tok[r])
  <2>1. tok[r] \in Token /\ s \in Token /\ Held(tok[r])
    BY <1>4, HeldFacts DEF Held
  <2>2. ended'[s] # {}
    BY <1>2, <1>4, <2>1 DEF Rotating, SerialInv, OvertakenInv
  <2>3. ~HasLive(s) /\ ~HasLive(s)' /\ HandedOver(s)
    BY <1>1, <1>4, <2>1, FinishHolds DEF HasLive, HandedOver, SerialInv, OneHeld, Held
  <2>4. ~HandedOver(s)'
    <3>1. \A q \in Request : Rotating(q)' =>
            q # r /\ Rotating(q) /\ tok'[q] = tok[q] /\ Held(tok[q]) /\ tok[q] \in Token
      BY <1>1, FinishHolds, HeldFacts DEF Rotating, Held
    <3>2. \A q \in Request : Rotating(q)' => tok[q] # tok[r]
      BY <3>1, <1>4, HeldFacts DEF SerialInv, Serial
    <3>3. QED
      BY <1>1, <2>1, <3>1, <3>2 DEF HandedOver, SerialInv, OneHeld
  <2>5. Phase(s) = "handover" /\ CurrentToken(s) = NoToken
    BY <2>1, <2>3, PhaseIs, CurrentIs DEF SerialInv
  <2>6. Phase(s)' = "closed" /\ CurrentToken(s)' = NoToken
    BY <2>1, <2>2, <2>3, <2>4, PhaseIsNext, CurrentIsNext DEF SerialInv
  <2>7. ASSUME NEW x \in Token, x # s
        PROVE  Phase(x)' = Phase(x) /\ CurrentToken(x)' = CurrentToken(x)
    <3>1. \A t \in Token : Live(t)' /\ family'[t] = x <=> Live(t) /\ family[t] = x
      BY <1>1, FinishHolds
    <3>2. HandedOver(x)' <=> HandedOver(x)
      BY <1>1, <2>7, FinishHolds DEF HandedOver, Rotating
    <3>3. QED
      BY <1>2, <2>7, <3>1, <3>2, SameView DEF SerialInv
  <2>8. Promise!Abandon(s)
    BY <1>1, <2>1, <2>5, <2>6, <2>7 DEF Promise!Abandon
  <2>9. QED
    BY <2>1, <2>8 DEF Promise!Next
<1>5. QED
  BY <1>3, <1>4

\* The sessions whose token expires are over, except that a handler which has
\* read the record hands it over all the same.
LEMMA TickRetires ==
  ASSUME Ind, SerialInv, SerialInv', Tick
  PROVE  Promise!Next
<1> USE DEF Tick, redisVars, localVars, historyVars
<1> DEFINE Over == {s \in Token : HasLive(s) /\ ~HasLive(s)'}
           H == {s \in Over : HandedOver(s)}
           C == {s \in Over : ~HandedOver(s)}
<1>1. \A t \in Token :
        /\ Live(t)' => Live(t)
        /\ Live(t) /\ ~Live(t)' /\ family[t] \in Token => ended'[family[t]] # {}
  BY SessionsAssumption DEF Live
<1>2. \A f \in Token : ended'[f] # ended[f] => HasLive(f)
  BY DEF Live, HasLive
<1>3. \A s : HandedOver(s)' <=> HandedOver(s)
  BY DEF HandedOver, Rotating
<1>4. ASSUME NEW s \in Token, s \notin Over
      PROVE  Phase(s)' = Phase(s) /\ CurrentToken(s)' = CurrentToken(s)
  <2>1. \A t \in Token : Live(t)' /\ family'[t] = s <=> Live(t) /\ family[t] = s
    <3>1. CASE HasLive(s)'
      <4>1. PICK u \in Token : Live(u)' /\ family[u] = s
        BY <3>1 DEF HasLive
      <4>2. \A t \in Token : Live(t) /\ family[t] = s => t = u
        BY <1>1, <4>1 DEF SerialInv, OneHeld, Held
      <4>3. QED
        BY <1>1, <4>1, <4>2
    <3>2. CASE ~HasLive(s)'
      BY <1>4, <3>2 DEF HasLive
    <3>3. QED
      BY <3>1, <3>2
  <2>2. QED
    BY <1>2, <1>3, <2>1, SameView DEF SerialInv
<1>5. ASSUME NEW s \in Over
      PROVE  /\ Phase(s) = "open" /\ CurrentToken(s)' = NoToken
             /\ Phase(s)' = IF s \in H THEN "handover" ELSE "closed"
  <2>1. PICK t \in Token : Live(t) /\ family[t] = s
    BY DEF HasLive
  <2>2. ended'[s] # {}
    BY <1>1, <2>1 DEF HasLive
  <2>3. QED
    BY <1>3, <2>2, PhaseIs, PhaseIsNext, CurrentIsNext DEF SerialInv
<1>6. Promise!Retire(H, C)
  BY <1>4, <1>5 DEF Promise!Retire
<1>7. H \in SUBSET Promise!In("open") /\ C \in SUBSET Promise!In("open")
  BY <1>5 DEF Promise!In
<1>8. QED
  BY <1>6, <1>7 DEF Promise!Next

LEMMA SameUnseen ==
  ASSUME SerialInv, SerialInv', UNCHANGED vars
  PROVE  Unseen
<1>1. \A s \in Token : Phase(s)' = Phase(s) /\ CurrentToken(s)' = CurrentToken(s)
  BY DEF Phase, CurrentToken, Live, Rotating, vars, redisVars, localVars, historyVars
<1>2. QED
  BY <1>1, UnseenIf DEF vars, historyVars

LEMMA StepKeepsPromise ==
  ASSUME Ind, SerialInv, SerialInv', [Next]_vars
  PROVE  Promise!Next \/ Unseen
<1>1. ASSUME NEW r \in Request, NEW t \in Token, NEW uuid \in UUID,
             NEW projectId \in Project, CreateSession(r, uuid, projectId, t)
      PROVE  Unseen
  BY <1>1, CreateSessionUnseen
<1>2. ASSUME NEW r \in Request, NEW t \in Token,
             RefreshGet(r, t) \/ RefreshUnauthorized(r, t) \/ Rotate(r, t)
      PROVE  Unseen
  BY <1>2, RefreshGetUnseen, RotateUnseen, SameUnseen DEF RefreshUnauthorized
<1>3. ASSUME NEW r \in Request, CreateSet(r) PROVE Promise!Next
  <2>1. rec[r].sessionId \in Token
    BY <1>3, HeldFacts DEF CreateSet, Creating
  <2>2. QED
    BY <1>3, <2>1, CreateSetOpens DEF Promise!Next
<1>4. ASSUME NEW r \in Request, RefreshSet(r) PROVE Promise!Next
  <2>1. family[tok[r]] \in Token /\ rec[r].sessionId \in Token
    BY <1>4, HeldFacts DEF RefreshSet, Rotating, Ind, HandlerInv, HandlerOK, HoldsRecord,
       RecordOK, SessionRecord
  <2>2. QED
    BY <1>4, <2>1, RefreshSetHandsOver DEF Promise!Next
<1>5. ASSUME NEW r \in Request,
             \/ RefreshDel(r) \/ Reply(r) \/ RevokeReply(r) \/ Fail(r)
             \/ \E t \in Token : RevokeDel(r, t)
      PROVE  Promise!Next \/ Unseen
  BY <1>5, RefreshDelRetires, ReplyAnswers, RevokeDelRetires, FailAbandons
<1>6. QED
  BY <1>1, <1>2, <1>3, <1>4, <1>5, TickRetires, SameUnseen DEF Next

LEMMA InitKeepsPromise == Init => Promise!Init
<1> SUFFICES ASSUME Init PROVE Promise!Init
  OBVIOUS
<1>1. /\ \A t \in Token : ~Live(t)
      /\ \A r \in Request : ~Rotating(r)
      /\ \A s \in Token : ended[s] = {}
  BY DEF Init, Live, Rotating
<1>2. \A s \in Token : Phase(s) = "unopened" /\ CurrentToken(s) = NoToken
  BY <1>1, PhaseIs DEF HasLive, HandedOver, CurrentToken
<1>3. QED
  BY <1>2 DEF Init, Promise!Init

\* For clients that wait for their answers, sessions over Redis are the sessions
\* of SessionPromise: one current token or none, handed over by a refresh,
\* closed for good by a logout.
THEOREM SessionsKeepPromise == SerialSpec => KeepsPromise
<1>1. Init => Promise!Init
  BY InitKeepsPromise
<1>2. Ind /\ SerialInv /\ SerialInv' /\ [SerialNext]_vars =>
        [Promise!Next]_(Promise!vars)
  BY StepKeepsPromise DEF SerialNext, Unseen
<1>3. QED
  BY <1>1, <1>2, SerialInvariance, PTL DEF SerialSpec, KeepsPromise, Promise!Spec
=============================================================================

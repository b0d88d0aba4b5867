--------------------------- MODULE SessionsProofs ---------------------------
(***************************************************************************)
(* Theorems about Sessions, for any requests, tokens, accounts, projects,  *)
(* time to live and clock bound.  They rest on the inductive invariant     *)
(* Ind, whose parts say what is in Redis, what clients hold and what the   *)
(* running handlers hold.                                                  *)
(***************************************************************************)
EXTENDS Sessions, TLAPS

\* Handlers that have drawn a new identifier, and those that have not stored
\* it yet.
Minted(r) == pc[r] \in {"createSet", "refreshSet", "reply"}
Pending(r) == pc[r] \in {"createSet", "refreshSet"}
HoldsRecord(r) == pc[r] \in {"createSet", "refreshDel", "rotate",
                             "refreshSet", "reply"}

\* An identifier randomUUID has returned, with its history.
Drawn(t) ==
  /\ t \in used
  /\ family[t] \in used
  /\ opened[family[t]] \in Identity

\* A record whose identity is its sign-in's and whose dates are in order.
RecordOK(record) ==
  /\ record \in SessionRecord
  /\ Drawn(record.sessionId)
  /\ record.uuid = opened[family[record.sessionId]].uuid
  /\ record.projectId = opened[family[record.sessionId]].projectId
  /\ record.createdAt = opened[family[record.sessionId]].createdAt
  /\ record.createdAt <= record.lastUsedAt
  /\ record.lastUsedAt <= now
  /\ record.expiresAt = record.lastUsedAt + TTL

\* Everything in Redis is such a record, under its own key, with time to live.
StoreInv ==
  \A t \in Token : Live(t) =>
    /\ store[t].sessionId = t
    /\ RecordOK(store[t])
    /\ store[t].expiresAt <= deadline[t]
    /\ now < deadline[t]

\* What clients hold was drawn, and carries its sign-in's claims.
DeliveredInv ==
  /\ \A t \in Delivered :
       /\ Drawn(t)
       /\ issued[t] = Sign(opened[family[t]].uuid, opened[family[t]].projectId)
  /\ spent \subseteq Delivered

\* What the handlers hold.
HandlerOK(r) ==
  /\ pc[r] \in {"idle", "createSet"} => tok[r] = NoToken
  /\ tok[r] # NoToken => tok[r] \in Delivered
  /\ pc[r] \in {"refreshDel", "rotate", "refreshSet", "revoked"} =>
       tok[r] # NoToken
  /\ HoldsRecord(r) => RecordOK(rec[r])
  /\ pc[r] \in {"refreshDel", "rotate"} => rec[r].sessionId = tok[r]
  /\ pc[r] = "refreshSet" => family[rec[r].sessionId] = family[tok[r]]
  /\ Minted(r) => access[r] = Sign(rec[r].uuid, rec[r].projectId)

HandlerInv == \A r \in Request : HandlerOK(r)

\* An identifier being stored is nobody else's, and unknown to clients.
FreshInv ==
  /\ \A r \in Request : Pending(r) =>
       /\ ~Live(rec[r].sessionId)
       /\ rec[r].sessionId \notin Delivered
  /\ \A r1, r2 \in Request :
       /\ Minted(r1) /\ Minted(r2) /\ r1 # r2
       => rec[r1].sessionId # rec[r2].sessionId

\* Tokens past their DEL are dead.
DeadInv ==
  /\ \A r \in Request :
       pc[r] \in {"rotate", "refreshSet", "reply", "revoked"} /\ tok[r] # NoToken
       => ~Live(tok[r])
  /\ SpentIsDead

\* A family that is in use, or that something has ended.
Carries(r, f) == pc[r] \in {"rotate", "refreshSet"} /\ family[tok[r]] = f

Kept(f) ==
  \/ \E t \in Token : Live(t) /\ family[t] = f
  \/ \E r \in Request : Carries(r, f)
  \/ ended[f] # {}

KeptInv ==
  /\ \A t \in Delivered : Kept(family[t])
  /\ \A r \in Request : pc[r] = "reply" => Kept(family[rec[r].sessionId])

Ind ==
  /\ TypeOK
  /\ StoreInv
  /\ DeliveredInv
  /\ HandlerInv
  /\ FreshInv
  /\ DeadInv
  /\ KeptInv

-----------------------------------------------------------------------------
(* Facts about drawn identifiers                                           *)

\* Drawing more identifiers and letting time pass spoils no record.
LEMMA RecordStable ==
  ASSUME NEW record, RecordOK(record), TypeOK, now' \in Nat, now <= now',
         used \subseteq used',
         \A t \in used : family'[t] = family[t] /\ opened'[t] = opened[t]
  PROVE  RecordOK(record)' /\ record.sessionId \in used
BY DEF RecordOK, Drawn, TypeOK, SessionRecord, Identity

\* What the rotated record takes over from the old one.
LEMMA SuccessorFields ==
  ASSUME NEW old \in SessionRecord, NEW t \in Token, now \in Nat
  PROVE  LET new == Successor(old, t) IN
           /\ new \in SessionRecord
           /\ new.sessionId = t /\ new.lastUsedAt = now /\ new.expiresAt = now + TTL
           /\ new.uuid = old.uuid /\ new.projectId = old.projectId
           /\ new.createdAt = old.createdAt
<1>1. now + TTL \in Nat
  BY SessionsAssumption
<1>2. Successor(old, t) \in SessionRecord
  BY <1>1 DEF Successor, SessionRecord
<1>3. /\ Successor(old, t).sessionId = t
      /\ Successor(old, t).lastUsedAt = now
      /\ Successor(old, t).expiresAt = now + TTL
  BY <1>1 DEF Successor, SessionRecord
<1>4. /\ Successor(old, t).uuid = old.uuid
      /\ Successor(old, t).projectId = old.projectId
      /\ Successor(old, t).createdAt = old.createdAt
  BY <1>1 DEF Successor, SessionRecord
<1>5. QED
  BY <1>2, <1>3, <1>4

-----------------------------------------------------------------------------
(* Every step preserves the invariant                                      *)

\* One step of one handler r leaves what the others hold alone.
Others(r) ==
  \A q \in Request \ {r} :
    pc'[q] = pc[q] /\ tok'[q] = tok[q] /\ rec'[q] = rec[q] /\ access'[q] = access[q]

LEMMA CreateSessionPreserves ==
  ASSUME Ind, NEW r \in Request, NEW t \in Token,
         NEW uuid \in UUID, NEW projectId \in Project,
         CreateSession(r, uuid, projectId, t)
  PROVE  Ind'
<1> USE SessionsAssumption DEF Ind, CreateSession, redisVars, localVars, historyVars
<1>1. TypeOK'
  BY DEF TypeOK, Sign, SessionRecord, Identity, Claims
<1>2. \A record : RecordOK(record) => RecordOK(record)' /\ record.sessionId \in used
  BY RecordStable DEF TypeOK
<1>3. RecordOK(rec[r])' /\ rec[r].sessionId' = t
  BY DEF TypeOK, RecordOK, Drawn, SessionRecord, Identity
<1>4. StoreInv'
  BY <1>2 DEF StoreInv, Live, TypeOK
<1>5. DeliveredInv'
  BY DEF DeliveredInv, Delivered, Drawn, TypeOK
<1>6. Others(r)
  BY DEF Others, TypeOK
<1>7. HandlerInv'
  <2>1. HandlerOK(r)'
    BY <1>3 DEF HandlerInv, HandlerOK, HoldsRecord, Minted, Sign, TypeOK
  <2>2. ASSUME NEW q \in Request, q # r PROVE HandlerOK(q)'
    BY <2>2, <1>2, <1>6 DEF HandlerInv, HandlerOK, Others, DeliveredInv,
       Delivered, Drawn, HoldsRecord, Minted, TypeOK
  <2>3. QED
    BY <2>1, <2>2 DEF HandlerInv
<1>8. FreshInv'
  BY <1>2, <1>3 DEF FreshInv, HandlerInv, HandlerOK, StoreInv, DeliveredInv, Drawn,
     Pending, Minted, HoldsRecord, Delivered, Live, TypeOK
<1>9. DeadInv'
  BY DEF DeadInv, SpentIsDead, Live, HandlerInv, HandlerOK, TypeOK
<1>10. \A s \in used : family'[s] = family[s] /\ (Live(s) => Live(s)')
  BY DEF TypeOK, Live
<1>11. \A q \in Request : pc[q] \in {"rotate", "refreshSet"} => tok[q] \in used
  BY DEF HandlerInv, HandlerOK, DeliveredInv, Drawn
<1>12. ASSUME NEW f, Kept(f) PROVE Kept(f)'
  <2>1. ASSUME NEW s \in Token, Live(s), family[s] = f PROVE Kept(f)'
    BY <1>10, <2>1 DEF Kept, StoreInv, RecordOK, Drawn
  <2>2. ASSUME NEW q \in Request, Carries(q, f) PROVE Kept(f)'
    BY <1>6, <1>10, <1>11, <2>2 DEF Kept, Carries, Others
  <2>3. QED
    BY <1>12, <2>1, <2>2 DEF Kept
<1>13. KeptInv'
  BY <1>12, <1>6, <1>10 DEF KeptInv, DeliveredInv, Delivered, HandlerInv, HandlerOK,
     HoldsRecord, RecordOK, Drawn, TypeOK, Others
<1>14. QED
  BY <1>1, <1>4, <1>5, <1>7, <1>8, <1>9, <1>13
LEMMA CreateSetPreserves ==
  ASSUME Ind, NEW r \in Request, CreateSet(r)
  PROVE  Ind'
<1> USE SessionsAssumption DEF Ind, CreateSet, RedisSet, redisVars, localVars, historyVars
<1> DEFINE t == rec[r].sessionId
<1>1. /\ RecordOK(rec[r]) /\ t \in Token /\ tok[r] = NoToken
      /\ ~Live(t) /\ t \notin Delivered /\ t \notin spent
  BY DEF HandlerInv, HandlerOK, HoldsRecord, RecordOK, SessionRecord, FreshInv, Pending,
     DeliveredInv
<1>2. TypeOK'
  BY <1>1 DEF TypeOK, RecordOK
<1>3. \A record : RecordOK(record) => RecordOK(record)'
  BY RecordStable DEF TypeOK
<1>4. \A s \in Token : Live(s)' <=> Live(s) \/ s = t
  BY <1>1 DEF Live, TypeOK, RecordOK
<1>5. StoreInv'
  BY <1>1, <1>3 DEF StoreInv, Live, TypeOK, RecordOK, SessionRecord
<1>6. DeliveredInv'
  BY DEF DeliveredInv, Delivered, Drawn
<1>7. HandlerInv'
  BY <1>1, <1>3 DEF HandlerInv, HandlerOK, Delivered, HoldsRecord, Minted, TypeOK
<1>8. FreshInv'
  BY <1>1, <1>4 DEF FreshInv, HandlerInv, HandlerOK, HoldsRecord, RecordOK,
     SessionRecord, Pending, Minted, Delivered, TypeOK
<1>9. DeadInv'
  BY <1>1, <1>4 DEF DeadInv, SpentIsDead, HandlerInv, HandlerOK, TypeOK, DeliveredInv, Delivered
<1>10. \A f : Kept(f) => Kept(f)'
  BY <1>4 DEF Kept, Carries, TypeOK
<1>11. Kept(family[t])'
  BY <1>1, <1>4 DEF Kept
<1>12. KeptInv'
  BY <1>10, <1>11 DEF KeptInv, Delivered, TypeOK
<1>13. QED
  BY <1>2, <1>5, <1>6, <1>7, <1>8, <1>9, <1>12

LEMMA RefreshGetPreserves ==
  ASSUME Ind, NEW r \in Request, NEW t \in Token, RefreshGet(r, t)
  PROVE  Ind'
<1> USE SessionsAssumption DEF Ind, RefreshGet, redisVars, localVars, historyVars
<1>1. RecordOK(store[t]) /\ store[t].sessionId = t /\ t # NoToken
  BY DEF StoreInv
<1>2. TypeOK'
  BY <1>1 DEF TypeOK, RecordOK
<1>3. \A record : RecordOK(record) => RecordOK(record)'
  BY RecordStable DEF TypeOK
<1>4. \A s : Live(s)' <=> Live(s)
  BY DEF Live
<1>5. StoreInv' /\ DeliveredInv'
  BY <1>3 DEF StoreInv, Live, DeliveredInv, Delivered, Drawn
<1>6. Others(r)
  BY DEF Others, TypeOK
<1>7. HandlerInv'
  BY <1>1, <1>3 DEF HandlerInv, HandlerOK, Delivered, HoldsRecord, Minted, TypeOK
<1>8. FreshInv'
  BY <1>4 DEF FreshInv, Pending, Minted, Delivered, TypeOK
<1>9. DeadInv'
  BY <1>4 DEF DeadInv, SpentIsDead, TypeOK
<1>10. \A f : Kept(f) => Kept(f)'
  BY <1>4, <1>6 DEF Kept, Carries, Others
<1>11. KeptInv'
  BY <1>10 DEF KeptInv, Delivered, TypeOK
<1>12. QED
  BY <1>2, <1>5, <1>7, <1>8, <1>9, <1>11

LEMMA RefreshDelPreserves ==
  ASSUME Ind, NEW r \in Request, RefreshDel(r)
  PROVE  Ind'
<1> USE SessionsAssumption DEF Ind, RefreshDel, RedisDel, redisVars, localVars, historyVars
<1> DEFINE t == tok[r]
<1>1. t \in Token /\ t # NoToken
  BY DEF HandlerInv, HandlerOK, TypeOK
<1>2. TypeOK'
  BY <1>1 DEF TypeOK
<1>3. \A record : RecordOK(record) => RecordOK(record)'
  BY RecordStable DEF TypeOK
<1>4. \A s \in Token : Live(s)' <=> Live(s) /\ s # t
  BY <1>1 DEF Live, TypeOK
<1>5. StoreInv' /\ DeliveredInv'
  BY <1>3, <1>4 DEF StoreInv, Live, DeliveredInv, Delivered, Drawn, TypeOK
<1>6. HandlerInv'
  BY <1>3 DEF HandlerInv, HandlerOK, Delivered, HoldsRecord, Minted, TypeOK
<1>7. FreshInv'
  BY <1>4 DEF FreshInv, HandlerInv, HandlerOK, HoldsRecord, RecordOK, SessionRecord,
     Pending, Minted, Delivered, TypeOK
<1>8. DeadInv'
  BY <1>1, <1>4 DEF DeadInv, SpentIsDead, TypeOK
<1>9. Carries(r, family[t])'
  BY DEF Carries, TypeOK
<1>10. \A f : Kept(f) => Kept(f)'
  BY <1>4, <1>9 DEF Kept, Carries, TypeOK
<1>11. KeptInv'
  BY <1>10 DEF KeptInv, Delivered, TypeOK
<1>12. QED
  BY <1>2, <1>5, <1>6, <1>7, <1>8, <1>11

LEMMA RotatePreserves ==
  ASSUME Ind, NEW r \in Request, NEW t \in Token, Rotate(r, t)
  PROVE  Ind'
<1> USE SessionsAssumption DEF Ind, Rotate, redisVars, localVars, historyVars
<1>1. /\ RecordOK(rec[r]) /\ rec[r].sessionId = tok[r]
      /\ tok[r] \in Token /\ tok[r] # t
  BY DEF HandlerInv, HandlerOK, HoldsRecord, RecordOK, Drawn, SessionRecord
<1>2. TypeOK'
  BY <1>1, SuccessorFields DEF TypeOK, RecordOK, Drawn, Sign, SessionRecord, Claims
<1>3. \A record : RecordOK(record) => RecordOK(record)' /\ record.sessionId \in used
  BY RecordStable DEF TypeOK
<1>4. RecordOK(rec[r])' /\ rec[r].sessionId' = t
  <2>1. rec'[r] = Successor(rec[r], t) /\ rec[r] \in SessionRecord
    BY <1>1 DEF TypeOK, RecordOK
  <2>2. family'[t] = family[tok[r]] /\ used' = used \cup {t} /\ t \in Token
    BY DEF TypeOK
  <2>3. family'[t] \in used /\ opened'[family'[t]] \in Identity
    BY <1>1, <2>2 DEF RecordOK, Drawn
  <2>4. /\ rec'[r] \in SessionRecord
        /\ rec'[r].sessionId = t /\ rec'[r].lastUsedAt = now
        /\ rec'[r].expiresAt = now + TTL
        /\ rec'[r].uuid = rec[r].uuid /\ rec'[r].projectId = rec[r].projectId
        /\ rec'[r].createdAt = rec[r].createdAt
    BY <2>1, SuccessorFields DEF TypeOK
  <2>5. rec[r].createdAt <= now
    BY <1>1, <2>1 DEF RecordOK, SessionRecord, TypeOK
  <2>6. Drawn(t)'
    BY <2>2, <2>3 DEF Drawn
  <2>7. QED
    BY <1>1, <2>2, <2>4, <2>5, <2>6 DEF RecordOK, TypeOK
<1>5. StoreInv'
  BY <1>3 DEF StoreInv, Live, TypeOK
<1>6. DeliveredInv'
  BY DEF DeliveredInv, Delivered, Drawn, TypeOK
<1>7. Others(r)
  BY DEF Others, TypeOK
<1>8. HandlerInv'
  <2>1. HandlerOK(r)'
    BY <1>1, <1>4 DEF HandlerInv, HandlerOK, HoldsRecord, Minted, Sign, TypeOK, Delivered,
       Successor, RecordOK, SessionRecord
  <2>2. ASSUME NEW q \in Request, q # r PROVE HandlerOK(q)'
    BY <2>2, <1>3, <1>7 DEF HandlerInv, HandlerOK, Others, DeliveredInv,
       Delivered, Drawn, HoldsRecord, Minted, TypeOK
  <2>3. QED
    BY <2>1, <2>2 DEF HandlerInv
<1>9. FreshInv'
  BY <1>3, <1>4 DEF FreshInv, HandlerInv, HandlerOK, StoreInv, DeliveredInv, Drawn,
     Pending, Minted, HoldsRecord, Delivered, Live, TypeOK
<1>10. DeadInv'
  BY DEF DeadInv, SpentIsDead, Live, TypeOK
<1>11. \A s \in used : family'[s] = family[s] /\ (Live(s) => Live(s)')
  BY DEF TypeOK, Live
<1>12. \A q \in Request : pc[q] \in {"rotate", "refreshSet"} => tok[q] \in used
  BY DEF HandlerInv, HandlerOK, DeliveredInv, Drawn
<1>13. ASSUME NEW f, Kept(f) PROVE Kept(f)'
  <2>1. ASSUME NEW s \in Token, Live(s), family[s] = f PROVE Kept(f)'
    BY <1>11, <2>1 DEF Kept, StoreInv, RecordOK, Drawn
  <2>2. ASSUME NEW q \in Request, Carries(q, f) PROVE Kept(f)'
    <3>1. Carries(q, f)'
      BY <1>11, <1>12, <2>2 DEF Carries, TypeOK
    <3>2. QED
      BY <3>1 DEF Kept
  <2>3. QED
    BY <1>13, <2>1, <2>2 DEF Kept
<1>14. KeptInv'
  BY <1>13, <1>7, <1>11 DEF KeptInv, DeliveredInv, Delivered, HandlerInv, HandlerOK,
     HoldsRecord, RecordOK, Drawn, TypeOK, Others
<1>15. QED
  BY <1>2, <1>5, <1>6, <1>8, <1>9, <1>10, <1>14

LEMMA RefreshSetPreserves ==
  ASSUME Ind, NEW r \in Request, RefreshSet(r)
  PROVE  Ind'
<1> USE SessionsAssumption DEF Ind, RefreshSet, RedisSet, redisVars, localVars, historyVars
<1> DEFINE t == rec[r].sessionId
<1>1. /\ RecordOK(rec[r]) /\ t \in Token /\ tok[r] # NoToken
      /\ ~Live(t) /\ t \notin Delivered /\ t \notin spent
      /\ family[t] = family[tok[r]] /\ tok[r] \in Delivered
  BY DEF HandlerInv, HandlerOK, HoldsRecord, RecordOK, SessionRecord, FreshInv, Pending,
     DeliveredInv
<1>2. TypeOK'
  BY <1>1 DEF TypeOK, RecordOK
<1>3. \A record : RecordOK(record) => RecordOK(record)'
  BY RecordStable DEF TypeOK
<1>4. \A s \in Token : Live(s)' <=> Live(s) \/ s = t
  BY <1>1 DEF Live, TypeOK, RecordOK
<1>5. StoreInv'
  BY <1>1, <1>3 DEF StoreInv, Live, TypeOK, RecordOK, SessionRecord
<1>6. DeliveredInv'
  BY DEF DeliveredInv, Delivered, Drawn
<1>7. HandlerInv'
  BY <1>1, <1>3 DEF HandlerInv, HandlerOK, Delivered, HoldsRecord, Minted, TypeOK
<1>8. FreshInv'
  BY <1>1, <1>4 DEF FreshInv, HandlerInv, HandlerOK, HoldsRecord, RecordOK,
     SessionRecord, Pending, Minted, Delivered, TypeOK
<1>9. DeadInv'
  BY <1>1, <1>4 DEF DeadInv, SpentIsDead, HandlerInv, HandlerOK, TypeOK, DeliveredInv, Delivered
<1>10. Kept(family[t])'
  BY <1>1, <1>4 DEF Kept
<1>11. ASSUME NEW f, Kept(f) PROVE Kept(f)'
  <2>1. CASE Carries(r, f)
    BY <1>1, <1>10, <2>1 DEF Carries
  <2>2. CASE ~Carries(r, f)
    BY <1>4, <1>11, <2>2 DEF Kept, Carries, TypeOK
  <2>3. QED
    BY <2>1, <2>2
<1>12. KeptInv'
  BY <1>10, <1>11 DEF KeptInv, Delivered, TypeOK
<1>13. QED
  BY <1>2, <1>5, <1>6, <1>7, <1>8, <1>9, <1>12

LEMMA ReplyPreserves ==
  ASSUME Ind, NEW r \in Request, Reply(r)
  PROVE  Ind'
<1> USE SessionsAssumption DEF Ind, Reply, Finish, redisVars, historyVars
<1> DEFINE t == rec[r].sessionId
<1>1. /\ RecordOK(rec[r]) /\ t \in Token
      /\ access[r] = Sign(rec[r].uuid, rec[r].projectId) /\ access[r] \in Claims
      /\ tok[r] # NoToken => tok[r] \in Delivered /\ ~Live(tok[r])
  BY DEF HandlerInv, HandlerOK, HoldsRecord, Minted, RecordOK, SessionRecord, DeadInv,
     Sign, Claims
<1>2. TypeOK'
  BY <1>1 DEF TypeOK
<1>3. \A record : RecordOK(record) => RecordOK(record)'
  BY RecordStable DEF TypeOK
<1>4. \A s : Live(s)' <=> Live(s)
  BY DEF Live
<1>5. StoreInv'
  BY <1>3 DEF StoreInv, Live
<1>6. Others(r)
  BY DEF Others, TypeOK
<1>7. Delivered' = Delivered \cup {t}
  BY <1>1 DEF Delivered, TypeOK
<1>8. DeliveredInv'
  <2>1. ASSUME NEW s \in Delivered'
        PROVE  Drawn(s)' /\ issued'[s] = Sign(opened[family[s]].uuid, opened[family[s]].projectId)
    BY <1>1, <1>7, <2>1 DEF DeliveredInv, Drawn, RecordOK, Delivered, TypeOK
  <2>2. spent' \subseteq Delivered'
    BY <1>1, <1>7 DEF DeliveredInv
  <2>3. QED
    BY <2>1, <2>2 DEF DeliveredInv
<1>9. HandlerInv'
  <2>1. HandlerOK(r)'
    BY DEF HandlerOK, HoldsRecord, Minted, TypeOK
  <2>2. ASSUME NEW q \in Request, q # r PROVE HandlerOK(q)'
    BY <1>3, <1>6, <1>7, <2>2 DEF HandlerInv, HandlerOK, HoldsRecord, Minted, Others
  <2>3. QED
    BY <2>1, <2>2 DEF HandlerInv
<1>10. FreshInv'
  BY <1>4, <1>7 DEF FreshInv, Pending, Minted, TypeOK
<1>11. DeadInv'
  BY <1>1, <1>4 DEF DeadInv, SpentIsDead, TypeOK
<1>12. \A f : Kept(f) => Kept(f)'
  BY <1>4 DEF Kept, Carries, TypeOK
<1>13. KeptInv'
  BY <1>6, <1>7, <1>12 DEF KeptInv, Others, TypeOK
<1>14. QED
  BY <1>2, <1>5, <1>8, <1>9, <1>10, <1>11, <1>13

LEMMA RevokeDelPreserves ==
  ASSUME Ind, NEW r \in Request, NEW t \in Token, RevokeDel(r, t)
  PROVE  Ind'
<1> USE SessionsAssumption DEF Ind, RevokeDel, RedisDel, redisVars, localVars, historyVars
<1>1. family[t] \in Token
  BY DEF DeliveredInv, Drawn, TypeOK
<1>2. TypeOK'
  BY <1>1 DEF TypeOK, Causes
<1>3. \A record : RecordOK(record) => RecordOK(record)'
  BY RecordStable DEF TypeOK
<1>4. \A s \in Token : Live(s)' <=> Live(s) /\ s # t
  BY DEF Live, TypeOK
<1>5. StoreInv' /\ DeliveredInv'
  BY <1>3, <1>4 DEF StoreInv, Live, DeliveredInv, Delivered, Drawn, TypeOK
<1>6. Others(r)
  BY DEF Others, TypeOK
<1>7. HandlerInv'
  BY <1>3 DEF HandlerInv, HandlerOK, Delivered, HoldsRecord, Minted, TypeOK
<1>8. FreshInv'
  BY <1>4 DEF FreshInv, HandlerInv, HandlerOK, HoldsRecord, RecordOK, SessionRecord,
     Pending, Minted, Delivered, TypeOK
<1>9. DeadInv'
  BY <1>4 DEF DeadInv, SpentIsDead, TypeOK
<1>10. ASSUME NEW f \in Token, Kept(f) PROVE Kept(f)'
  <2>1. ASSUME NEW s \in Token, Live(s), family[s] = f PROVE Kept(f)'
    BY <1>1, <1>4, <2>1 DEF Kept, TypeOK
  <2>2. ASSUME NEW q \in Request, Carries(q, f) PROVE Kept(f)'
    BY <1>6, <2>2 DEF Kept, Carries, Others
  <2>3. ASSUME ended[f] # {} PROVE Kept(f)'
    BY <2>3 DEF Kept, TypeOK
  <2>4. QED
    BY <1>10, <2>1, <2>2, <2>3 DEF Kept
<1>11. KeptInv'
  BY <1>6, <1>10 DEF KeptInv, Delivered, Others, DeliveredInv, Drawn, HandlerInv,
     HandlerOK, HoldsRecord, RecordOK, TypeOK
<1>12. QED
  BY <1>2, <1>5, <1>7, <1>8, <1>9, <1>11

LEMMA RevokeReplyPreserves ==
  ASSUME Ind, NEW r \in Request, RevokeReply(r)
  PROVE  Ind'
<1> USE SessionsAssumption DEF Ind, RevokeReply, Finish, redisVars, historyVars
<1>1. tok[r] \in Delivered /\ ~Live(tok[r])
  BY DEF HandlerInv, HandlerOK, DeadInv
<1>2. TypeOK'
  BY <1>1 DEF TypeOK, Delivered
<1>3. \A record : RecordOK(record) => RecordOK(record)'
  BY RecordStable DEF TypeOK
<1>4. \A s : Live(s)' <=> Live(s)
  BY DEF Live
<1>5. StoreInv' /\ DeliveredInv'
  BY <1>1, <1>3 DEF StoreInv, Live, DeliveredInv, Delivered, Drawn
<1>6. HandlerInv'
  BY <1>3 DEF HandlerInv, HandlerOK, Delivered, HoldsRecord, Minted, TypeOK
<1>7. FreshInv' /\ DeadInv'
  BY <1>1, <1>4 DEF FreshInv, Pending, Minted, Delivered, DeadInv, SpentIsDead, TypeOK
<1>8. \A f : Kept(f) => Kept(f)'
  BY <1>4 DEF Kept, Carries, TypeOK
<1>9. KeptInv'
  BY <1>8 DEF KeptInv, Delivered, TypeOK
<1>10. QED
  BY <1>2, <1>5, <1>6, <1>7, <1>9

LEMMA FailPreserves ==
  ASSUME Ind, NEW r \in Request, Fail(r)
  PROVE  Ind'
<1> USE SessionsAssumption DEF Ind, Fail, Finish, redisVars, historyVars
<1>1. pc[r] \in {"rotate", "refreshSet"} => family[tok[r]] \in Token
  BY DEF HandlerInv, HandlerOK, DeliveredInv, Drawn, TypeOK
<1>2. TypeOK'
  BY <1>1 DEF TypeOK, Causes
<1>3. \A record : RecordOK(record) => RecordOK(record)'
  BY RecordStable DEF TypeOK
<1>4. \A s : Live(s)' <=> Live(s)
  BY DEF Live
<1>5. StoreInv' /\ DeliveredInv'
  BY <1>3 DEF StoreInv, Live, DeliveredInv, Delivered, Drawn
<1>6. HandlerInv'
  BY <1>3 DEF HandlerInv, HandlerOK, Delivered, HoldsRecord, Minted, TypeOK
<1>7. FreshInv' /\ DeadInv'
  BY <1>4 DEF FreshInv, Pending, Minted, Delivered, DeadInv, SpentIsDead, TypeOK
<1>8. Others(r)
  BY DEF Others, TypeOK
<1>9. ASSUME NEW f \in Token, Kept(f) PROVE Kept(f)'
  <2>1. ASSUME NEW s \in Token, Live(s), family[s] = f PROVE Kept(f)'
    BY <1>4, <2>1 DEF Kept
  <2>2. ASSUME NEW q \in Request, Carries(q, f) PROVE Kept(f)'
    <3>1. CASE q = r
      BY <1>1, <2>2, <3>1 DEF Kept, Carries, TypeOK
    <3>2. CASE q # r
      BY <1>8, <2>2, <3>2 DEF Kept, Carries, Others
    <3>3. QED
      BY <3>1, <3>2
  <2>3. ASSUME ended[f] # {} PROVE Kept(f)'
    BY <2>3 DEF Kept, TypeOK
  <2>4. QED
    BY <1>9, <2>1, <2>2, <2>3 DEF Kept
<1>10. KeptInv'
  BY <1>8, <1>9 DEF KeptInv, Delivered, Others, DeliveredInv, Drawn, HandlerInv,
     HandlerOK, HoldsRecord, RecordOK, TypeOK
<1>11. QED
  BY <1>2, <1>5, <1>6, <1>7, <1>10

LEMMA TickPreserves ==
  ASSUME Ind, Tick
  PROVE  Ind'
<1> USE SessionsAssumption DEF Ind, Tick, localVars
<1>1. TypeOK'
  BY DEF TypeOK, Causes
<1>2. \A record : RecordOK(record) => RecordOK(record)'
  BY RecordStable DEF TypeOK
<1> DEFINE due == {t \in Token : Live(t) /\ deadline[t] <= now + 1}
<1>3. \A s \in Token :
        /\ Live(s)' <=> Live(s) /\ now + 1 < deadline[s]
        /\ Live(s)' => store'[s] = store[s] /\ deadline'[s] = deadline[s]
        /\ Live(s) /\ ~Live(s)' => ended'[family[s]] # {} \/ family[s] \notin Token
        /\ ended[s] \subseteq ended'[s]
  <2> SUFFICES ASSUME NEW s \in Token
               PROVE  /\ Live(s)' <=> Live(s) /\ now + 1 < deadline[s]
                      /\ Live(s)' => store'[s] = store[s] /\ deadline'[s] = deadline[s]
                      /\ Live(s) /\ ~Live(s)' =>
                           ended'[family[s]] # {} \/ family[s] \notin Token
                      /\ ended[s] \subseteq ended'[s]
    OBVIOUS
  <2>1. /\ store'[s] = IF s \in due THEN NoRecord ELSE store[s]
        /\ deadline'[s] = IF s \in due THEN 0 ELSE deadline[s]
        /\ s \in due <=> Live(s) /\ ~(now + 1 < deadline[s])
    BY DEF TypeOK
  <2>2. \A f \in Token : ended'[f] = IF \E t \in due : family[t] = f
                                     THEN ended[f] \cup {"expired"} ELSE ended[f]
    OBVIOUS
  <2>3. QED
    BY <2>1, <2>2 DEF Live
<1>4. StoreInv'
  BY <1>2, <1>3 DEF StoreInv, TypeOK
<1>5. DeliveredInv' /\ HandlerInv'
  BY <1>2 DEF DeliveredInv, Delivered, Drawn, HandlerInv, HandlerOK, HoldsRecord, Minted
<1>6. FreshInv' /\ DeadInv'
  BY <1>3 DEF FreshInv, Pending, Minted, Delivered, DeadInv, SpentIsDead, TypeOK,
     HandlerInv, HandlerOK, HoldsRecord, RecordOK, SessionRecord
<1>7. ASSUME NEW f \in Token, Kept(f) PROVE Kept(f)'
  BY <1>3, <1>7 DEF Kept, Carries
<1>8. KeptInv'
  BY <1>7 DEF KeptInv, Delivered, DeliveredInv, Drawn, HandlerInv,
     HandlerOK, HoldsRecord, RecordOK, TypeOK
<1>9. QED
  BY <1>1, <1>4, <1>5, <1>6, <1>8

LEMMA StutterPreserves ==
  ASSUME Ind, UNCHANGED vars
  PROVE  Ind'
BY DEF Ind, vars, redisVars, localVars, historyVars, TypeOK, StoreInv, RecordOK, Drawn,
   Live, DeliveredInv, Delivered, HandlerInv, HandlerOK, HoldsRecord, Minted, FreshInv,
   Pending, DeadInv, SpentIsDead, KeptInv, Kept, Carries

LEMMA NextPreserves ==
  ASSUME Ind, [Next]_vars
  PROVE  Ind'
<1>1. ASSUME NEW r \in Request, NEW t \in Token, NEW uuid \in UUID,
             NEW projectId \in Project, CreateSession(r, uuid, projectId, t)
      PROVE  Ind'
  BY <1>1, CreateSessionPreserves
<1>2. ASSUME NEW r \in Request, NEW t \in Token,
             \/ RefreshGet(r, t) \/ RefreshUnauthorized(r, t)
             \/ Rotate(r, t) \/ RevokeDel(r, t)
      PROVE  Ind'
  BY <1>2, RefreshGetPreserves, RotatePreserves, RevokeDelPreserves, StutterPreserves
     DEF RefreshUnauthorized
<1>3. ASSUME NEW r \in Request,
             \/ CreateSet(r) \/ RefreshDel(r) \/ RefreshSet(r)
             \/ Reply(r) \/ RevokeReply(r) \/ Fail(r)
      PROVE  Ind'
  BY <1>3, CreateSetPreserves, RefreshDelPreserves, RefreshSetPreserves, ReplyPreserves,
     RevokeReplyPreserves, FailPreserves
<1>4. QED
  BY <1>1, <1>2, <1>3, TickPreserves, StutterPreserves DEF Next

\* The inductive invariant holds initially.
LEMMA InitInd == Init => Ind
BY SessionsAssumption
   DEF Init, Ind, TypeOK, Causes, StoreInv, Live, DeliveredInv, Delivered, HandlerInv,
       HandlerOK, HoldsRecord, Minted, FreshInv, Pending, DeadInv, SpentIsDead, KeptInv

THEOREM Invariance == Spec => []Ind
BY InitInd, NextPreserves, PTL DEF Spec

-----------------------------------------------------------------------------
(* The theorems                                                            *)

\* Every variable keeps its type.
THEOREM TypeCorrect == Spec => []TypeOK
<1>1. Ind => TypeOK
  BY DEF Ind
<1>2. QED
  BY <1>1, Invariance, PTL

\* A token answered for, by refresh or logout, is dead from then on.
THEOREM SpentDead == Spec => []SpentIsDead
<1>1. Ind => SpentIsDead
  BY DEF Ind, DeadInv
<1>2. QED
  BY <1>1, Invariance, PTL

\* Over any number of refreshes, stored records and access tokens name the
\* account, project and creation time of the sign-in they descend from.
THEOREM LineageKept == Spec => []LineageKeepsIdentity
<1>1. Ind => LineageKeepsIdentity
  <2> SUFFICES ASSUME Ind, NEW t \in Token
               PROVE  LineageKeepsIdentity!(t)
    BY DEF LineageKeepsIdentity
  <2>1. Live(t) => /\ store[t].sessionId = t
                   /\ store[t].uuid = opened[family[t]].uuid
                   /\ store[t].projectId = opened[family[t]].projectId
                   /\ store[t].createdAt = opened[family[t]].createdAt
                   /\ opened[family[t]] \in Identity
    BY DEF Ind, StoreInv, RecordOK, Drawn
  <2>2. \A i \in Identity : i = [uuid |-> i.uuid, projectId |-> i.projectId,
                                 createdAt |-> i.createdAt]
    BY DEF Identity
  <2>3. t \in Delivered =>
          issued[t] = Sign(opened[family[t]].uuid, opened[family[t]].projectId)
    BY DEF Ind, DeliveredInv
  <2>4. QED
    BY <2>1, <2>2, <2>3
<1>2. QED
  BY <1>1, Invariance, PTL

\* The dates of a stored record are in order, and its key lives at least until
\* the expiry the record announces.
THEOREM WindowRolls == Spec => []RollingWindow
<1>1. Ind => RollingWindow
  BY DEF Ind, RollingWindow, StoreInv, RecordOK
<1>2. QED
  BY <1>1, Invariance, PTL

\* A signed-in family without a live token was logged out, expired, or lost by
\* a refresh that failed between DEL and SET, or is between the two right now.
THEOREM LossHasCause == Spec => []NoSilentLoss
<1>1. Ind => NoSilentLoss
  BY DEF Ind, NoSilentLoss, KeptInv, Kept, Carries
<1>2. QED
  BY <1>1, Invariance, PTL

\* A token a client has been handed never comes back once it is gone.
THEOREM NoReturn == Spec => RetiredStaysRetired
<1>1. Ind /\ [Next]_vars =>
        [\A t \in Delivered : ~Live(t) => store'[t] = NoRecord]_vars
  <2> SUFFICES ASSUME Ind, Next, NEW t \in Delivered, ~Live(t)
               PROVE  store'[t] = NoRecord
    BY DEF vars
  <2> USE DEF redisVars, Live
  <2>1. ASSUME NEW r \in Request, CreateSet(r) \/ RefreshSet(r)
        PROVE  store'[t] = NoRecord
    <3>1. rec[r].sessionId # t
      BY <2>1 DEF Ind, FreshInv, Pending, CreateSet, RefreshSet
    <3>2. QED
      BY <2>1, <3>1 DEF CreateSet, RefreshSet, RedisSet, Ind, TypeOK, Delivered
  <2>2. ASSUME NEW r \in Request, NEW s \in Token,
               \/ RefreshGet(r, s) \/ RefreshUnauthorized(r, s)
               \/ Rotate(r, s) \/ RevokeDel(r, s)
               \/ \E uuid \in UUID, projectId \in Project :
                    CreateSession(r, uuid, projectId, s)
        PROVE  store'[t] = NoRecord
    BY <2>2 DEF RefreshGet, RefreshUnauthorized, Rotate, RevokeDel, RedisDel,
       CreateSession, vars, Ind, TypeOK, Delivered
  <2>3. ASSUME NEW r \in Request,
               RefreshDel(r) \/ Reply(r) \/ RevokeReply(r) \/ Fail(r)
        PROVE  store'[t] = NoRecord
    BY <2>3 DEF RefreshDel, Reply, RevokeReply, Fail, RedisDel, Ind, TypeOK, Delivered
  <2>4. ASSUME Tick PROVE store'[t] = NoRecord
    BY <2>4 DEF Tick, Delivered
  <2>5. QED
    BY <2>1, <2>2, <2>3, <2>4 DEF Next
<1>2. QED
  BY <1>1, Invariance, PTL DEF Spec, RetiredStaysRetired

\* A key leaves Redis only by the DEL of a request that names it, or once the
\* expiry its record announces is reached.
THEOREM NoEarlyEnd == Spec => EndsOnlyByRequestOrExpiry
<1>1. Ind /\ [Next]_vars =>
        [\A t \in Token : Live(t) /\ store'[t] = NoRecord =>
           \/ store[t].expiresAt <= now'
           \/ \E r \in Request : tok'[r] = t /\ pc[r] # pc'[r]]_vars
  <2> SUFFICES ASSUME Ind, Next, NEW t \in Token, Live(t), store'[t] = NoRecord
               PROVE  \/ store[t].expiresAt <= now'
                      \/ \E r \in Request : tok'[r] = t /\ pc[r] # pc'[r]
    BY DEF vars
  <2> USE DEF redisVars, Live
  <2>1. ASSUME NEW r \in Request, CreateSet(r) \/ RefreshSet(r)
        PROVE  FALSE
    <3>1. rec[r] \in SessionRecord
      BY <2>1 DEF Ind, HandlerInv, HandlerOK, HoldsRecord, RecordOK, CreateSet, RefreshSet
    <3>2. QED
      BY <2>1, <3>1, SessionsAssumption
         DEF CreateSet, RefreshSet, RedisSet, Ind, TypeOK, SessionRecord
  <2>2. ASSUME NEW r \in Request, NEW s \in Token, RevokeDel(r, s)
        PROVE  \E q \in Request : tok'[q] = t /\ pc[q] # pc'[q]
    BY <2>2 DEF RevokeDel, RedisDel, Ind, TypeOK
  <2>3. ASSUME NEW r \in Request, RefreshDel(r)
        PROVE  \E q \in Request : tok'[q] = t /\ pc[q] # pc'[q]
    BY <2>3 DEF RefreshDel, RedisDel, Ind, TypeOK
  <2>4. ASSUME NEW r \in Request, NEW s \in Token,
               \/ RefreshGet(r, s) \/ RefreshUnauthorized(r, s) \/ Rotate(r, s)
               \/ \E uuid \in UUID, projectId \in Project :
                    CreateSession(r, uuid, projectId, s)
        PROVE  FALSE
    BY <2>4 DEF RefreshGet, RefreshUnauthorized, Rotate, CreateSession, vars
  <2>5. ASSUME NEW r \in Request, Reply(r) \/ RevokeReply(r) \/ Fail(r)
        PROVE  FALSE
    BY <2>5 DEF Reply, RevokeReply, Fail
  <2>6. ASSUME Tick PROVE store[t].expiresAt <= now'
    <3>1. deadline[t] <= now'
      BY <2>6 DEF Tick
    <3>2. /\ store[t].expiresAt <= deadline[t]
          /\ store[t].expiresAt \in Nat /\ deadline[t] \in Nat /\ now' \in Nat
      BY <2>6 DEF Ind, StoreInv, RecordOK, SessionRecord, TypeOK, Tick
    <3>3. QED
      BY <3>1, <3>2
  <2>7. QED
    BY <2>1, <2>2, <2>3, <2>4, <2>5, <2>6 DEF Next
<1>2. QED
  BY <1>1, Invariance, PTL DEF Spec, EndsOnlyByRequestOrExpiry
=============================================================================

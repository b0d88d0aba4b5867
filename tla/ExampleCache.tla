---------------------------- MODULE ExampleCache ----------------------------
(***************************************************************************)
(* ExampleService of apps/example: rows of the table examples with a cache *)
(* of single rows in Redis, filled by findOne and deleted by update and    *)
(* remove.                                                                 *)
(*                                                                         *)
(* Every SQL statement and every Redis command is a step.  TypeORM's `save' *)
(* is a SELECT followed by an INSERT, or an UPDATE of the columns that      *)
(* differ.  findAll, which changes nothing and does not use the cache, and *)
(* the two dates, which the database sets, are left out.                   *)
(***************************************************************************)
EXTENDS Naturals, FiniteSets

CONSTANTS
  Request,    \* concurrently running handler invocations
  Id,         \* identifiers, drawn by AUTO_INCREMENT
  Field,      \* name and description
  Text,       \* their values
  NoId, NoRow,
  MaxWrites   \* bound: how many creates, updates and removes may start

Row == [Field -> Text]

\* UpdateExampleDto: any of the fields.
Dto == UNION {[F -> Text] : F \in SUBSET Field}

ASSUME CacheAssumption ==
  /\ NoId \notin Id
  /\ NoRow \notin Row
  /\ MaxWrites \in Nat

VARIABLES
  db,        \* table examples: the row of each id, or none
  used,      \* ids that AUTO_INCREMENT has given out
  cache,     \* Redis: the row cached under example:<id>, or none
  ttl,       \* ids whose cache entry has a time to live
  pc,        \* where each request stands
  id,        \* the id it is about
  entity,    \* the entity it holds
  seen,      \* the row the SELECT of its `save' has found, or none
  dto,       \* the fields an update sets
  writes,    \* how many creates, updates and removes have started
  \* History, read by properties only:
  contended, \* ids two requests have been about at the same time
  suspect    \* ids whose cache entry an overlap or a failure may have made stale

store == <<db, used, cache, ttl>>
locals == <<pc, id, entity, seen, dto>>
vars == <<store, locals, writes, contended, suspect>>

TypeOK ==
  /\ db \in [Id -> Row \cup {NoRow}]
  /\ used \in SUBSET Id
  /\ cache \in [Id -> Row \cup {NoRow}]
  /\ ttl \in SUBSET Id
  /\ pc \in [Request -> {"idle", "load", "fill", "select", "write", "delete",
                         "invalidate"}]
  /\ id \in [Request -> Id \cup {NoId}]
  /\ entity \in [Request -> Row \cup {NoRow}]
  /\ seen \in [Request -> Row \cup {NoRow}]
  /\ dto \in [Request -> Dto]
  /\ writes \in 0 .. MaxWrites
  /\ contended \in SUBSET Id
  /\ suspect \in SUBSET Id

Empty == [f \in {} |-> {}]

Init ==
  /\ db = [i \in Id |-> NoRow]
  /\ used = {}
  /\ cache = [i \in Id |-> NoRow]
  /\ ttl = {}
  /\ pc = [r \in Request |-> "idle"]
  /\ id = [r \in Request |-> NoId]
  /\ entity = [r \in Request |-> NoRow]
  /\ seen = [r \in Request |-> NoRow]
  /\ dto = [r \in Request |-> Empty]
  /\ writes = 0
  /\ contended = {}
  /\ suspect = {}

-----------------------------------------------------------------------------
(* Shared by the handlers                                                  *)

Goto(r, label) == pc' = [pc EXCEPT ![r] = label]

Others(r, i) == {q \in Request \ {r} : id[q] = i}

\* A request about i starts.
Start(r, i, label) ==
  /\ pc[r] = "idle"
  /\ Goto(r, label)
  /\ id' = [id EXCEPT ![r] = i]
  /\ LET overlap == {j \in {i} : Others(r, i) # {}} IN
       /\ contended' = contended \cup overlap
       /\ suspect' = suspect \cup overlap

\* It ends, answered or refused.
Finish(r) ==
  /\ Goto(r, "idle")
  /\ id' = [id EXCEPT ![r] = NoId]
  /\ entity' = [entity EXCEPT ![r] = NoRow]
  /\ seen' = [seen EXCEPT ![r] = NoRow]
  /\ dto' = [dto EXCEPT ![r] = Empty]

CountWrite == writes < MaxWrites /\ writes' = writes + 1

\* Once a cache entry is gone and no other request is about it, what made it
\* stale is past.
Cleared(r, i) == suspect' = IF Others(r, i) = {} THEN suspect \ {i} ELSE suspect

-----------------------------------------------------------------------------
(* create                                                                  *)

Create(i, row) ==
  /\ CountWrite
  /\ i \notin used
  /\ used' = used \cup {i}
  /\ db' = [db EXCEPT ![i] = row]
  /\ UNCHANGED <<cache, ttl, locals, contended, suspect>>

-----------------------------------------------------------------------------
(* findOne.  A hit changes nothing.                                        *)

FindMiss(r, i) ==
  /\ cache[i] = NoRow
  /\ Start(r, i, "load")
  /\ UNCHANGED <<store, entity, seen, dto, writes>>

FindLoad(r) ==
  /\ pc[r] = "load"
  /\ db[id[r]] # NoRow
  /\ entity' = [entity EXCEPT ![r] = db[id[r]]]
  /\ Goto(r, "fill")
  /\ UNCHANGED <<store, id, seen, dto, writes, contended, suspect>>

\* Mutant: a missing row is not answered for.
FindNothingHangs(r) ==
  /\ pc[r] = "load"
  /\ db[id[r]] = NoRow
  /\ Goto(r, "load")
  /\ UNCHANGED <<store, id, entity, seen, dto, writes, contended, suspect>>

\* 404.
FindNothing(r) ==
  /\ pc[r] = "load"
  /\ db[id[r]] = NoRow
  /\ Finish(r)
  /\ UNCHANGED <<store, writes, contended, suspect>>

\* Mutant: SET without a time to live.
FindFillForever(r) ==
  /\ pc[r] = "fill"
  /\ cache' = [cache EXCEPT ![id[r]] = entity[r]]
  /\ ttl' = ttl \ {id[r]}
  /\ Finish(r)
  /\ UNCHANGED <<db, used, writes, contended, suspect>>

\* SETEX, and answer.
FindFill(r) ==
  /\ pc[r] = "fill"
  /\ cache' = [cache EXCEPT ![id[r]] = entity[r]]
  /\ ttl' = ttl \cup {id[r]}
  /\ Finish(r)
  /\ UNCHANGED <<db, used, writes, contended, suspect>>

-----------------------------------------------------------------------------
(* update                                                                  *)

\* Mutant: the dto alone becomes the entity.
AssignNothing(row, d) == d

\* Mutant: fields the dto leaves out are reset.
AssignAll(row, d) ==
  [f \in Field |-> IF f \in DOMAIN d THEN d[f] ELSE CHOOSE t \in Text : TRUE]

Assign(row, d) == [f \in Field |-> IF f \in DOMAIN d THEN d[f] ELSE row[f]]

\* Mutant: an id without a row is not refused.
UpdateReadUnchecked(r, i, d) ==
  /\ CountWrite
  /\ db[i] # NoRow \/ DOMAIN d = Field
  /\ Start(r, i, "select")
  /\ entity' = [entity EXCEPT ![r] = IF db[i] = NoRow THEN d ELSE Assign(db[i], d)]
  /\ dto' = [dto EXCEPT ![r] = d]
  /\ UNCHANGED <<store, seen>>

\* Find the row, 404 if there is none, and assign the dto to the entity.
UpdateRead(r, i, d) ==
  /\ CountWrite
  /\ db[i] # NoRow
  /\ Start(r, i, "select")
  /\ entity' = [entity EXCEPT ![r] = Assign(db[i], d)]
  /\ dto' = [dto EXCEPT ![r] = d]
  /\ UNCHANGED <<store, seen>>

UpdateSelect(r) ==
  /\ pc[r] = "select"
  /\ seen' = [seen EXCEPT ![r] = db[id[r]]]
  /\ Goto(r, "write")
  /\ UNCHANGED <<store, id, entity, dto, writes, contended, suspect>>

\* INSERT the entity, if the SELECT found no row; its key may be there again.
UpdateInsert(r) ==
  /\ pc[r] = "write"
  /\ seen[r] = NoRow
  /\ db[id[r]] = NoRow
  /\ db' = [db EXCEPT ![id[r]] = entity[r]]
  /\ Goto(r, "invalidate")
  /\ UNCHANGED <<used, cache, ttl, id, entity, seen, dto, writes, contended, suspect>>

UpdateDuplicate(r) ==
  /\ pc[r] = "write"
  /\ seen[r] = NoRow
  /\ db[id[r]] # NoRow
  /\ Finish(r)
  /\ UNCHANGED <<store, writes, contended, suspect>>

\* UPDATE the columns in which the entity differs from the row found; a row that
\* has been removed since is not there to be updated.
UpdateColumns(r) ==
  LET differ == {f \in Field : entity[r][f] # seen[r][f]}
      row == db[id[r]] IN
  /\ pc[r] = "write"
  /\ seen[r] # NoRow
  /\ db' = [db EXCEPT ![id[r]] =
              IF row = NoRow THEN NoRow
              ELSE [f \in Field |-> IF f \in differ THEN entity[r][f] ELSE row[f]]]
  /\ Goto(r, "invalidate")
  /\ UNCHANGED <<used, cache, ttl, id, entity, seen, dto, writes, contended, suspect>>

-----------------------------------------------------------------------------
(* remove                                                                  *)

RemoveRead(r, i) ==
  /\ CountWrite
  /\ db[i] # NoRow
  /\ Start(r, i, "delete")
  /\ UNCHANGED <<store, entity, seen, dto>>

RemoveRow(r) ==
  /\ pc[r] = "delete"
  /\ db' = [db EXCEPT ![id[r]] = NoRow]
  /\ Goto(r, "invalidate")
  /\ UNCHANGED <<used, cache, ttl, id, entity, seen, dto, writes, contended, suspect>>

\* Mutant: the cache entry stays.
InvalidateNothing(r) ==
  /\ pc[r] = "invalidate"
  /\ Cleared(r, id[r])
  /\ Finish(r)
  /\ UNCHANGED <<store, writes, contended>>

\* DEL the cache entry, and answer an update or a remove.
Invalidate(r) ==
  /\ pc[r] = "invalidate"
  /\ cache' = [cache EXCEPT ![id[r]] = NoRow]
  /\ ttl' = ttl \ {id[r]}
  /\ Cleared(r, id[r])
  /\ Finish(r)
  /\ UNCHANGED <<db, used, writes, contended>>

-----------------------------------------------------------------------------
(* The environment                                                         *)

\* A statement or command is rejected or the process dies: nothing is undone.
Fail(r) ==
  /\ pc[r] # "idle"
  /\ suspect' = IF pc[r] = "invalidate" THEN suspect \cup {id[r]} ELSE suspect
  /\ Finish(r)
  /\ UNCHANGED <<store, writes, contended>>

\* CACHE_TTL_SECONDS have passed since the SETEX.
Expire(i) ==
  /\ cache[i] # NoRow
  /\ i \in ttl
  /\ cache' = [cache EXCEPT ![i] = NoRow]
  /\ ttl' = ttl \ {i}
  /\ suspect' = IF \E r \in Request : id[r] = i THEN suspect ELSE suspect \ {i}
  /\ UNCHANGED <<db, used, locals, writes, contended>>

\* The next step of a request that is under way.
Step(r) ==
  \/ FindLoad(r) \/ FindNothing(r) \/ FindFill(r)
  \/ UpdateSelect(r) \/ UpdateInsert(r) \/ UpdateDuplicate(r) \/ UpdateColumns(r)
  \/ RemoveRow(r) \/ Invalidate(r)

Next ==
  \/ \E i \in Id, row \in Row : Create(i, row)
  \/ \E r \in Request, i \in Id :
       \/ FindMiss(r, i)
       \/ RemoveRead(r, i)
       \/ \E d \in Dto : UpdateRead(r, i, d)
  \/ \E r \in Request : Step(r) \/ Fail(r)
  \/ \E i \in Id : Expire(i)

\* The database, Redis and the event loop answer whatever has been asked for,
\* and Redis expires its keys.  Nobody has to send a request, nothing to fail.
Fairness ==
  /\ \A r \in Request : WF_vars(Step(r))
  /\ \A i \in Id : WF_vars(Expire(i))

Spec == Init /\ [][Next]_vars /\ Fairness

-----------------------------------------------------------------------------
(* Properties                                                              *)

Current(i) == cache[i] \in {NoRow, db[i]}

\* When no request about an id is under way, the cache holds its row or
\* nothing, unless an overlap or a failure since the entry was last gone has
\* made it stale.
QuietCacheIsCurrent ==
  \A i \in Id : (\A r \in Request : id[r] # i) /\ i \notin suspect => Current(i)

\* A removed row does not come back, unless requests about it have overlapped.
RemovedStaysRemoved ==
  [][\A i \in used \ contended' : db[i] = NoRow => db'[i] = NoRow]_vars

\* An update changes no field its dto leaves out, unless requests about the row
\* have overlapped.
UpdateKeepsOtherFields ==
  [][\A r \in Request :
       pc[r] = "write" /\ pc'[r] = "invalidate" /\ id[r] \notin contended =>
         \A f \in Field \ DOMAIN dto[r] : db'[id[r]][f] = db[id[r]][f]]_vars

\* What a find of i answers.
Shown(i) == IF cache[i] # NoRow THEN cache[i] ELSE db[i]

\* Writes about i that no find has been answered by yet.
Unseen(i) ==
  {r \in Request :
     /\ id[r] = i
     /\ pc[r] \in {"select", "write", "delete"} \/ (pc[r] = "invalidate" /\ cache[i] # NoRow)}

Removes(r, i) == pc[r] = "delete" \/ (pc[r] = "invalidate" /\ db[i] = NoRow)
Tasks(i) == {[remove |-> Removes(r, i), dto |-> dto[r]] : r \in Unseen(i)}

\* The rows that finds of i are about to store and to answer.
Answers(i) == {entity[r] : r \in {q \in Request : id[q] = i /\ pc[q] = "fill"}}

Store == INSTANCE RowStore WITH
  row <- [i \in Id |-> Shown(i)],
  tasks <- [i \in Id |-> Tasks(i)],
  answer <- [i \in Id |-> Answers(i)]

\* Statements and commands about an id, about which requests have never overlapped and
\* whose entry no failed DEL has made stale, are steps of a store without a cache, or
\* change nothing that a client is shown: a find, hit or miss, answers the row there is,
\* and an update or a remove shows at one moment and before it is answered.
StoreKept ==
  [][\A i \in Id \ (contended' \cup suspect \cup suspect') :
       Store!Lives(i) \/ Store!Same(i)]_vars

\* After the last write the cache is current for good, whatever reads, overlaps
\* and failures have left in it: a stale entry lives no longer than its time to
\* live.
EventuallyCurrent == <>[](\A i \in Id : Current(i))

\* Every request is answered or fails.
EveryRequestEnds == \A r \in Request : pc[r] # "idle" ~> pc[r] = "idle"
=============================================================================

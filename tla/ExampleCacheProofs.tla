-------------------------- MODULE ExampleCacheProofs --------------------------
(* Proofs of the invariants and action properties of ExampleCache for every *)
(* number of requests and ids and every fields and texts.                   *)
EXTENDS ExampleCache, TLAPS

\* A request is about an id exactly while it runs.
IdleIsBlank == \A r \in Request : pc[r] = "idle" <=> id[r] = NoId

RowsAreUsed == \A i \in Id : db[i] # NoRow => i \in used

\* What a request holds is a row, of an id that has been given out.
HandlersHold ==
  \A r \in Request :
    pc[r] \in {"fill", "select", "write"} => entity[r] \in Row /\ id[r] \in used

\* An id that is not suspect has at most one request about it; its entry is
\* current unless a write has not yet been followed by its DEL, and what is about
\* to be stored is the row.
Trusted ==
  \A i \in Id \ suspect :
    /\ \A q, r \in Request : id[q] = i /\ id[r] = i => q = r
    /\ (\A r \in Request : id[r] = i => pc[r] # "invalidate") => Current(i)
    /\ \A r \in Request : id[r] = i /\ pc[r] = "fill" => entity[r] = db[i]

\* While requests about an id have not overlapped, an update under way works on
\* the row as it is, and differs from it in the fields of its dto only.
Undisturbed ==
  \A i \in Id \ contended :
    /\ \A q, r \in Request : id[q] = i /\ id[r] = i => q = r
    /\ \A r \in Request : id[r] = i /\ pc[r] \in {"select", "write"} =>
         /\ db[i] # NoRow
         /\ pc[r] = "write" => seen[r] = db[i]
         /\ \A f \in Field \ DOMAIN dto[r] : entity[r][f] = db[i][f]

Ind ==
  /\ TypeOK
  /\ HandlersHold
  /\ IdleIsBlank
  /\ RowsAreUsed
  /\ Trusted
  /\ Undisturbed

-----------------------------------------------------------------------------
(* The invariant is inductive                                              *)

\* The dto of a request that runs no update.
LEMMA EmptyIsDto == Empty \in Dto
<1>1. Empty \in [{} -> Text]
  BY DEF Empty
<1> QED BY <1>1 DEF Dto

\* Assigning a dto to an entity gives an entity, and leaves its other fields.
LEMMA AssignKeeps ==
  ASSUME NEW row \in Row, NEW d \in Dto
  PROVE  /\ Assign(row, d) \in Row
         /\ \A f \in Field \ DOMAIN d : Assign(row, d)[f] = row[f]
<1>1. PICK F \in SUBSET Field : d \in [F -> Text]
  BY DEF Dto
<1> QED BY <1>1 DEF Assign, Row

\* An empty table and an empty cache.
LEMMA InitInd == Init => Ind
  BY CacheAssumption, EmptyIsDto
  DEF Init, Ind, TypeOK, HandlersHold, IdleIsBlank, RowsAreUsed, Trusted, Undisturbed,
      Current

\* Each action keeps the invariant.
LEMMA NextInd == Ind /\ [Next]_vars => Ind'
<1> SUFFICES ASSUME Ind, [Next]_vars PROVE Ind'
  OBVIOUS
<1> USE CacheAssumption
<1>1. ASSUME NEW i \in Id, NEW row \in Row, Create(i, row) PROVE Ind'
  <2>1. TypeOK'
    BY <1>1 DEF Ind, TypeOK, HandlersHold, IdleIsBlank, Create, CountWrite, locals
  <2>2. HandlersHold'
    BY <1>1 DEF Ind, HandlersHold, TypeOK, IdleIsBlank, Create, CountWrite, locals
  <2>3. IdleIsBlank'
    BY <1>1 DEF Ind, IdleIsBlank, TypeOK, Create, CountWrite, locals
  <2>4. RowsAreUsed'
    BY <1>1
    DEF Ind, RowsAreUsed, TypeOK, IdleIsBlank, HandlersHold, Create, CountWrite,
        locals
  <2>5. Trusted'
    <3> SUFFICES ASSUME NEW j \in Id, j \notin suspect'
                 PROVE  /\ \A p, q \in Request : id'[p] = j /\ id'[q] = j => p = q
                        /\ (\A q \in Request : id'[q] = j => pc'[q] # "invalidate")
                             => Current(j)'
                        /\ \A q \in Request :
                             id'[q] = j /\ pc'[q] = "fill" => entity'[q] = db'[j]
      BY DEF Trusted
    <3>1. j \notin suspect /\ UNCHANGED locals /\ cache' = cache
      BY <1>1 DEF Create
    <3>2. CASE j # i
      BY <1>1, <3>1, <3>2 DEF Ind, TypeOK, Trusted, Current, Create, locals
    <3>3. CASE j = i
      <4>1. db[i] = NoRow
        BY <1>1 DEF Ind, RowsAreUsed, Create
      <4>2. \A q \in Request : id[q] = j => pc[q] # "fill"
        BY <3>1, <3>3, <4>1 DEF Ind, Trusted, HandlersHold
      <4> QED BY <1>1, <3>1, <3>3, <4>1, <4>2 DEF Ind, Trusted, Current, locals
    <3> QED BY <3>2, <3>3
  <2>6. Undisturbed'
    BY <1>1
    DEF Ind, Undisturbed, TypeOK, IdleIsBlank, RowsAreUsed, HandlersHold, Create,
        CountWrite, locals
  <2> QED BY <2>1, <2>2, <2>3, <2>4, <2>5, <2>6 DEF Ind
<1>2. ASSUME NEW r \in Request, NEW i \in Id, FindMiss(r, i) PROVE Ind'
  <2>1. TypeOK'
    BY <1>2
    DEF Ind, TypeOK, HandlersHold, IdleIsBlank, FindMiss, Start, Goto, Others, store
  <2>2. HandlersHold'
    BY <1>2
    DEF Ind, HandlersHold, TypeOK, IdleIsBlank, RowsAreUsed, FindMiss, Start, Goto,
        Others, store
  <2>3. IdleIsBlank'
    BY <1>2 DEF Ind, IdleIsBlank, TypeOK, FindMiss, Start, Goto, Others, store
  <2>4. RowsAreUsed'
    BY <1>2
    DEF Ind, RowsAreUsed, TypeOK, IdleIsBlank, HandlersHold, FindMiss, Start, Goto,
        Others, store
  <2>5. Trusted'
    BY <1>2
    DEF Ind, Trusted, TypeOK, IdleIsBlank, RowsAreUsed, Current, FindMiss, Start,
        Goto, Others, store
  <2>6. Undisturbed'
    BY <1>2
    DEF Ind, Undisturbed, TypeOK, IdleIsBlank, RowsAreUsed, HandlersHold, FindMiss,
        Start, Goto, Others, store
  <2> QED BY <2>1, <2>2, <2>3, <2>4, <2>5, <2>6 DEF Ind
<1>3. ASSUME NEW r \in Request, NEW i \in Id, RemoveRead(r, i) PROVE Ind'
  <2>1. TypeOK'
    BY <1>3
    DEF Ind, TypeOK, HandlersHold, IdleIsBlank, RemoveRead, CountWrite, Start, Goto,
        Others, store
  <2>2. HandlersHold'
    BY <1>3
    DEF Ind, HandlersHold, TypeOK, IdleIsBlank, RowsAreUsed, RemoveRead, CountWrite,
        Start, Goto,
        Others, store
  <2>3. IdleIsBlank'
    BY <1>3
    DEF Ind, IdleIsBlank, TypeOK, RemoveRead, CountWrite, Start, Goto, Others, store
  <2>4. RowsAreUsed'
    BY <1>3
    DEF Ind, RowsAreUsed, TypeOK, IdleIsBlank, HandlersHold, RemoveRead, CountWrite,
        Start, Goto, Others, store
  <2>5. Trusted'
    BY <1>3
    DEF Ind, Trusted, TypeOK, IdleIsBlank, RowsAreUsed, Current, RemoveRead,
        CountWrite, Start, Goto, Others, store
  <2>6. Undisturbed'
    BY <1>3
    DEF Ind, Undisturbed, TypeOK, IdleIsBlank, RowsAreUsed, HandlersHold, RemoveRead,
        CountWrite, Start, Goto, Others, store
  <2> QED BY <2>1, <2>2, <2>3, <2>4, <2>5, <2>6 DEF Ind
<1>4. ASSUME NEW r \in Request, NEW i \in Id, NEW d \in Dto,
             UpdateRead(r, i, d)
      PROVE  Ind'
  <2>1. TypeOK'
    BY <1>4, AssignKeeps
    DEF Ind, TypeOK, HandlersHold, IdleIsBlank, UpdateRead, CountWrite, Start, Goto,
        Others, store
  <2>2. HandlersHold'
    BY <1>4, AssignKeeps
    DEF Ind, HandlersHold, TypeOK, IdleIsBlank, RowsAreUsed, UpdateRead, CountWrite,
        Start, Goto,
        Others, store
  <2>3. IdleIsBlank'
    BY <1>4, AssignKeeps
    DEF Ind, IdleIsBlank, TypeOK, UpdateRead, CountWrite, Start, Goto, Others, store
  <2>4. RowsAreUsed'
    BY <1>4, AssignKeeps
    DEF Ind, RowsAreUsed, TypeOK, IdleIsBlank, HandlersHold, UpdateRead, CountWrite,
        Start, Goto, Others, store
  <2>5. Trusted'
    <3> SUFFICES ASSUME NEW j \in Id, j \notin suspect'
                 PROVE  /\ \A p, q \in Request : id'[p] = j /\ id'[q] = j => p = q
                        /\ (\A q \in Request : id'[q] = j => pc'[q] # "invalidate")
                             => Current(j)'
                        /\ \A q \in Request :
                             id'[q] = j /\ pc'[q] = "fill" => entity'[q] = db'[j]
      BY DEF Trusted
    <3>1. j \notin suspect /\ pc[r] = "idle" /\ UNCHANGED <<db, cache>>
      BY <1>4 DEF UpdateRead, Start, store
    <3>2. /\ pc' = [pc EXCEPT ![r] = "select"]
          /\ id' = [id EXCEPT ![r] = i]
          /\ j = i => Others(r, i) = {}
          /\ entity' = [entity EXCEPT ![r] = Assign(db[i], d)]
      BY <1>4 DEF UpdateRead, Start, Goto
    <3> QED BY <3>1, <3>2 DEF Ind, TypeOK, IdleIsBlank, Trusted, Current, Others
  <2>6. Undisturbed'
    BY <1>4, AssignKeeps
    DEF Ind, Undisturbed, TypeOK, IdleIsBlank, RowsAreUsed, HandlersHold, UpdateRead,
        CountWrite, Start, Goto, Others, store
  <2> QED BY <2>1, <2>2, <2>3, <2>4, <2>5, <2>6 DEF Ind
<1>5. ASSUME NEW r \in Request, FindLoad(r) PROVE Ind'
  <2>1. TypeOK'
    BY <1>5 DEF Ind, TypeOK, HandlersHold, IdleIsBlank, FindLoad, Goto, store
  <2>2. HandlersHold'
    BY <1>5
    DEF Ind, HandlersHold, TypeOK, IdleIsBlank, RowsAreUsed, FindLoad, Goto, store
  <2>3. IdleIsBlank'
    BY <1>5 DEF Ind, IdleIsBlank, TypeOK, FindLoad, Goto, store
  <2>4. RowsAreUsed'
    BY <1>5
    DEF Ind, RowsAreUsed, TypeOK, IdleIsBlank, HandlersHold, FindLoad, Goto, store
  <2>5. Trusted'
    BY <1>5
    DEF Ind, Trusted, TypeOK, IdleIsBlank, RowsAreUsed, Current, FindLoad, Goto, store
  <2>6. Undisturbed'
    BY <1>5
    DEF Ind, Undisturbed, TypeOK, IdleIsBlank, RowsAreUsed, HandlersHold, FindLoad,
        Goto, store
  <2> QED BY <2>1, <2>2, <2>3, <2>4, <2>5, <2>6 DEF Ind
<1>6. ASSUME NEW r \in Request, FindNothing(r) PROVE Ind'
  <2>1. TypeOK'
    BY <1>6, EmptyIsDto
    DEF Ind, TypeOK, HandlersHold, IdleIsBlank, FindNothing, Finish, Goto, store
  <2>2. HandlersHold'
    BY <1>6, EmptyIsDto
    DEF Ind, HandlersHold, TypeOK, IdleIsBlank, RowsAreUsed, FindNothing, Finish,
        Goto, store
  <2>3. IdleIsBlank'
    BY <1>6, EmptyIsDto DEF Ind, IdleIsBlank, TypeOK, FindNothing, Finish, Goto, store
  <2>4. RowsAreUsed'
    BY <1>6, EmptyIsDto
    DEF Ind, RowsAreUsed, TypeOK, IdleIsBlank, HandlersHold, FindNothing, Finish,
        Goto, store
  <2>5. Trusted'
    BY <1>6, EmptyIsDto
    DEF Ind, Trusted, TypeOK, IdleIsBlank, RowsAreUsed, Current, FindNothing, Finish,
        Goto, store
  <2>6. Undisturbed'
    BY <1>6, EmptyIsDto
    DEF Ind, Undisturbed, TypeOK, IdleIsBlank, RowsAreUsed, HandlersHold, FindNothing,
        Finish, Goto, store
  <2> QED BY <2>1, <2>2, <2>3, <2>4, <2>5, <2>6 DEF Ind
<1>7. ASSUME NEW r \in Request, FindFill(r) PROVE Ind'
  <2>1. TypeOK'
    BY <1>7, EmptyIsDto
    DEF Ind, TypeOK, HandlersHold, IdleIsBlank, FindFill, Finish, Goto
  <2>2. HandlersHold'
    BY <1>7, EmptyIsDto
    DEF Ind, HandlersHold, TypeOK, IdleIsBlank, RowsAreUsed, FindFill, Finish, Goto
  <2>3. IdleIsBlank'
    BY <1>7, EmptyIsDto DEF Ind, IdleIsBlank, TypeOK, FindFill, Finish, Goto
  <2>4. RowsAreUsed'
    BY <1>7, EmptyIsDto
    DEF Ind, RowsAreUsed, TypeOK, IdleIsBlank, HandlersHold, FindFill, Finish, Goto
  <2>5. Trusted'
    BY <1>7, EmptyIsDto
    DEF Ind, Trusted, TypeOK, IdleIsBlank, RowsAreUsed, Current, FindFill, Finish,
        Goto
  <2>6. Undisturbed'
    BY <1>7, EmptyIsDto
    DEF Ind, Undisturbed, TypeOK, IdleIsBlank, RowsAreUsed, HandlersHold, FindFill,
        Finish, Goto
  <2> QED BY <2>1, <2>2, <2>3, <2>4, <2>5, <2>6 DEF Ind
<1>8. ASSUME NEW r \in Request, UpdateSelect(r) PROVE Ind'
  <2>1. TypeOK'
    BY <1>8 DEF Ind, TypeOK, HandlersHold, IdleIsBlank, UpdateSelect, Goto, store
  <2>2. HandlersHold'
    BY <1>8 DEF Ind, HandlersHold, TypeOK, IdleIsBlank, UpdateSelect, Goto, store
  <2>3. IdleIsBlank'
    BY <1>8 DEF Ind, IdleIsBlank, TypeOK, UpdateSelect, Goto, store
  <2>4. RowsAreUsed'
    BY <1>8
    DEF Ind, RowsAreUsed, TypeOK, IdleIsBlank, HandlersHold, UpdateSelect, Goto, store
  <2>5. Trusted'
    BY <1>8
    DEF Ind, Trusted, TypeOK, IdleIsBlank, RowsAreUsed, Current, UpdateSelect, Goto,
        store
  <2>6. Undisturbed'
    BY <1>8
    DEF Ind, Undisturbed, TypeOK, IdleIsBlank, RowsAreUsed, HandlersHold,
        UpdateSelect, Goto, store
  <2> QED BY <2>1, <2>2, <2>3, <2>4, <2>5, <2>6 DEF Ind
<1>9. ASSUME NEW r \in Request, UpdateInsert(r) PROVE Ind'
  <2>1. TypeOK'
    BY <1>9 DEF Ind, TypeOK, HandlersHold, IdleIsBlank, UpdateInsert, Goto
  <2>2. HandlersHold'
    BY <1>9 DEF Ind, HandlersHold, TypeOK, IdleIsBlank, UpdateInsert, Goto
  <2>3. IdleIsBlank'
    BY <1>9 DEF Ind, IdleIsBlank, TypeOK, UpdateInsert, Goto
  <2>4. RowsAreUsed'
    BY <1>9 DEF Ind, RowsAreUsed, TypeOK, IdleIsBlank, HandlersHold, UpdateInsert, Goto
  <2>5. Trusted'
    <3> SUFFICES ASSUME NEW j \in Id, j \notin suspect'
                 PROVE  /\ \A p, q \in Request : id'[p] = j /\ id'[q] = j => p = q
                        /\ (\A q \in Request : id'[q] = j => pc'[q] # "invalidate")
                             => Current(j)'
                        /\ \A q \in Request :
                             id'[q] = j /\ pc'[q] = "fill" => entity'[q] = db'[j]
      BY DEF Trusted
    <3>1. id[r] \in Id /\ j \notin suspect
      BY <1>9 DEF Ind, TypeOK, IdleIsBlank, UpdateInsert
    <3>2. /\ pc' = [pc EXCEPT ![r] = "invalidate"]
          /\ db' = [db EXCEPT ![id[r]] = entity[r]]
          /\ UNCHANGED <<cache, id, entity>>
      BY <1>9 DEF UpdateInsert, Goto
    <3>3. CASE j = id[r]
      BY <3>1, <3>2, <3>3 DEF Ind, TypeOK, Trusted
    <3>4. CASE j # id[r]
      BY <3>1, <3>2, <3>4 DEF Ind, TypeOK, Trusted, Current
    <3> QED BY <3>3, <3>4
  <2>6. Undisturbed'
    BY <1>9
    DEF Ind, Undisturbed, TypeOK, IdleIsBlank, RowsAreUsed, HandlersHold,
        UpdateInsert, Goto
  <2> QED BY <2>1, <2>2, <2>3, <2>4, <2>5, <2>6 DEF Ind
<1>10. ASSUME NEW r \in Request, UpdateDuplicate(r) PROVE Ind'
  <2>1. TypeOK'
    BY <1>10, EmptyIsDto
    DEF Ind, TypeOK, HandlersHold, IdleIsBlank, UpdateDuplicate, Finish, Goto, store
  <2>2. HandlersHold'
    BY <1>10, EmptyIsDto
    DEF Ind, HandlersHold, TypeOK, IdleIsBlank, RowsAreUsed, UpdateDuplicate, Finish,
        Goto, store
  <2>3. IdleIsBlank'
    BY <1>10, EmptyIsDto
    DEF Ind, IdleIsBlank, TypeOK, UpdateDuplicate, Finish, Goto, store
  <2>4. RowsAreUsed'
    BY <1>10, EmptyIsDto
    DEF Ind, RowsAreUsed, TypeOK, IdleIsBlank, HandlersHold, UpdateDuplicate, Finish,
        Goto, store
  <2>5. Trusted'
    BY <1>10, EmptyIsDto
    DEF Ind, Trusted, TypeOK, IdleIsBlank, RowsAreUsed, Current, UpdateDuplicate,
        Finish, Goto, store
  <2>6. Undisturbed'
    BY <1>10, EmptyIsDto
    DEF Ind, Undisturbed, TypeOK, IdleIsBlank, RowsAreUsed, HandlersHold,
        UpdateDuplicate, Finish, Goto, store
  <2> QED BY <2>1, <2>2, <2>3, <2>4, <2>5, <2>6 DEF Ind
<1>11. ASSUME NEW r \in Request, UpdateColumns(r) PROVE Ind'
  <2>0. LET row == db[id[r]]
            differ == {f \in Field : entity[r][f] # seen[r][f]} IN
        row # NoRow =>
          [f \in Field |-> IF f \in differ THEN entity[r][f] ELSE row[f]] \in Row
    <3>1. id[r] \in Id /\ entity[r] \in Row
      BY <1>11 DEF Ind, TypeOK, HandlersHold, IdleIsBlank, UpdateColumns
    <3>2. db[id[r]] \in Row \cup {NoRow}
      BY <3>1 DEF Ind, TypeOK
    <3> QED BY <3>1, <3>2 DEF Row
  <2>1. TypeOK'
    BY <1>11, <2>0 DEF Ind, TypeOK, HandlersHold, IdleIsBlank, UpdateColumns, Goto
  <2>2. HandlersHold'
    BY <1>11, <2>0 DEF Ind, HandlersHold, TypeOK, IdleIsBlank, UpdateColumns, Goto
  <2>3. IdleIsBlank'
    BY <1>11, <2>0 DEF Ind, IdleIsBlank, TypeOK, UpdateColumns, Goto
  <2>4. RowsAreUsed'
    BY <1>11, <2>0
    DEF Ind, RowsAreUsed, TypeOK, IdleIsBlank, HandlersHold, UpdateColumns, Goto
  <2>5. Trusted'
    BY <1>11, <2>0
    DEF Ind, Trusted, TypeOK, IdleIsBlank, RowsAreUsed, Current, UpdateColumns, Goto
  <2>6. Undisturbed'
    BY <1>11, <2>0
    DEF Ind, Undisturbed, TypeOK, IdleIsBlank, RowsAreUsed, HandlersHold,
        UpdateColumns, Goto
  <2> QED BY <2>1, <2>2, <2>3, <2>4, <2>5, <2>6 DEF Ind
<1>12. ASSUME NEW r \in Request, RemoveRow(r) PROVE Ind'
  <2>1. TypeOK'
    BY <1>12 DEF Ind, TypeOK, HandlersHold, IdleIsBlank, RemoveRow, Goto
  <2>2. HandlersHold'
    BY <1>12 DEF Ind, HandlersHold, TypeOK, IdleIsBlank, RemoveRow, Goto
  <2>3. IdleIsBlank'
    BY <1>12 DEF Ind, IdleIsBlank, TypeOK, RemoveRow, Goto
  <2>4. RowsAreUsed'
    BY <1>12 DEF Ind, RowsAreUsed, TypeOK, IdleIsBlank, HandlersHold, RemoveRow, Goto
  <2>5. Trusted'
    BY <1>12
    DEF Ind, Trusted, TypeOK, IdleIsBlank, RowsAreUsed, Current, RemoveRow, Goto
  <2>6. Undisturbed'
    BY <1>12
    DEF Ind, Undisturbed, TypeOK, IdleIsBlank, RowsAreUsed, HandlersHold, RemoveRow,
        Goto
  <2> QED BY <2>1, <2>2, <2>3, <2>4, <2>5, <2>6 DEF Ind
<1>13. ASSUME NEW r \in Request, Invalidate(r) PROVE Ind'
  <2>1. TypeOK'
    BY <1>13, EmptyIsDto
    DEF Ind, TypeOK, HandlersHold, IdleIsBlank, Invalidate, Cleared, Others, Finish,
        Goto
  <2>2. HandlersHold'
    BY <1>13, EmptyIsDto
    DEF Ind, HandlersHold, TypeOK, IdleIsBlank, RowsAreUsed, Invalidate, Cleared,
        Others, Finish,
        Goto
  <2>3. IdleIsBlank'
    BY <1>13, EmptyIsDto
    DEF Ind, IdleIsBlank, TypeOK, Invalidate, Cleared, Others, Finish, Goto
  <2>4. RowsAreUsed'
    BY <1>13, EmptyIsDto
    DEF Ind, RowsAreUsed, TypeOK, IdleIsBlank, HandlersHold, Invalidate, Cleared,
        Others, Finish, Goto
  <2>5. Trusted'
    BY <1>13, EmptyIsDto
    DEF Ind, Trusted, TypeOK, IdleIsBlank, RowsAreUsed, Current, Invalidate, Cleared,
        Others, Finish, Goto
  <2>6. Undisturbed'
    BY <1>13, EmptyIsDto
    DEF Ind, Undisturbed, TypeOK, IdleIsBlank, RowsAreUsed, HandlersHold, Invalidate,
        Cleared, Others, Finish, Goto
  <2> QED BY <2>1, <2>2, <2>3, <2>4, <2>5, <2>6 DEF Ind
<1>14. ASSUME NEW r \in Request, Fail(r) PROVE Ind'
  <2>1. TypeOK'
    BY <1>14, EmptyIsDto
    DEF Ind, TypeOK, HandlersHold, IdleIsBlank, Fail, Finish, Goto, store
  <2>2. HandlersHold'
    BY <1>14, EmptyIsDto
    DEF Ind, HandlersHold, TypeOK, IdleIsBlank, RowsAreUsed, Fail, Finish, Goto, store
  <2>3. IdleIsBlank'
    BY <1>14, EmptyIsDto DEF Ind, IdleIsBlank, TypeOK, Fail, Finish, Goto, store
  <2>4. RowsAreUsed'
    BY <1>14, EmptyIsDto
    DEF Ind, RowsAreUsed, TypeOK, IdleIsBlank, HandlersHold, Fail, Finish, Goto, store
  <2>5. Trusted'
    BY <1>14, EmptyIsDto
    DEF Ind, Trusted, TypeOK, IdleIsBlank, RowsAreUsed, Current, Fail, Finish, Goto,
        store
  <2>6. Undisturbed'
    BY <1>14, EmptyIsDto
    DEF Ind, Undisturbed, TypeOK, IdleIsBlank, RowsAreUsed, HandlersHold, Fail,
        Finish, Goto, store
  <2> QED BY <2>1, <2>2, <2>3, <2>4, <2>5, <2>6 DEF Ind
<1>15. ASSUME NEW i \in Id, Expire(i) PROVE Ind'
  <2>1. TypeOK'
    BY <1>15 DEF Ind, TypeOK, HandlersHold, IdleIsBlank, Expire, locals
  <2>2. HandlersHold'
    BY <1>15 DEF Ind, HandlersHold, TypeOK, IdleIsBlank, Expire, locals
  <2>3. IdleIsBlank'
    BY <1>15 DEF Ind, IdleIsBlank, TypeOK, Expire, locals
  <2>4. RowsAreUsed'
    BY <1>15 DEF Ind, RowsAreUsed, TypeOK, IdleIsBlank, HandlersHold, Expire, locals
  <2>5. Trusted'
    BY <1>15 DEF Ind, Trusted, TypeOK, IdleIsBlank, RowsAreUsed, Current, Expire, locals
  <2>6. Undisturbed'
    BY <1>15
    DEF Ind, Undisturbed, TypeOK, IdleIsBlank, RowsAreUsed, HandlersHold, Expire,
        locals
  <2> QED BY <2>1, <2>2, <2>3, <2>4, <2>5, <2>6 DEF Ind
<1>16. ASSUME UNCHANGED vars PROVE Ind'
  <2>1. TypeOK'
    BY <1>16 DEF Ind, TypeOK, HandlersHold, IdleIsBlank, vars, store, locals
  <2>2. HandlersHold'
    BY <1>16 DEF Ind, HandlersHold, TypeOK, IdleIsBlank, vars, store, locals
  <2>3. IdleIsBlank'
    BY <1>16 DEF Ind, IdleIsBlank, TypeOK, vars, store, locals
  <2>4. RowsAreUsed'
    BY <1>16
    DEF Ind, RowsAreUsed, TypeOK, IdleIsBlank, HandlersHold, vars, store, locals
  <2>5. Trusted'
    BY <1>16
    DEF Ind, Trusted, TypeOK, IdleIsBlank, RowsAreUsed, Current, vars, store, locals
  <2>6. Undisturbed'
    BY <1>16
    DEF Ind, Undisturbed, TypeOK, IdleIsBlank, RowsAreUsed, HandlersHold, vars, store,
        locals
  <2> QED BY <2>1, <2>2, <2>3, <2>4, <2>5, <2>6 DEF Ind
<1> QED
  BY <1>1, <1>2, <1>3, <1>4, <1>5, <1>6, <1>7, <1>8, <1>9, <1>10, <1>11, <1>12, <1>13,
     <1>14, <1>15, <1>16
  DEF Next, Step

THEOREM Invariance == Spec => []Ind
  BY InitInd, NextInd, PTL DEF Spec

-----------------------------------------------------------------------------
(* What follows from it                                                    *)

\* Every variable keeps its type.
THEOREM TypeCorrect == Spec => []TypeOK
<1>1. Ind => TypeOK
  BY DEF Ind
<1> QED BY <1>1, Invariance, PTL

\* When no request about an id is under way, the cache holds its row or nothing,
\* unless an overlap or a failure has made the entry stale.
THEOREM QuietIsCurrent == Spec => []QuietCacheIsCurrent
<1>1. Ind => QuietCacheIsCurrent
  BY DEF Ind, Trusted, QuietCacheIsCurrent
<1> QED BY <1>1, Invariance, PTL

\* A removed row does not come back, unless requests about it have overlapped.
THEOREM RemovedForGood == Spec => RemovedStaysRemoved
<1> DEFINE Stays(i) == db[i] = NoRow => db'[i] = NoRow
<1>1. ASSUME Ind, Next, NEW i \in used \ contended'
      PROVE  Stays(i)
  <2>1. i \in Id
    BY <1>1 DEF Ind, TypeOK
  <2>2. CASE UNCHANGED db
    BY <2>2
  <2>3. CASE ~UNCHANGED db
    <3>1. \/ \E j \in Id, row \in Row : Create(j, row)
          \/ \E r \in Request : UpdateInsert(r) \/ UpdateColumns(r) \/ RemoveRow(r)
      BY <1>1, <2>3
      DEF Next, Step, FindMiss, RemoveRead, UpdateRead, FindLoad, FindNothing, FindFill,
          UpdateSelect, UpdateDuplicate, Invalidate, Fail, Expire, store
    <3>2. ASSUME NEW j \in Id, NEW row \in Row, Create(j, row) PROVE Stays(i)
      BY <1>1, <2>1, <3>2 DEF Create, Ind, TypeOK
    <3>3. ASSUME NEW r \in Request, UpdateInsert(r) PROVE Stays(i)
      BY <1>1, <2>1, <3>3 DEF UpdateInsert, Ind, TypeOK, Undisturbed
    <3>4. ASSUME NEW r \in Request, UpdateColumns(r) \/ RemoveRow(r) PROVE Stays(i)
      BY <1>1, <2>1, <3>4 DEF UpdateColumns, RemoveRow, Ind, TypeOK
    <3> QED BY <3>1, <3>2, <3>3, <3>4
  <2> QED BY <2>2, <2>3
<1>2. ASSUME Ind, [Next]_vars
      PROVE  [\A i \in used \ contended' : Stays(i)]_vars
  BY <1>1, <1>2
<1> QED BY <1>2, Invariance, PTL DEF Spec, RemovedStaysRemoved

\* An update changes no field its dto leaves out, unless requests about the row
\* have overlapped.
THEOREM OtherFieldsKept == Spec => UpdateKeepsOtherFields
<1> DEFINE Keeps(r) ==
      pc[r] = "write" /\ pc'[r] = "invalidate" /\ id[r] \notin contended =>
        \A f \in Field \ DOMAIN dto[r] : db'[id[r]][f] = db[id[r]][f]
<1>1. ASSUME Ind, Next, NEW r \in Request PROVE Keeps(r)
  <2> SUFFICES ASSUME pc[r] = "write", pc'[r] = "invalidate", id[r] \notin contended
               PROVE  \A f \in Field \ DOMAIN dto[r] : db'[id[r]][f] = db[id[r]][f]
    OBVIOUS
  <2>1. UpdateInsert(r) \/ UpdateColumns(r)
    <3>1. pc \in [Request -> {"idle", "load", "fill", "select", "write", "delete",
                              "invalidate"}]
      BY <1>1 DEF Ind, TypeOK
    <3>2. PICK q \in Request : UpdateInsert(q) \/ UpdateColumns(q) \/ RemoveRow(q)
      <4>1. \A i \in Id : ~FindMiss(r, i) /\ ~RemoveRead(r, i)
        BY DEF FindMiss, RemoveRead, Start
      <4> QED
        BY <1>1, <3>1, <4>1
        DEF Next, Step, Create, FindMiss, RemoveRead, UpdateRead, FindLoad, FindNothing,
            FindFill, UpdateSelect, UpdateDuplicate, Invalidate, Fail, Expire, Start,
            Finish, Goto, locals
    <3> QED BY <3>1, <3>2 DEF UpdateInsert, UpdateColumns, RemoveRow, Goto
  <2>2. /\ id[r] \in Id
        /\ seen[r] = db[id[r]] /\ db[id[r]] # NoRow
        /\ \A f \in Field \ DOMAIN dto[r] : entity[r][f] = db[id[r]][f]
    BY <1>1, CacheAssumption DEF Ind, TypeOK, IdleIsBlank, Undisturbed
  <2> QED BY <1>1, <2>1, <2>2 DEF UpdateInsert, UpdateColumns, Ind, TypeOK
<1>2. ASSUME Ind, [Next]_vars PROVE [\A r \in Request : Keeps(r)]_vars
  BY <1>1, <1>2
<1> QED BY <1>2, Invariance, PTL DEF Spec, UpdateKeepsOtherFields

-----------------------------------------------------------------------------
(* The store behind the cache                                              *)

Calm == Id \ (contended \cup suspect)

\* An update or a remove has found a row.  While requests about the id do not overlap, an
\* update is about to write the row as its dto changes it, a remove deletes a row, and
\* what an entry that is to be deleted hides is that change of it.
TasksFit ==
  \A r \in Request :
    /\ pc[r] \in {"delete", "invalidate"} => id[r] \in used
    /\ id[r] \in Calm =>
         /\ pc[r] \in {"select", "write"} => entity[r] = Assign(db[id[r]], dto[r])
         /\ pc[r] = "delete" => db[id[r]] # NoRow
         /\ pc[r] = "invalidate" /\ cache[id[r]] # NoRow =>
              db[id[r]] = NoRow \/ db[id[r]] = Assign(cache[id[r]], dto[r])

StoreInd == Ind /\ TasksFit

\* An UPDATE of the columns that differ from the row gives the entity.
LEMMA ColumnsGiveEntity ==
  ASSUME NEW row \in Row, NEW e \in Row
  PROVE  [f \in Field |-> IF f \in {g \in Field : e[g] # row[g]} THEN e[f] ELSE row[f]] = e
  BY DEF Row

\* A request about an id nobody is about, or the next step of the only one.
LEMMA CalmIsSole ==
  ASSUME Ind, NEW r \in Request, NEW i \in Calm, id[r] = i
  PROVE  \A q \in Request \ {r} : id[q] # i
  BY DEF Ind, Trusted, Calm

LEMMA NextTasksFit == StoreInd /\ [Next]_vars => TasksFit'
<1> SUFFICES ASSUME StoreInd, [Next]_vars PROVE TasksFit'
  OBVIOUS
<1>0. TypeOK /\ IdleIsBlank /\ RowsAreUsed /\ HandlersHold /\ Trusted /\ Undisturbed
      /\ TasksFit /\ Ind
  BY DEF StoreInd, Ind
<1> USE CacheAssumption
<1>1. ASSUME NEW i \in Id, NEW row \in Row, Create(i, row)
      PROVE  TasksFit'
  <2>1. /\ i \notin used /\ used' = used \cup {i} /\ db' = [db EXCEPT ![i] = row]
        /\ UNCHANGED <<cache, pc, id, entity, dto, contended, suspect>>
    BY <1>1 DEF Create, locals
  <2>2. \A r \in Request :
          pc[r] \in {"select", "write", "delete", "invalidate"} => id[r] # i
    BY <1>0, <2>1 DEF TasksFit, HandlersHold
  <2>3. \A j \in Id \ {i} : db'[j] = db[j]
    BY <1>0, <2>1 DEF TypeOK
  <2>4. \A r \in Request : id[r] \in Calm => id[r] \in Id
    BY DEF Calm
  <2> QED BY <1>0, <2>1, <2>2, <2>3, <2>4 DEF TasksFit, Calm
<1>2. ASSUME NEW r \in Request, NEW i \in Id,
             FindMiss(r, i) \/ RemoveRead(r, i) \/ \E d \in Dto : UpdateRead(r, i, d)
      PROVE  TasksFit'
  <2>1. /\ UNCHANGED <<db, used, cache>> /\ id'[r] = i
        /\ \A q \in Request \ {r} : /\ pc'[q] = pc[q] /\ id'[q] = id[q]
                                    /\ entity'[q] = entity[q] /\ dto'[q] = dto[q]
        /\ contended \subseteq contended' /\ suspect \subseteq suspect'
    BY <1>0, <1>2 DEF FindMiss, RemoveRead, UpdateRead, Start, Goto, TypeOK, store
  <2>2. /\ pc'[r] \in {"load", "select", "delete"}
        /\ pc'[r] \in {"select", "delete"} => db[i] # NoRow
        /\ pc'[r] = "select" => entity'[r] = Assign(db[i], dto'[r])
    BY <1>0, <1>2 DEF FindMiss, RemoveRead, UpdateRead, Start, Goto, TypeOK
  <2>3. db[i] # NoRow => i \in used
    BY <1>0 DEF RowsAreUsed
  <2>4. \A q \in Request : id'[q] \in Calm' => id'[q] \in Calm
    BY <2>1 DEF Calm
  <2> QED BY <1>0, <2>1, <2>2, <2>3, <2>4 DEF TasksFit
<1>3. ASSUME NEW r \in Request,
             FindLoad(r) \/ FindNothing(r) \/ UpdateSelect(r) \/ UpdateDuplicate(r)
      PROVE  TasksFit'
  BY <1>0, <1>3 DEF FindLoad, FindNothing, UpdateSelect, UpdateDuplicate, Finish, Goto, TypeOK,
     store, TasksFit, Calm
<1>4. ASSUME NEW r \in Request, pc[r] # "idle", Finish(r),
             UNCHANGED <<db, used, contended>>,
             \A j \in Id \ {id[r]} : cache'[j] = cache[j],
             \A j \in Id \ {id[r]} : j \in suspect' <=> j \in suspect,
             id[r] \in Calm' => id[r] \in Calm \/ \A q \in Request \ {r} : id[q] # id[r]
      PROVE  TasksFit'
  <2> DEFINE i == id[r]
  <2>1. i \in Id
    BY <1>0, <1>4 DEF TypeOK, IdleIsBlank
  <2>2. /\ pc'[r] = "idle"
        /\ \A q \in Request \ {r} : /\ pc'[q] = pc[q] /\ id'[q] = id[q]
                                    /\ entity'[q] = entity[q] /\ dto'[q] = dto[q]
    BY <1>0, <1>4 DEF Finish, Goto, TypeOK
  <2>3. i \in Calm' => \A q \in Request \ {r} : id[q] # i
    BY <1>0, <1>4, CalmIsSole
  <2>4. ASSUME NEW q \in Request \ {r}, id[q] \in Calm'
        PROVE  id[q] \in Calm /\ id[q] # i
    BY <1>4, <2>3, <2>4 DEF Calm
  <2>5. ASSUME NEW q \in Request \ {r}, id[q] \in Calm'
        PROVE  cache'[id[q]] = cache[id[q]]
    BY <1>4, <2>4, <2>5 DEF Calm
  <2> QED BY <1>0, <1>4, <2>2, <2>4, <2>5 DEF TasksFit
<1>5. ASSUME NEW r \in Request, FindFill(r) \/ Invalidate(r) \/ Fail(r)
      PROVE  TasksFit'
  <2>1. id[r] \in Id /\ pc[r] # "idle"
    BY <1>0, <1>5 DEF FindFill, Invalidate, Fail, TypeOK, IdleIsBlank
  <2>2. /\ Finish(r) /\ UNCHANGED <<db, used, contended>>
        /\ \A j \in Id \ {id[r]} : cache'[j] = cache[j]
    BY <1>0, <1>5 DEF FindFill, Invalidate, Fail, TypeOK, store
  <2>3. \A j \in Id \ {id[r]} : j \in suspect' <=> j \in suspect
    BY <1>0, <1>5 DEF FindFill, Invalidate, Fail, Cleared
  <2>4. id[r] \in Calm' => id[r] \in Calm \/ \A q \in Request \ {r} : id[q] # id[r]
    BY <1>5, <2>1, <2>2 DEF FindFill, Invalidate, Fail, Cleared, Others, Calm
  <2> QED BY <1>4, <2>1, <2>2, <2>3, <2>4
<1>6. ASSUME NEW r \in Request, UpdateInsert(r) \/ UpdateColumns(r) \/ RemoveRow(r)
      PROVE  TasksFit'
  <2> DEFINE i == id[r]
  <2>1. /\ i \in Id /\ pc[r] \in {"write", "delete"} /\ pc'[r] = "invalidate"
        /\ \A q \in Request \ {r} : pc'[q] = pc[q]
        /\ \A j \in Id \ {i} : db'[j] = db[j]
        /\ UNCHANGED <<used, cache, id, entity, dto, contended, suspect>>
    BY <1>0, <1>6 DEF UpdateInsert, UpdateColumns, RemoveRow, Goto, TypeOK, IdleIsBlank
  <2>2. i \in used
    BY <1>0, <2>1 DEF TasksFit, HandlersHold
  <2>3. ASSUME i \in Calm, cache[i] # NoRow
        PROVE  db'[i] = NoRow \/ db'[i] = Assign(cache[i], dto[r])
    <3>1. cache[i] = db[i]
      <4>1. \A q \in Request : id[q] = i => pc[q] # "invalidate"
        BY <1>0, <2>1, <2>3, CalmIsSole
      <4> QED BY <1>0, <2>3, <4>1 DEF Trusted, Calm, Current
    <3>2. CASE RemoveRow(r)
      BY <1>0, <2>1, <3>2 DEF RemoveRow, TypeOK
    <3>3. CASE UpdateInsert(r)
      BY <2>3, <3>1, <3>3 DEF UpdateInsert
    <3>4. CASE UpdateColumns(r)
      <4>1. /\ seen[r] = db[i] /\ db[i] # NoRow /\ db[i] \in Row /\ entity[r] \in Row
            /\ entity[r] = Assign(db[i], dto[r])
        BY <1>0, <2>1, <2>3, <3>4
        DEF UpdateColumns, Undisturbed, Calm, TypeOK, HandlersHold, TasksFit
      <4>2. db'[i] = [f \in Field |-> IF f \in {g \in Field : entity[r][g] # seen[r][g]}
                                      THEN entity[r][f] ELSE db[i][f]]
        BY <1>0, <2>1, <3>4, <4>1 DEF UpdateColumns, TypeOK
      <4>3. db'[i] = entity[r]
        BY <4>1, <4>2, ColumnsGiveEntity
      <4> QED BY <3>1, <4>1, <4>3
    <3> QED BY <1>6, <3>2, <3>3, <3>4
  <2>4. ASSUME NEW q \in Request \ {r}, id[q] \in Calm
        PROVE  id[q] \in Id \ {i}
    <3>1. id[q] \in Id
      BY <2>4 DEF Calm
    <3>2. id[q] # i
      BY <1>0, <2>4, CalmIsSole
    <3> QED BY <3>1, <3>2
  <2>5. Calm' = Calm
    BY <2>1 DEF Calm
  <2> QED BY <1>0, <2>1, <2>2, <2>3, <2>4, <2>5 DEF TasksFit
<1>7. ASSUME NEW i \in Id, Expire(i)
      PROVE  TasksFit'
  <2>1. /\ UNCHANGED <<db, used, pc, id, entity, dto, contended>>
        /\ cache' = [cache EXCEPT ![i] = NoRow]
        /\ \A r \in Request : id[r] \in Calm' => id[r] \in Calm
    BY <1>7 DEF Expire, locals, Calm
  <2>2. \A j \in Id : cache'[j] # NoRow => cache'[j] = cache[j]
    BY <1>0, <2>1 DEF TypeOK
  <2> QED BY <1>0, <2>1, <2>2 DEF TasksFit, Calm
<1>8. CASE UNCHANGED vars
  BY <1>0, <1>8 DEF vars, store, locals, TasksFit, Calm
<1> QED BY <1>1, <1>2, <1>3, <1>5, <1>6, <1>7, <1>8 DEF Next, Step

\* The invariant of ids that requests are about one at a time.
THEOREM StoreInvariance == Spec => []StoreInd
<1>1. Init => TasksFit
  BY CacheAssumption DEF Init, TasksFit
<1>2. StoreInd /\ [Next]_vars => StoreInd'
  BY NextInd, NextTasksFit DEF StoreInd
<1> QED BY <1>1, <1>2, InitInd, PTL DEF Spec, StoreInd

-----------------------------------------------------------------------------
(* It implements RowStore                                                  *)

\* What the mapping shows of an id that nobody is about.
LEMMA NoneAbout ==
  ASSUME NEW i
  PROVE  /\ (\A q \in Request : id[q] # i) => Tasks(i) = {} /\ Answers(i) = {}
         /\ (\A q \in Request : id'[q] # i) => Tasks(i)' = {} /\ Answers(i)' = {}
  BY DEF Tasks, Unseen, Answers

\* What it shows of an id that one request is about.
LEMMA OneAbout ==
  ASSUME NEW i, NEW r \in Request, id[r] = i, \A q \in Request \ {r} : id[q] # i
  PROVE  /\ r \in Unseen(i) => Tasks(i) = {[remove |-> Removes(r, i), dto |-> dto[r]]}
         /\ r \notin Unseen(i) => Tasks(i) = {}
         /\ pc[r] = "fill" => Answers(i) = {entity[r]}
         /\ pc[r] # "fill" => Answers(i) = {}
  BY DEF Tasks, Unseen, Answers

LEMMA OneAboutNext ==
  ASSUME NEW i, NEW r \in Request, id'[r] = i, \A q \in Request \ {r} : id'[q] # i
  PROVE  /\ r \in Unseen(i)' => Tasks(i)' = {[remove |-> Removes(r, i)', dto |-> dto'[r]]}
         /\ r \notin Unseen(i)' => Tasks(i)' = {}
         /\ pc'[r] = "fill" => Answers(i)' = {entity'[r]}
         /\ pc'[r] # "fill" => Answers(i)' = {}
  BY DEF Tasks, Unseen, Answers

\* A step about an id leaves the others as they are.
Elsewhere(i) == \A j \in Id \ {i} : Store!Same(j)

LEMMA OthersSame ==
  ASSUME NEW r \in Request, NEW i \in Id, id[r] \in {i, NoId}, id'[r] \in {i, NoId},
         \A q \in Request \ {r} : /\ pc'[q] = pc[q] /\ id'[q] = id[q]
                                  /\ entity'[q] = entity[q] /\ dto'[q] = dto[q],
         \A j \in Id \ {i} : db'[j] = db[j] /\ cache'[j] = cache[j] /\ (j \in used' <=> j \in used)
  PROVE  Elsewhere(i)
<1> SUFFICES ASSUME NEW j \in Id \ {i} PROVE Store!Same(j)
  BY DEF Elsewhere
<1>1. id[r] # j /\ id'[r] # j
  BY CacheAssumption
<1>2. Unseen(j)' = Unseen(j) /\ r \notin Unseen(j)
  BY <1>1 DEF Unseen
<1>3. \A q \in Unseen(j) : dto'[q] = dto[q] /\ Removes(q, j)' = Removes(q, j)
  BY <1>2 DEF Unseen, Removes
<1>4. Tasks(j)' = Tasks(j)
  BY <1>2, <1>3 DEF Tasks
<1>5. Answers(j)' = Answers(j)
  BY <1>1 DEF Answers
<1> QED BY <1>4, <1>5 DEF Store!Same, Shown

\* An id, about which requests do not overlap and whose entry is not stale.
Fair(i) == i \notin contended' \cup suspect \cup suspect'

Turn(i) == Elsewhere(i) /\ (Fair(i) => Store!Lives(i) \/ Store!Same(i))

\* The entry is current unless it is about to be deleted.
LEMMA ShownIsRow ==
  ASSUME Ind, NEW i \in Id \ suspect, \A q \in Request : id[q] = i => pc[q] # "invalidate"
  PROVE  Shown(i) = db[i]
  BY DEF Ind, Trusted, Current, Shown

LEMMA CreateTurn ==
  ASSUME StoreInd, NEW i \in Id, NEW row \in Row, Create(i, row)
  PROVE  Turn(i)
<1>0. TypeOK /\ RowsAreUsed /\ HandlersHold /\ TasksFit /\ Ind
  BY DEF StoreInd, Ind
<1>1. /\ i \notin used /\ used' = used \cup {i} /\ db' = [db EXCEPT ![i] = row]
      /\ UNCHANGED <<cache, pc, id, entity, dto, contended, suspect>>
  BY DEF Create, locals
<1>2. db[i] = NoRow /\ db'[i] = row /\ \A j \in Id \ {i} : db'[j] = db[j]
  BY <1>0, <1>1 DEF TypeOK, RowsAreUsed
<1>3. \A q \in Request : id[q] = i => pc[q] \in {"idle", "load"}
  BY <1>0, <1>1 DEF HandlersHold, TasksFit, TypeOK
<1>4. UNCHANGED <<Tasks(i), Answers(i)>>
  BY <1>1, <1>3 DEF Tasks, Answers, Unseen
<1>5. Fair(i) => Shown(i) = NoRow /\ Shown(i)' = row
  <2> SUFFICES ASSUME Fair(i) PROVE Shown(i) = NoRow /\ Shown(i)' = row
    OBVIOUS
  <2>1. Shown(i) = NoRow
    BY <1>0, <1>2, <1>3, ShownIsRow DEF Fair
  <2>2. cache[i] = NoRow
    BY <2>1 DEF Shown
  <2> QED BY <1>1, <1>2, <2>1, <2>2 DEF Shown
<1>6. Fair(i) => Store!Create(i)
  BY <1>1, <1>4, <1>5 DEF Store!Create, Store!Row, Row
<1>7. ASSUME NEW j \in Id \ {i} PROVE Store!Same(j)
  <2>1. UNCHANGED <<Tasks(j), Answers(j), Shown(j)>>
    <3>1. cache'[j] = cache[j] /\ db'[j] = db[j]
      BY <1>1, <1>2
    <3>2. Unseen(j)' = Unseen(j)
      BY <1>1 DEF Unseen
    <3>3. \A q \in Request : Removes(q, j)' = Removes(q, j) /\ dto'[q] = dto[q]
      BY <1>1, <3>1 DEF Removes
    <3> QED BY <1>1, <3>1, <3>2, <3>3 DEF Tasks, Answers, Shown, Unseen
  <2> QED BY <1>1, <2>1 DEF Store!Same
<1> QED BY <1>6, <1>7 DEF Turn, Elsewhere, Store!Lives

\* A request that starts about an id nobody is about.
LEMMA StartTurn ==
  ASSUME StoreInd, NEW r \in Request, NEW i \in Id,
         FindMiss(r, i) \/ RemoveRead(r, i) \/ \E d \in Dto : UpdateRead(r, i, d)
  PROVE  Turn(i)
<1>0. TypeOK /\ IdleIsBlank /\ Ind
  BY DEF StoreInd, Ind
<1>1. /\ UNCHANGED <<db, used, cache>> /\ id[r] = NoId /\ id'[r] = i
      /\ \A q \in Request \ {r} : /\ pc'[q] = pc[q] /\ id'[q] = id[q]
                                  /\ entity'[q] = entity[q] /\ dto'[q] = dto[q]
      /\ contended' = contended \cup {j \in {i} : Others(r, i) # {}}
  BY <1>0 DEF FindMiss, RemoveRead, UpdateRead, Start, Goto, TypeOK, IdleIsBlank, store
<1>2. Elsewhere(i)
  BY <1>1, OthersSame
<1>3. ASSUME Fair(i) PROVE Store!Ask(i) \/ Store!Same(i)
  <2>1. \A q \in Request : id[q] # i
    BY <1>1, <1>3, CacheAssumption DEF Fair, Others
  <2>2. Tasks(i) = {} /\ Answers(i) = {}
    BY <2>1, NoneAbout
  <2>3. Shown(i) = db[i] /\ Shown(i)' = Shown(i)
    BY <1>0, <1>1, <1>3, <2>1, ShownIsRow DEF Fair, Shown
  <2>4. \A q \in Request \ {r} : id'[q] # i
    BY <1>1, <2>1
  <2>5. CASE FindMiss(r, i)
    <3>1. pc'[r] = "load"
      BY <1>0, <2>5 DEF FindMiss, Start, Goto, TypeOK
    <3>2. r \notin Unseen(i)'
      BY <3>1 DEF Unseen
    <3>3. Tasks(i)' = {} /\ Answers(i)' = {}
      BY <1>1, <2>4, <3>1, <3>2, OneAboutNext
    <3> QED BY <1>1, <2>2, <2>3, <3>3 DEF Store!Same
  <2>6. CASE RemoveRead(r, i) \/ \E d \in Dto : UpdateRead(r, i, d)
    <3>1. db[i] # NoRow /\ pc'[r] \in {"delete", "select"} /\ dto'[r] \in Dto
      BY <1>0, <2>6, EmptyIsDto DEF RemoveRead, UpdateRead, Start, Goto, TypeOK
    <3>2. r \in Unseen(i)'
      BY <1>1, <3>1 DEF Unseen
    <3>3. Tasks(i)' = {[remove |-> Removes(r, i)', dto |-> dto'[r]]} /\ Answers(i)' = {}
      BY <1>1, <2>4, <3>1, <3>2, OneAboutNext
    <3>4. [remove |-> Removes(r, i)', dto |-> dto'[r]] \in Store!Task
      BY <3>1 DEF Store!Task, Store!Dto, Dto, Removes
    <3> QED BY <1>1, <2>2, <2>3, <3>1, <3>3, <3>4 DEF Store!Ask
  <2> QED BY <2>5, <2>6
<1> QED BY <1>2, <1>3 DEF Turn, Store!Lives

\* What the steps of a request that is under way have in common.
LEMMA StepIsLocal ==
  ASSUME StoreInd, NEW r \in Request, NEW i \in Id, i = id[r], Step(r) \/ Fail(r)
  PROVE  /\ pc[r] # "idle" /\ UNCHANGED <<used, contended>>
         /\ Elsewhere(i)
         /\ Fair(i) => \A q \in Request \ {r} : id[q] # i /\ id'[q] # i
<1>0. TypeOK /\ Ind
  BY DEF StoreInd, Ind
<1>1. /\ pc[r] # "idle" /\ UNCHANGED <<used, contended>>
      /\ Finish(r) \/ UNCHANGED <<id, dto>>
      /\ \A q \in Request \ {r} : /\ pc'[q] = pc[q] /\ id'[q] = id[q]
                                  /\ entity'[q] = entity[q] /\ dto'[q] = dto[q]
      /\ \A j \in Id \ {i} : db'[j] = db[j] /\ cache'[j] = cache[j]
  BY <1>0 DEF Step, FindLoad, FindNothing, FindFill, UpdateSelect, UpdateInsert,
     UpdateDuplicate, UpdateColumns, RemoveRow, Invalidate, Fail, Finish, Goto, TypeOK, store
<1>2. id'[r] \in {i, NoId}
  BY <1>0, <1>1 DEF Finish, TypeOK
<1>3. Elsewhere(i)
  BY <1>1, <1>2, OthersSame
<1>4. Fair(i) => \A q \in Request \ {r} : id[q] # i
  BY <1>0, <1>1, CalmIsSole DEF Fair, Calm
<1> QED BY <1>1, <1>3, <1>4

\* A find reads the row, stores it and answers it.
LEMMA FindTurn ==
  ASSUME StoreInd, NEW r \in Request, NEW i \in Id, i = id[r],
         FindLoad(r) \/ FindNothing(r) \/ FindFill(r)
  PROVE  Turn(i)
<1>0. TypeOK /\ Ind /\ Trusted
  BY DEF StoreInd, Ind
<1>1. Elsewhere(i) /\ UNCHANGED <<used, db, contended>>
  BY StepIsLocal DEF Step, FindLoad, FindNothing, FindFill, store
<1>2. ASSUME Fair(i) PROVE Store!Read(i) \/ Store!Answer(i) \/ Store!Same(i)
  <2>1. \A q \in Request \ {r} : id[q] # i /\ id'[q] # i
    BY <1>2, StepIsLocal DEF Step
  <2>2. pc[r] \in {"load", "fill"} /\ r \notin Unseen(i)
    BY DEF FindLoad, FindNothing, FindFill, Unseen
  <2>3. Tasks(i) = {} /\ Shown(i) = db[i]
    BY <1>0, <1>2, <2>1, <2>2, OneAbout, ShownIsRow DEF Fair
  <2>4. CASE FindLoad(r)
    <3>1. /\ pc[r] = "load" /\ pc'[r] = "fill" /\ id'[r] = i /\ cache' = cache
          /\ entity'[r] = db[i] /\ db[i] # NoRow
      BY <1>0, <2>4 DEF FindLoad, Goto, TypeOK, store
    <3>2. r \notin Unseen(i)'
      BY <3>1 DEF Unseen
    <3>3. Tasks(i)' = {} /\ Answers(i)' = {db[i]}
      BY <2>1, <3>1, <3>2, OneAboutNext
    <3>4. Shown(i)' = Shown(i)
      BY <1>1, <3>1 DEF Shown
    <3> QED BY <1>1, <2>3, <3>1, <3>3, <3>4 DEF Store!Read
  <2>5. CASE FindNothing(r) \/ FindFill(r)
    <3>1. id'[r] = NoId
      BY <1>0, <2>5 DEF FindNothing, FindFill, Finish, TypeOK
    <3>2. Tasks(i)' = {} /\ Answers(i)' = {}
      BY <2>1, <3>1, NoneAbout, CacheAssumption
    <3>3. CASE FindNothing(r)
      <4>1. Answers(i) = {} /\ cache' = cache
        BY <2>1, <3>3, OneAbout DEF FindNothing, store
      <4>2. Shown(i)' = Shown(i)
        BY <1>1, <4>1 DEF Shown
      <4> QED BY <1>1, <2>3, <3>2, <4>1, <4>2 DEF Store!Same
    <3>4. CASE FindFill(r)
      <4>1. Answers(i) = {entity[r]} /\ entity[r] = db[i] /\ cache'[i] = entity[r]
        BY <1>0, <1>2, <2>1, <3>4, OneAbout DEF FindFill, Trusted, Fair, TypeOK
      <4>2. Shown(i)' = Shown(i)
        BY <1>1, <2>3, <4>1 DEF Shown
      <4> QED BY <1>1, <2>3, <3>2, <4>1, <4>2 DEF Store!Answer
    <3> QED BY <2>5, <3>3, <3>4
  <2> QED BY <2>4, <2>5
<1> QED BY <1>1, <1>2 DEF Turn, Store!Lives

\* The SELECT of an update, and what its INSERT is for: nothing, while requests about
\* the id do not overlap.
LEMMA UpdateTurn ==
  ASSUME StoreInd, NEW r \in Request, NEW i \in Id, i = id[r],
         UpdateSelect(r) \/ UpdateInsert(r) \/ UpdateDuplicate(r)
  PROVE  Turn(i)
<1>0. TypeOK /\ Ind /\ Undisturbed
  BY DEF StoreInd, Ind
<1>1. Elsewhere(i) /\ UNCHANGED <<used, contended>>
  BY StepIsLocal DEF Step
<1>2. ASSUME Fair(i) PROVE Store!Same(i)
  <2>1. \A q \in Request \ {r} : id[q] # i /\ id'[q] # i
    BY <1>2, StepIsLocal DEF Step
  <2>2. ~UpdateInsert(r) /\ ~UpdateDuplicate(r)
    BY <1>0, <1>1, <1>2 DEF UpdateInsert, UpdateDuplicate, Undisturbed, Fair
  <2>3. /\ pc[r] = "select" /\ pc'[r] = "write"
        /\ UNCHANGED <<db, cache, id, entity, dto>>
    BY <1>0, <2>2 DEF UpdateSelect, Goto, TypeOK, store
  <2>4. /\ r \in Unseen(i) /\ r \in Unseen(i)'
        /\ Removes(r, i)' = Removes(r, i)
    BY <2>3 DEF Unseen, Removes
  <2>5. Tasks(i)' = Tasks(i) /\ Answers(i)' = Answers(i)
    <3>1. /\ Tasks(i) = {[remove |-> Removes(r, i), dto |-> dto[r]]} /\ Answers(i) = {}
      BY <2>1, <2>3, <2>4, OneAbout
    <3>2. /\ Tasks(i)' = {[remove |-> Removes(r, i)', dto |-> dto'[r]]} /\ Answers(i)' = {}
      BY <2>1, <2>3, <2>4, OneAboutNext
    <3> QED BY <2>3, <2>4, <3>1, <3>2
  <2> QED BY <1>1, <2>3, <2>5 DEF Store!Same, Shown
<1> QED BY <1>1, <1>2 DEF Turn

\* The UPDATE or DELETE of a row shows at once, or is hidden by the cache entry.
LEMMA WriteTurn ==
  ASSUME StoreInd, NEW r \in Request, NEW i \in Id, i = id[r],
         UpdateColumns(r) \/ RemoveRow(r)
  PROVE  Turn(i)
<1>0. TypeOK /\ Ind /\ Undisturbed /\ HandlersHold /\ TasksFit
  BY DEF StoreInd, Ind
<1>1. /\ Elsewhere(i) /\ pc[r] \in {"write", "delete"} /\ pc'[r] = "invalidate"
      /\ UNCHANGED <<used, cache, id, dto, contended, suspect>>
  BY <1>0, StepIsLocal DEF Step, UpdateColumns, RemoveRow, Goto, TypeOK
<1>2. ASSUME Fair(i) PROVE Store!Take(i) \/ Store!Same(i)
  <2> DEFINE remove == pc[r] = "delete"
             task == [remove |-> remove, dto |-> dto[r]]
  <2>1. \A q \in Request \ {r} : id[q] # i /\ id'[q] # i
    BY <1>2, StepIsLocal DEF Step
  <2>2. i \in Calm
    BY <1>1, <1>2 DEF Fair, Calm
  <2>3. Tasks(i) = {task} /\ Answers(i) = {}
    <3>1. r \in Unseen(i) /\ Removes(r, i) = remove
      BY <1>1 DEF Unseen, Removes
    <3> QED BY <1>1, <2>1, <3>1, OneAbout
  <2>4. Shown(i) = db[i] /\ db[i] # NoRow
    BY <1>0, <1>1, <2>1, <2>2, ShownIsRow DEF Calm, Undisturbed, TasksFit
  <2>5. db'[i] = Store!After(db[i], task) /\ (db'[i] = NoRow <=> remove)
    <3>1. CASE RemoveRow(r)
      BY <1>0, <3>1 DEF RemoveRow, TypeOK, Store!After
    <3>2. CASE UpdateColumns(r)
      <4>1. /\ seen[r] = db[i] /\ db[i] \in Row /\ entity[r] \in Row
            /\ entity[r] = Assign(db[i], dto[r]) /\ pc[r] = "write"
        BY <1>0, <2>2, <2>4, <3>2
        DEF UpdateColumns, Undisturbed, Calm, TypeOK, HandlersHold, TasksFit
      <4>2. db'[i] = [f \in Field |-> IF f \in {g \in Field : entity[r][g] # seen[r][g]}
                                      THEN entity[r][f] ELSE db[i][f]]
        BY <1>0, <2>4, <3>2 DEF UpdateColumns, TypeOK
      <4>3. db'[i] = entity[r]
        BY <4>1, <4>2, ColumnsGiveEntity
      <4> QED BY <4>1, <4>3, CacheAssumption DEF Assign, Store!After
    <3> QED BY <3>1, <3>2
  <2>6. Answers(i)' = {}
    BY <1>1, <2>1, OneAboutNext
  <2>7. CASE cache[i] # NoRow
    <3>1. r \in Unseen(i)' /\ Removes(r, i)' = remove
      BY <1>1, <2>5, <2>7 DEF Unseen, Removes
    <3>2. Tasks(i)' = {task}
      BY <1>1, <2>1, <3>1, OneAboutNext
    <3>3. Shown(i)' = Shown(i)
      BY <1>1, <2>7 DEF Shown
    <3> QED BY <1>1, <2>3, <2>6, <3>2, <3>3 DEF Store!Same
  <2>8. CASE cache[i] = NoRow
    <3>1. r \notin Unseen(i)'
      BY <1>1, <2>8 DEF Unseen
    <3>2. Tasks(i)' = {}
      BY <1>1, <2>1, <3>1, OneAboutNext
    <3>3. Shown(i)' = Store!After(Shown(i), task)
      BY <1>1, <2>4, <2>5, <2>8 DEF Shown
    <3> HIDE DEF task
    <3> QED BY <1>1, <2>3, <2>4, <2>6, <3>2, <3>3 DEF Store!Take
  <2> QED BY <2>7, <2>8
<1> QED BY <1>1, <1>2 DEF Turn, Store!Lives

\* What an entry hides is the change that shows when it is gone.
LEMMA HiddenIsChange ==
  ASSUME StoreInd, NEW r \in Request, NEW i \in Calm, i = id[r],
         pc[r] = "invalidate", cache[i] # NoRow
  PROVE  LET task == [remove |-> Removes(r, i), dto |-> dto[r]] IN
           Tasks(i) = {task} /\ Answers(i) = {} /\ db[i] = Store!After(cache[i], task)
<1>1. \A q \in Request \ {r} : id[q] # i
  BY CalmIsSole DEF StoreInd
<1>2. r \in Unseen(i)
  BY DEF Unseen
<1>3. db[i] = NoRow \/ db[i] = Assign(cache[i], dto[r])
  BY DEF StoreInd, TasksFit
<1>4. db[i] = Store!After(cache[i], [remove |-> Removes(r, i), dto |-> dto[r]])
  BY <1>3 DEF Removes, Assign, Store!After
<1> QED BY <1>1, <1>2, <1>4, OneAbout

\* The DEL of the entry.
LEMMA InvalidateTurn ==
  ASSUME StoreInd, NEW r \in Request, NEW i \in Id, i = id[r], Invalidate(r)
  PROVE  Turn(i)
<1>0. TypeOK /\ Ind
  BY DEF StoreInd, Ind
<1>1. /\ Elsewhere(i) /\ UNCHANGED <<used, db, contended>>
      /\ pc[r] = "invalidate" /\ id'[r] = NoId /\ cache'[i] = NoRow
  BY <1>0, StepIsLocal DEF Step, Invalidate, Finish, TypeOK
<1>2. ASSUME Fair(i) PROVE Store!Take(i) \/ Store!Same(i)
  <2>1. \A q \in Request \ {r} : id[q] # i /\ id'[q] # i
    BY <1>2, StepIsLocal DEF Step
  <2>2. i \in Calm
    BY <1>1, <1>2 DEF Fair, Calm
  <2>3. Tasks(i)' = {} /\ Answers(i)' = {} /\ Shown(i)' = db[i]
    BY <1>1, <2>1, NoneAbout, CacheAssumption DEF Shown
  <2>4. CASE cache[i] # NoRow
    BY <1>1, <2>2, <2>3, <2>4, HiddenIsChange DEF Shown, Store!Take
  <2>5. CASE cache[i] = NoRow
    <3>1. r \notin Unseen(i)
      BY <1>1, <2>5 DEF Unseen
    <3>2. Tasks(i) = {} /\ Answers(i) = {} /\ Shown(i) = db[i]
      BY <1>1, <2>1, <2>5, <3>1, OneAbout DEF Shown
    <3> QED BY <1>1, <2>3, <3>2 DEF Store!Same
  <2> QED BY <2>4, <2>5
<1> QED BY <1>1, <1>2 DEF Turn, Store!Lives

\* A failure, but for one of the DEL, drops what has not shown yet.
LEMMA FailTurn ==
  ASSUME StoreInd, NEW r \in Request, NEW i \in Id, i = id[r], Fail(r)
  PROVE  Turn(i)
<1>0. TypeOK /\ Ind
  BY DEF StoreInd, Ind
<1>1. /\ Elsewhere(i) /\ UNCHANGED <<used, db, cache, contended>> /\ id'[r] = NoId
      /\ pc[r] = "invalidate" => i \in suspect'
  BY <1>0, StepIsLocal DEF Fail, Finish, TypeOK, store
<1>2. ASSUME Fair(i) PROVE Store!Drop(i) \/ Store!Answer(i) \/ Store!Same(i)
  <2>1. \A q \in Request \ {r} : id[q] # i /\ id'[q] # i
    BY <1>2, StepIsLocal
  <2>2. Tasks(i)' = {} /\ Answers(i)' = {} /\ Shown(i)' = Shown(i)
    BY <1>1, <2>1, NoneAbout, CacheAssumption DEF Shown
  <2>3. CASE r \in Unseen(i)
    <3>1. Tasks(i) # {}
      BY <2>1, <2>3, OneAbout
    <3>2. pc[r] # "fill"
      BY <2>3 DEF Unseen
    <3>3. Answers(i) = {}
      BY <2>1, <3>2, OneAbout
    <3> QED BY <1>1, <2>2, <3>1, <3>3 DEF Store!Drop
  <2>4. CASE pc[r] = "fill"
    <3>1. r \notin Unseen(i)
      BY <2>4 DEF Unseen
    <3>2. Tasks(i) = {} /\ Answers(i) # {}
      BY <2>1, <2>4, <3>1, OneAbout
    <3> QED BY <1>1, <2>2, <3>2 DEF Store!Answer
  <2>5. CASE r \notin Unseen(i) /\ pc[r] # "fill"
    <3>1. Tasks(i) = {} /\ Answers(i) = {}
      BY <2>1, <2>5, OneAbout
    <3> QED BY <1>1, <2>2, <3>1 DEF Store!Same
  <2> QED BY <2>3, <2>4, <2>5
<1> QED BY <1>1, <1>2 DEF Turn, Store!Lives

\* An entry that expires shows the row, and the change that it has hidden.
LEMMA ExpireTurn ==
  ASSUME StoreInd, NEW i \in Id, Expire(i)
  PROVE  Turn(i)
<1>0. TypeOK /\ Ind
  BY DEF StoreInd, Ind
<1>1. /\ UNCHANGED <<db, used, pc, id, entity, dto, contended>>
      /\ cache[i] # NoRow /\ cache'[i] = NoRow /\ \A j \in Id \ {i} : cache'[j] = cache[j]
  BY <1>0 DEF Expire, locals, TypeOK
<1>2. ASSUME NEW j \in Id, cache'[j] = cache[j] PROVE Store!Same(j)
  <2>1. Unseen(j)' = Unseen(j) /\ \A q \in Unseen(j) : Removes(q, j)' = Removes(q, j)
    BY <1>1, <1>2 DEF Unseen, Removes
  <2>2. Tasks(j)' = Tasks(j)
    BY <1>1, <2>1 DEF Tasks
  <2>3. Answers(j)' = Answers(j) /\ Shown(j)' = Shown(j)
    BY <1>1, <1>2 DEF Answers, Shown
  <2> QED BY <1>1, <2>2, <2>3 DEF Store!Same
<1>3. ASSUME Fair(i) PROVE Store!Take(i) \/ Store!Same(i)
  <2>1. i \in Calm /\ Shown(i) = cache[i] /\ Shown(i)' = db[i] /\ Answers(i)' = Answers(i)
    BY <1>1, <1>3 DEF Fair, Calm, Shown, Answers
  <2>2. CASE \E r \in Request : id[r] = i /\ pc[r] = "invalidate"
    <3>1. PICK r \in Request : id[r] = i /\ pc[r] = "invalidate"
      BY <2>2
    <3>2. \A q \in Request \ {r} : id'[q] # i
      BY <1>0, <1>1, <2>1, <3>1, CalmIsSole
    <3>3. r \notin Unseen(i)'
      BY <1>1, <3>1 DEF Unseen
    <3>4. Tasks(i)' = {}
      BY <1>1, <3>1, <3>2, <3>3, OneAboutNext
    <3>5. \E t : Tasks(i) = {t} /\ db[i] = Store!After(cache[i], t)
      BY <1>1, <2>1, <3>1, HiddenIsChange
    <3> QED BY <1>1, <2>1, <3>4, <3>5 DEF Store!Take
  <2>3. CASE \A r \in Request : id[r] = i => pc[r] # "invalidate"
    <3>1. Shown(i) = db[i]
      BY <1>0, <2>1, <2>3, ShownIsRow DEF Calm
    <3>2. Unseen(i)' = Unseen(i) /\ \A q \in Unseen(i) : Removes(q, i)' = Removes(q, i)
      BY <1>1, <2>3 DEF Unseen, Removes
    <3>3. Tasks(i)' = Tasks(i)
      BY <1>1, <3>2 DEF Tasks
    <3> QED BY <1>1, <2>1, <3>1, <3>3 DEF Store!Same
  <2> QED BY <2>2, <2>3
<1> QED BY <1>1, <1>2, <1>3 DEF Turn, Elsewhere, Store!Lives

\* Every step is about one id.
LEMMA StepsAreTurns == ASSUME StoreInd, Next PROVE \E i \in Id : Turn(i)
<1>1. ASSUME NEW r \in Request, Step(r) \/ Fail(r) PROVE \E i \in Id : Turn(i)
  <2>1. id[r] \in Id
    BY <1>1, StepIsLocal DEF StoreInd, Ind, IdleIsBlank, TypeOK, Step, FindLoad, FindNothing,
       FindFill, UpdateSelect, UpdateInsert, UpdateDuplicate, UpdateColumns, RemoveRow,
       Invalidate, Fail
  <2>2. PICK i \in Id : i = id[r]
    BY <2>1
  <2>3. Turn(i)
    BY <1>1, <2>2, FindTurn, UpdateTurn, WriteTurn, InvalidateTurn, FailTurn DEF Step
  <2> QED BY <2>3
<1> QED BY <1>1, CreateTurn, StartTurn, ExpireTurn DEF Next

\* Whatever fails or expires, an id that requests are about one at a time is one of a
\* store without a cache, unless a DEL of its entry has failed.
THEOREM StoreIsKept == Spec => StoreKept
<1>1. ASSUME StoreInd, Next, NEW i \in Id \ (contended' \cup suspect \cup suspect')
      PROVE  Store!Lives(i) \/ Store!Same(i)
  BY <1>1, StepsAreTurns DEF Turn, Elsewhere, Fair
<1>2. StoreInd /\ [Next]_vars =>
        [\A i \in Id \ (contended' \cup suspect \cup suspect') :
           Store!Lives(i) \/ Store!Same(i)]_vars
  BY <1>1
<1> QED BY <1>2, StoreInvariance, PTL DEF Spec, StoreKept

\* As long as requests about the same row never overlap and no DEL fails.
PoliteSpec == Init /\ [][Next /\ contended' = {} /\ suspect' = {}]_vars

\* Clients that wait for the answer of one request about a row before they send the next
\* see a store without a cache.
THEOREM PoliteImplementsStore == PoliteSpec => Store!Spec
<1> DEFINE Calmly == StoreInd /\ suspect = {}
<1>1. Init => Calmly
  BY InitInd, CacheAssumption DEF Init, StoreInd, TasksFit
<1>2. Calmly /\ [Next /\ contended' = {} /\ suspect' = {}]_vars => Calmly'
  BY NextInd, NextTasksFit DEF StoreInd, vars
<1>3. Init => Store!Init
  BY CacheAssumption DEF Init, Store!Init, Shown, Tasks, Unseen, Answers
<1>4. Calmly /\ [Next /\ contended' = {} /\ suspect' = {}]_vars => [Store!Next]_(Store!vars)
  <2> SUFFICES ASSUME Calmly, [Next /\ contended' = {} /\ suspect' = {}]_vars
               PROVE  [Store!Next]_(Store!vars)
    OBVIOUS
  <2>1. CASE UNCHANGED vars
    <3>1. UNCHANGED <<db, cache, used, pc, id, entity, dto>>
      BY <2>1 DEF vars, store, locals
    <3>2. \A i \in Id : Shown(i)' = Shown(i) /\ Tasks(i)' = Tasks(i) /\ Answers(i)' = Answers(i)
      BY <3>1 DEF Shown, Tasks, Unseen, Removes, Answers
    <3> QED BY <3>1, <3>2 DEF Store!vars
  <2>2. CASE Next /\ contended' = {} /\ suspect' = {}
    <3>1. PICK i \in Id : Turn(i)
      BY <2>2, StepsAreTurns
    <3>2. \A j \in Id \ {i} : Store!Same(j)
      BY <3>1 DEF Turn, Elsewhere
    <3>3. CASE Store!Lives(i)
      BY <3>2, <3>3 DEF Store!Next
    <3>4. CASE Store!Same(i)
      <4>1. \A j \in Id : Store!Same(j)
        BY <3>2, <3>4
      <4>2. \A j \in Id :
              Shown(j)' = Shown(j) /\ Tasks(j)' = Tasks(j) /\ Answers(j)' = Answers(j)
        BY <4>1 DEF Store!Same
      <4>3. used \in SUBSET Id /\ used' \in SUBSET Id
        BY <2>2, NextInd DEF StoreInd, Ind, TypeOK
      <4>4. used' = used
        BY <4>1, <4>3 DEF Store!Same
      <4> QED BY <4>2, <4>4 DEF Store!vars
    <3> QED BY <2>2, <3>1, <3>3, <3>4 DEF Turn, Fair
  <2> QED BY <2>1, <2>2
<1> HIDE DEF Calmly
<1> QED BY <1>1, <1>2, <1>3, <1>4, PTL DEF PoliteSpec, Store!Spec
=============================================================================

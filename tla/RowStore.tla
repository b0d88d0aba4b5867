------------------------------ MODULE RowStore ------------------------------
(***************************************************************************)
(* What the example endpoints promise, without a cache, SQL statements or   *)
(* requests about one id that overlap.  Each id is given out once; a find   *)
(* answers the row there is; an update sets the fields of its dto and a     *)
(* remove the whole row at one moment before it is answered, or, if it      *)
(* fails, not at all.                                                       *)
(***************************************************************************)

CONSTANTS Id, Field, Text, NoRow

Row == [Field -> Text]
Dto == UNION {[F -> Text] : F \in SUBSET Field}

\* An update or a remove that has been asked for and has not taken effect.
Task == [remove : BOOLEAN, dto : Dto]

VARIABLES
  row,     \* what a find is answered for each id: a row or none
  used,    \* ids that have been given out
  tasks,   \* the task under way for each id, if any
  answer   \* the row a find has read for each id and not yet answered, if any

vars == <<row, used, tasks, answer>>

Init ==
  /\ row = [i \in Id |-> NoRow]
  /\ used = {}
  /\ tasks = [i \in Id |-> {}]
  /\ answer = [i \in Id |-> {}]

After(old, task) ==
  IF task.remove THEN NoRow
  ELSE [f \in Field |-> IF f \in DOMAIN task.dto THEN task.dto[f] ELSE old[f]]

Create(i) ==
  /\ i \notin used /\ used' = used \cup {i}
  /\ row[i] = NoRow /\ row'[i] \in Row
  /\ tasks'[i] = tasks[i] /\ answer'[i] = answer[i]

Read(i) ==
  /\ row[i] # NoRow
  /\ answer'[i] = {row[i]}
  /\ row'[i] = row[i] /\ tasks'[i] = tasks[i] /\ UNCHANGED used

\* A find is answered, or fails.
Answer(i) ==
  /\ answer[i] # {} /\ answer'[i] = {}
  /\ row'[i] = row[i] /\ tasks'[i] = tasks[i] /\ UNCHANGED used

Ask(i) ==
  /\ row[i] # NoRow
  /\ tasks[i] = {} /\ \E t \in Task : tasks'[i] = {t}
  /\ row'[i] = row[i] /\ answer'[i] = answer[i] /\ UNCHANGED used

Take(i) ==
  /\ row[i] # NoRow
  /\ \E t \in tasks[i] : row'[i] = After(row[i], t)
  /\ tasks'[i] = {}
  /\ answer'[i] = answer[i] /\ UNCHANGED used

\* The task fails.
Drop(i) ==
  /\ tasks[i] # {} /\ tasks'[i] = {}
  /\ row'[i] = row[i] /\ answer'[i] = answer[i] /\ UNCHANGED used

\* What can become of one id, and that nothing does.
Lives(i) == Create(i) \/ Read(i) \/ Answer(i) \/ Ask(i) \/ Take(i) \/ Drop(i)
Same(i) ==
  /\ row'[i] = row[i] /\ tasks'[i] = tasks[i] /\ answer'[i] = answer[i]
  /\ (i \in used') = (i \in used)

Next == \E i \in Id : Lives(i) /\ \A j \in Id \ {i} : Same(j)

Spec == Init /\ [][Next]_vars
=============================================================================

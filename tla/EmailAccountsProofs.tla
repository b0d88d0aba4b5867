------------------------- MODULE EmailAccountsProofs -------------------------
(* Proofs of the invariants and of the action property of EmailAccounts for *)
(* every number of requests, accounts, addresses, codes and projects.       *)
EXTENDS EmailAccounts, TLAPS

\* What a running request holds: its address and project; a row to be saved, not
\* yet verified; an address that is registered and stays so; an account that has
\* been proved, or was read from a row of a contended address.
RequestsAreSound ==
  \A r \in Request :
    /\ pc[r] = "idle" <=> addr[r] = NoEmail
    /\ pc[r] # "idle" => proj[r] \in Project
    /\ pc[r] \in {"save", "commit"} => draft[r] \in Row /\ ~draft[r].verified
    /\ pc[r] \in {"verify", "resend"} => Registered(addr[r])
    /\ pc[r] \in {"verify", "answer"} => uid[r] \in Uid
    /\ pc[r] = "verify" => uid[r] \in proved
    /\ pc[r] = "answer" => uid[r] \in proved \/ addr[r] \in contended

\* An address that two requests were never about at once has one request at most,
\* what that one has read of the row is still so, and the row waits for the code
\* mailed last or about to be mailed.
Undisturbed ==
  \A e \in Email \ contended :
    /\ \A q, r \in Request : addr[q] = e /\ addr[r] = e => q = r
    /\ \A r \in Request : addr[r] = e =>
         /\ pc[r] \in {"hash", "save", "commit"} => ~Registered(e)
         /\ pc[r] \in {"verify", "resend"} => ~email[e].verified
         /\ pc[r] = "verify" => uid[r] = email[e].uid
         /\ pc[r] = "mail" =>
              e \in unsent /\ (email[e].verified \/ email[e].code = letter[r])
    /\ Registered(e) =>
         /\ email[e].verified => email[e].uid \in proved
         /\ e \in unsent \/ email[e].verified \/ email[e].code = mailbox[e]

Ind ==
  /\ TypeOK
  /\ RequestsAreSound
  /\ AddressesHaveMembers
  /\ SessionsAreProved
  /\ Undisturbed

-----------------------------------------------------------------------------
(* The invariant is inductive                                              *)

\* The empty database and idle requests.
LEMMA InitInd == Init => Ind
  BY EmailAssumption
  DEF Init, Ind, TypeOK, RequestsAreSound, AddressesHaveMembers, SessionsAreProved,
      Undisturbed, Registered

\* Each action keeps the invariant.
LEMMA NextInd == Ind /\ [Next]_vars => Ind'
<1> SUFFICES ASSUME Ind, [Next]_vars PROVE Ind'
  OBVIOUS
<1> USE EmailAssumption, RowAssumption
<1>1. ASSUME NEW r \in Request, NEW p \in Project, NEW e \in Email, SignUpRead(r, p, e)
      PROVE  Ind'
  <2>1. TypeOK'
    BY <1>1
    DEF Ind, TypeOK, RequestsAreSound, Row, Registered, SignUpRead, Start, Goto,
        tables
  <2>2. RequestsAreSound'
    BY <1>1
    DEF Ind, RequestsAreSound, TypeOK, Row, Registered, SignUpRead, Start, Goto,
        tables
  <2>3. AddressesHaveMembers'
    BY <1>1
    DEF Ind, AddressesHaveMembers, TypeOK, RequestsAreSound, Row, Registered,
        SignUpRead, Start, Goto, tables
  <2>4. SessionsAreProved'
    BY <1>1
    DEF Ind, SessionsAreProved, TypeOK, RequestsAreSound, SignUpRead, Start, Goto,
        tables
  <2>5. Undisturbed'
    BY <1>1
    DEF Ind, Undisturbed, TypeOK, RequestsAreSound, Row, Registered, SignUpRead,
        Start, Goto, tables
  <2> QED BY <2>1, <2>2, <2>3, <2>4, <2>5 DEF Ind
<1>2. ASSUME NEW r \in Request, NEW p \in Project, NEW e \in Email, ResendRead(r, p, e)
      PROVE  Ind'
  <2>1. TypeOK'
    BY <1>2
    DEF Ind, TypeOK, RequestsAreSound, Row, Registered, ResendRead, Start, Goto,
        tables
  <2>2. RequestsAreSound'
    BY <1>2
    DEF Ind, RequestsAreSound, TypeOK, Row, Registered, ResendRead, Start, Goto,
        tables
  <2>3. AddressesHaveMembers'
    BY <1>2
    DEF Ind, AddressesHaveMembers, TypeOK, RequestsAreSound, Row, Registered,
        ResendRead, Start, Goto, tables
  <2>4. SessionsAreProved'
    BY <1>2
    DEF Ind, SessionsAreProved, TypeOK, RequestsAreSound, ResendRead, Start, Goto,
        tables
  <2>5. Undisturbed'
    BY <1>2
    DEF Ind, Undisturbed, TypeOK, RequestsAreSound, Row, Registered, ResendRead,
        Start, Goto, tables
  <2> QED BY <2>1, <2>2, <2>3, <2>4, <2>5 DEF Ind
<1>3. ASSUME NEW r \in Request, NEW p \in Project, NEW e \in Email, NEW c \in Code,
             VerifyRead(r, p, e, c)
      PROVE  Ind'
  <2>1. TypeOK'
    BY <1>3
    DEF Ind, TypeOK, RequestsAreSound, Row, Registered, VerifyRead, Start, Goto,
        tables
  <2>2. RequestsAreSound'
    BY <1>3
    DEF Ind, RequestsAreSound, TypeOK, Row, Registered, VerifyRead, Start, Goto,
        tables
  <2>3. AddressesHaveMembers'
    BY <1>3
    DEF Ind, AddressesHaveMembers, TypeOK, RequestsAreSound, Row, Registered,
        VerifyRead, Start, Goto, tables
  <2>4. SessionsAreProved'
    BY <1>3
    DEF Ind, SessionsAreProved, TypeOK, RequestsAreSound, VerifyRead, Start, Goto,
        tables
  <2>5. Undisturbed'
    BY <1>3
    DEF Ind, Undisturbed, TypeOK, RequestsAreSound, Row, Registered, VerifyRead,
        Start, Goto, tables
  <2> QED BY <2>1, <2>2, <2>3, <2>4, <2>5 DEF Ind
<1>4. ASSUME NEW r \in Request, NEW p \in Project, NEW e \in Email, NEW w \in Password,
             SignInRead(r, p, e, w)
      PROVE  Ind'
  <2>1. TypeOK'
    BY <1>4
    DEF Ind, TypeOK, RequestsAreSound, Row, Registered, SignInRead, Start, Goto,
        tables
  <2>2. RequestsAreSound'
    BY <1>4
    DEF Ind, RequestsAreSound, TypeOK, Row, Registered, Undisturbed, SignInRead,
        Start, Goto, tables
  <2>3. AddressesHaveMembers'
    BY <1>4
    DEF Ind, AddressesHaveMembers, TypeOK, RequestsAreSound, Row, Registered,
        SignInRead, Start, Goto, tables
  <2>4. SessionsAreProved'
    BY <1>4
    DEF Ind, SessionsAreProved, TypeOK, RequestsAreSound, SignInRead, Start, Goto,
        tables
  <2>5. Undisturbed'
    BY <1>4
    DEF Ind, Undisturbed, TypeOK, RequestsAreSound, Row, Registered, SignInRead,
        Start, Goto, tables
  <2> QED BY <2>1, <2>2, <2>3, <2>4, <2>5 DEF Ind
<1>5. ASSUME NEW r \in Request, NEW u \in Uid, NEW w \in Password, NEW c \in Code,
             SignUpBegin(r, u, w, c)
      PROVE  Ind'
  <2>1. TypeOK'
    BY <1>5
    DEF Ind, TypeOK, RequestsAreSound, Row, Registered, SignUpBegin, Goto, tables,
        history
  <2>2. RequestsAreSound'
    BY <1>5
    DEF Ind, RequestsAreSound, TypeOK, Row, Registered, SignUpBegin, Goto, tables,
        history
  <2>3. AddressesHaveMembers'
    BY <1>5
    DEF Ind, AddressesHaveMembers, TypeOK, RequestsAreSound, Row, Registered,
        SignUpBegin, Goto, tables, history
  <2>4. SessionsAreProved'
    BY <1>5
    DEF Ind, SessionsAreProved, TypeOK, RequestsAreSound, SignUpBegin, Goto, tables,
        history
  <2>5. Undisturbed'
    BY <1>5
    DEF Ind, Undisturbed, TypeOK, RequestsAreSound, Row, Registered, SignUpBegin,
        Goto, tables, history
  <2> QED BY <2>1, <2>2, <2>3, <2>4, <2>5 DEF Ind
<1>6. ASSUME NEW r \in Request, SignUpSave(r) PROVE Ind'
  <2>1. TypeOK'
    BY <1>6
    DEF Ind, TypeOK, RequestsAreSound, Row, Registered, SignUpSave, Goto, tables,
        history
  <2>2. RequestsAreSound'
    BY <1>6
    DEF Ind, RequestsAreSound, TypeOK, Row, Registered, SignUpSave, Goto, tables,
        history
  <2>3. AddressesHaveMembers'
    BY <1>6
    DEF Ind, AddressesHaveMembers, TypeOK, RequestsAreSound, Row, Registered,
        SignUpSave, Goto, tables, history
  <2>4. SessionsAreProved'
    BY <1>6
    DEF Ind, SessionsAreProved, TypeOK, RequestsAreSound, SignUpSave, Goto, tables,
        history
  <2>5. Undisturbed'
    BY <1>6
    DEF Ind, Undisturbed, TypeOK, RequestsAreSound, Row, Registered, SignUpSave, Goto,
        tables, history
  <2> QED BY <2>1, <2>2, <2>3, <2>4, <2>5 DEF Ind
<1>7. ASSUME NEW r \in Request, SignUpDuplicate(r) PROVE Ind'
  <2>1. TypeOK'
    BY <1>7
    DEF Ind, TypeOK, RequestsAreSound, Row, Registered, SignUpDuplicate, Finish, Goto,
        tables, history
  <2>2. RequestsAreSound'
    BY <1>7
    DEF Ind, RequestsAreSound, TypeOK, Row, Registered, SignUpDuplicate, Finish, Goto,
        tables, history
  <2>3. AddressesHaveMembers'
    BY <1>7
    DEF Ind, AddressesHaveMembers, TypeOK, RequestsAreSound, Row, Registered,
        SignUpDuplicate, Finish, Goto, tables, history
  <2>4. SessionsAreProved'
    BY <1>7
    DEF Ind, SessionsAreProved, TypeOK, RequestsAreSound, SignUpDuplicate, Finish,
        Goto, tables, history
  <2>5. Undisturbed'
    BY <1>7
    DEF Ind, Undisturbed, TypeOK, RequestsAreSound, Row, Registered, SignUpDuplicate,
        Finish, Goto, tables, history
  <2> QED BY <2>1, <2>2, <2>3, <2>4, <2>5 DEF Ind
<1>8. ASSUME NEW r \in Request, SignUpCommit(r) PROVE Ind'
  <2>1. TypeOK'
    BY <1>8 DEF Ind, TypeOK, RequestsAreSound, Row, Registered, SignUpCommit, Goto
  <2>2. RequestsAreSound'
    BY <1>8 DEF Ind, RequestsAreSound, TypeOK, Row, Registered, SignUpCommit, Goto
  <2>3. AddressesHaveMembers'
    <3>1. addr[r] \in Email /\ proj[r] \in Project /\ draft[r] \in Row
      BY <1>8 DEF Ind, TypeOK, RequestsAreSound, SignUpCommit
    <3>2. draft[r].uid \in account' /\ <<proj[r], draft[r].uid>> \in member'
      BY <1>8 DEF SignUpCommit
    <3>3. account \subseteq account' /\ member \subseteq member'
      BY <1>8 DEF SignUpCommit
    <3>4. email' = [email EXCEPT ![addr[r]] = draft[r]]
      BY <1>8 DEF SignUpCommit
    <3> QED BY <3>1, <3>2, <3>3, <3>4 DEF Ind, TypeOK, AddressesHaveMembers, Registered
  <2>4. SessionsAreProved'
    BY <1>8 DEF Ind, SessionsAreProved, TypeOK, RequestsAreSound, SignUpCommit, Goto
  <2>5. Undisturbed'
    BY <1>8
    DEF Ind, Undisturbed, TypeOK, RequestsAreSound, Row, Registered, SignUpCommit,
        Goto
  <2> QED BY <2>1, <2>2, <2>3, <2>4, <2>5 DEF Ind
<1>9. ASSUME NEW r \in Request, Mail(r) PROVE Ind'
  <2>1. TypeOK'
    BY <1>9
    DEF Ind, TypeOK, RequestsAreSound, Row, Registered, Mail, Finish, Goto, tables
  <2>2. RequestsAreSound'
    BY <1>9
    DEF Ind, RequestsAreSound, TypeOK, Row, Registered, Mail, Finish, Goto, tables
  <2>3. AddressesHaveMembers'
    BY <1>9
    DEF Ind, AddressesHaveMembers, TypeOK, RequestsAreSound, Row, Registered, Mail,
        Finish, Goto, tables
  <2>4. SessionsAreProved'
    BY <1>9
    DEF Ind, SessionsAreProved, TypeOK, RequestsAreSound, Mail, Finish, Goto, tables
  <2>5. Undisturbed'
    BY <1>9
    DEF Ind, Undisturbed, TypeOK, RequestsAreSound, Row, Registered, Mail, Finish,
        Goto, tables
  <2> QED BY <2>1, <2>2, <2>3, <2>4, <2>5 DEF Ind
<1>10. ASSUME NEW r \in Request, VerifyUpdate(r) PROVE Ind'
  <2>0. PICK row \in Row : /\ email' = [email EXCEPT ![addr[r]] = row]
                           /\ row.uid = email[addr[r]].uid
                           /\ row.verified
    <3>1. addr[r] \in Email /\ email[addr[r]] \in Row
      BY <1>10 DEF Ind, TypeOK, RequestsAreSound, Registered, VerifyUpdate
    <3> DEFINE row == [email[addr[r]] EXCEPT !.verified = TRUE, !.code = NoCode,
                                             !.until = 0]
    <3>3. row \in Row /\ row.uid = email[addr[r]].uid /\ row.verified
      <4>1. 0 \in 0 .. MaxNow + Window
        OBVIOUS
      <4>2. NoCode \in Code \cup {NoCode} /\ TRUE \in BOOLEAN
        OBVIOUS
      <4> QED BY <3>1, <4>1, <4>2 DEF Row
    <3>4. email' = [email EXCEPT ![addr[r]] = row]
      BY <1>10, <3>1 DEF Ind, TypeOK, VerifyUpdate
    <3> QED BY <3>3, <3>4
  <2>1. TypeOK'
    BY <1>10, <2>0
    DEF Ind, TypeOK, RequestsAreSound, Row, Registered, VerifyUpdate, Goto, history
  <2>2. RequestsAreSound'
    BY <1>10, <2>0
    DEF Ind, RequestsAreSound, TypeOK, Row, Registered, VerifyUpdate, Goto, history
  <2>3. AddressesHaveMembers'
    BY <1>10, <2>0
    DEF Ind, AddressesHaveMembers, TypeOK, RequestsAreSound, Row, Registered,
        VerifyUpdate, Goto, history
  <2>4. SessionsAreProved'
    BY <1>10, <2>0
    DEF Ind, SessionsAreProved, TypeOK, RequestsAreSound, VerifyUpdate, Goto, history
  <2>5. Undisturbed'
    BY <1>10, <2>0
    DEF Ind, Undisturbed, TypeOK, RequestsAreSound, Row, Registered, VerifyUpdate,
        Goto, history
  <2> QED BY <2>1, <2>2, <2>3, <2>4, <2>5 DEF Ind
<1>11. ASSUME NEW r \in Request, Answer(r) PROVE Ind'
  <2>1. TypeOK'
    BY <1>11
    DEF Ind, TypeOK, RequestsAreSound, Row, Registered, Answer, Finish, Goto, tables
  <2>2. RequestsAreSound'
    BY <1>11
    DEF Ind, RequestsAreSound, TypeOK, Row, Registered, Answer, Finish, Goto, tables
  <2>3. AddressesHaveMembers'
    BY <1>11
    DEF Ind, AddressesHaveMembers, TypeOK, RequestsAreSound, Row, Registered, Answer,
        Finish, Goto, tables
  <2>4. SessionsAreProved'
    BY <1>11
    DEF Ind, SessionsAreProved, TypeOK, RequestsAreSound, Answer, Finish, Goto, tables
  <2>5. Undisturbed'
    BY <1>11
    DEF Ind, Undisturbed, TypeOK, RequestsAreSound, Row, Registered, Answer, Finish,
        Goto, tables
  <2> QED BY <2>1, <2>2, <2>3, <2>4, <2>5 DEF Ind
<1>12. ASSUME NEW r \in Request, NEW c \in Code, ResendUpdate(r, c) PROVE Ind'
  <2>0. PICK row \in Row : /\ email' = [email EXCEPT ![addr[r]] = row]
                           /\ row.uid = email[addr[r]].uid
                           /\ row.verified = email[addr[r]].verified /\ row.code = c
    <3>1. addr[r] \in Email /\ email[addr[r]] \in Row
      BY <1>12 DEF Ind, TypeOK, RequestsAreSound, Registered, ResendUpdate
    <3> DEFINE row == [email[addr[r]] EXCEPT !.code = c, !.until = now + Window]
    <3>3. /\ row \in Row /\ row.uid = email[addr[r]].uid
          /\ row.verified = email[addr[r]].verified /\ row.code = c
      <4>1. now + Window \in 0 .. MaxNow + Window
        BY DEF Ind, TypeOK
      <4> QED BY <3>1, <4>1 DEF Row
    <3>4. email' = [email EXCEPT ![addr[r]] = row]
      BY <1>12, <3>1 DEF Ind, TypeOK, ResendUpdate
    <3> QED BY <3>3, <3>4
  <2>1. TypeOK'
    BY <1>12, <2>0
    DEF Ind, TypeOK, RequestsAreSound, Row, Registered, ResendUpdate, Goto
  <2>2. RequestsAreSound'
    BY <1>12, <2>0
    DEF Ind, RequestsAreSound, TypeOK, Row, Registered, ResendUpdate, Goto
  <2>3. AddressesHaveMembers'
    BY <1>12, <2>0
    DEF Ind, AddressesHaveMembers, TypeOK, RequestsAreSound, Row, Registered,
        ResendUpdate, Goto
  <2>4. SessionsAreProved'
    BY <1>12, <2>0
    DEF Ind, SessionsAreProved, TypeOK, RequestsAreSound, ResendUpdate, Goto
  <2>5. Undisturbed'
    BY <1>12, <2>0
    DEF Ind, Undisturbed, TypeOK, RequestsAreSound, Row, Registered, ResendUpdate,
        Goto
  <2> QED BY <2>1, <2>2, <2>3, <2>4, <2>5 DEF Ind
<1>13. ASSUME NEW r \in Request, Fail(r) PROVE Ind'
  <2>1. TypeOK'
    BY <1>13
    DEF Ind, TypeOK, RequestsAreSound, Row, Registered, Fail, Finish, Goto, tables,
        history
  <2>2. RequestsAreSound'
    BY <1>13
    DEF Ind, RequestsAreSound, TypeOK, Row, Registered, Fail, Finish, Goto, tables,
        history
  <2>3. AddressesHaveMembers'
    BY <1>13
    DEF Ind, AddressesHaveMembers, TypeOK, RequestsAreSound, Row, Registered, Fail,
        Finish, Goto, tables, history
  <2>4. SessionsAreProved'
    BY <1>13
    DEF Ind, SessionsAreProved, TypeOK, RequestsAreSound, Fail, Finish, Goto, tables,
        history
  <2>5. Undisturbed'
    BY <1>13
    DEF Ind, Undisturbed, TypeOK, RequestsAreSound, Row, Registered, Fail, Finish,
        Goto, tables, history
  <2> QED BY <2>1, <2>2, <2>3, <2>4, <2>5 DEF Ind
<1>14. ASSUME Tick PROVE Ind'
  <2>1. TypeOK'
    BY <1>14
    DEF Ind, TypeOK, RequestsAreSound, Row, Registered, Tick, tables, locals, history
  <2>2. RequestsAreSound'
    BY <1>14
    DEF Ind, RequestsAreSound, TypeOK, Row, Registered, Tick, tables, locals, history
  <2>3. AddressesHaveMembers'
    BY <1>14
    DEF Ind, AddressesHaveMembers, TypeOK, RequestsAreSound, Row, Registered, Tick,
        tables, locals, history
  <2>4. SessionsAreProved'
    BY <1>14
    DEF Ind, SessionsAreProved, TypeOK, RequestsAreSound, Tick, tables, locals,
        history
  <2>5. Undisturbed'
    BY <1>14
    DEF Ind, Undisturbed, TypeOK, RequestsAreSound, Row, Registered, Tick, tables,
        locals, history
  <2> QED BY <2>1, <2>2, <2>3, <2>4, <2>5 DEF Ind
<1>15. ASSUME UNCHANGED vars PROVE Ind'
  <2>1. TypeOK'
    BY <1>15
    DEF Ind, TypeOK, RequestsAreSound, Row, Registered, vars, tables, locals, history
  <2>2. RequestsAreSound'
    BY <1>15
    DEF Ind, RequestsAreSound, TypeOK, Row, Registered, vars, tables, locals, history
  <2>3. AddressesHaveMembers'
    BY <1>15
    DEF Ind, AddressesHaveMembers, TypeOK, RequestsAreSound, Row, Registered, vars,
        tables, locals, history
  <2>4. SessionsAreProved'
    BY <1>15
    DEF Ind, SessionsAreProved, TypeOK, RequestsAreSound, vars, tables, locals,
        history
  <2>5. Undisturbed'
    BY <1>15
    DEF Ind, Undisturbed, TypeOK, RequestsAreSound, Row, Registered, vars, tables,
        locals, history
  <2> QED BY <2>1, <2>2, <2>3, <2>4, <2>5 DEF Ind
<1> QED
  BY <1>1, <1>2, <1>3, <1>4, <1>5, <1>6, <1>7, <1>8, <1>9, <1>10, <1>11, <1>12, <1>13,
     <1>14, <1>15
  DEF Next

THEOREM Invariance == Spec => []Ind
  BY InitInd, NextInd, PTL DEF Spec

-----------------------------------------------------------------------------
(* What follows from it                                                    *)

\* Every variable keeps its type.
THEOREM TypeCorrect == Spec => []TypeOK
<1>1. Ind => TypeOK
  BY DEF Ind
<1> QED BY <1>1, Invariance, PTL

\* A registered address names a committed account that has joined a project.
THEOREM AddressesNameMembers == Spec => []AddressesHaveMembers
<1>1. Ind => AddressesHaveMembers
  BY DEF Ind
<1> QED BY <1>1, Invariance, PTL

\* The code mailed last is the one the row waits for, unless requests about the
\* address have overlapped or a mail was lost.
THEOREM MailedIsStored == Spec => []MailedCodeWorks
<1>1. Ind => MailedCodeWorks
  BY DEF Ind, Undisturbed, MailedCodeWorks
<1> QED BY <1>1, Invariance, PTL

\* No session for an account that was never proved, unless requests about the
\* address have overlapped.
THEOREM SessionsProved == Spec => []SessionsAreProved
<1>1. Ind => SessionsAreProved
  BY DEF Ind
<1> QED BY <1>1, Invariance, PTL

\* A row keeps its owner, its password and its verification, unless requests about
\* the address overlap.
THEOREM RowsKeptByOwner == Spec => RowChangesHandsOnlyUnderContention
<1> DEFINE Kept(e) == Registered(e) /\ e \notin contended =>
             /\ email'[e].uid = email[e].uid
             /\ email'[e].password = email[e].password
             /\ email[e].verified => email'[e] = email[e]
<1>1. ASSUME Ind, Next, NEW e \in Email PROVE Kept(e)
  <2>1. CASE UNCHANGED email
    BY <2>1
  <2>2. CASE ~UNCHANGED email
    <3>1. PICK r \in Request :
            \/ SignUpCommit(r) \/ VerifyUpdate(r)
            \/ \E c \in Code : ResendUpdate(r, c)
      BY <1>1, <2>2
      DEF Next, SignUpRead, ResendRead, VerifyRead, SignInRead, SignUpBegin, SignUpSave,
          SignUpDuplicate, Mail, Answer, Fail, Tick, tables
    <3>2. CASE addr[r] # e
      BY <1>1, <3>1, <3>2
      DEF SignUpCommit, VerifyUpdate, ResendUpdate, Ind, TypeOK
    <3>3. CASE addr[r] = e /\ SignUpCommit(r)
      BY <1>1, <3>3 DEF SignUpCommit, Ind, Undisturbed
    <3>4. CASE addr[r] = e /\ VerifyUpdate(r)
      BY <1>1, <3>4 DEF VerifyUpdate, Ind, TypeOK, Undisturbed, Registered, Row
    <3>5. CASE addr[r] = e /\ \E c \in Code : ResendUpdate(r, c)
      BY <1>1, <3>5 DEF ResendUpdate, Ind, TypeOK, Undisturbed, Registered, Row
    <3> QED BY <3>1, <3>2, <3>3, <3>4, <3>5
  <2> QED BY <2>1, <2>2
<1>2. ASSUME Ind, [Next]_vars PROVE [\A e \in Email : Kept(e)]_vars
  BY <1>1, <1>2
<1> QED BY <1>2, Invariance, PTL DEF Spec, RowChangesHandsOnlyUnderContention
-----------------------------------------------------------------------------
(* The life of an address                                                  *)

\* A sign-up saves a row of an account that nobody else has, good for no longer than
\* the window.
Draft(r) ==
  /\ draft[r].uid \notin account
  /\ draft[r].code \in Code
  /\ draft[r].until <= now + Window
  /\ \A q \in Request \ {r} : pc[q] \in {"save", "commit"} => draft[q].uid # draft[r].uid

Drafts == \A r \in Request : pc[r] \in {"save", "commit"} => Draft(r)

ProvedAccounts == proved \subseteq account

\* Who mails a code or opens a session found the row as it still is.
Settled ==
  \A e \in Email \ contended : \A r \in Request : addr[r] = e =>
    /\ pc[r] = "mail" =>
         Registered(e) /\ ~email[e].verified /\ email[e].code = letter[r]
    /\ pc[r] = "answer" =>
         Registered(e) /\ email[e].verified /\ uid[r] = email[e].uid

LifeInd == Ind /\ Drafts /\ ProvedAccounts /\ Settled

\* Requests that do not touch the drafts of others leave them as they are.
LEMMA DraftsKept ==
  ASSUME TypeOK, Drafts, account' = account, now' = now \/ now' = now + 1,
         \A r \in Request : pc'[r] \in {"save", "commit"} =>
           pc[r] \in {"save", "commit"} /\ draft'[r] = draft[r],
         RequestsAreSound
  PROVE  Drafts'
<1> SUFFICES ASSUME NEW r \in Request, pc'[r] \in {"save", "commit"}
             PROVE  Draft(r)'
  BY DEF Drafts
<1>1. Draft(r) /\ draft'[r] = draft[r] /\ pc[r] \in {"save", "commit"}
  BY DEF Drafts
<1>2. draft[r].until <= now' + Window
  <2>1. draft[r] \in Row /\ now \in Nat
    BY <1>1 DEF RequestsAreSound, TypeOK
  <2>2. draft[r].until \in Nat /\ Window \in Nat
    BY <2>1, EmailAssumption DEF Row
  <2> QED BY <1>1, <2>1, <2>2 DEF Draft
<1> QED BY <1>1, <1>2 DEF Draft

LEMMA NextDrafts == Ind /\ Drafts /\ [Next]_vars => Drafts'
<1> SUFFICES ASSUME Ind, Drafts, [Next]_vars PROVE Drafts'
  OBVIOUS
<1>0. TypeOK /\ RequestsAreSound
  BY DEF Ind
<1>1. ASSUME NEW r \in Request, NEW u \in Uid, NEW w \in Password, NEW c \in Code,
             SignUpBegin(r, u, w, c)
      PROVE  Drafts'
  <2>1. /\ draft'[r] = [uid |-> u, password |-> w, verified |-> FALSE, code |-> c,
                        until |-> now + Window]
        /\ \A q \in Request \ {r} : draft'[q] = draft[q] /\ pc'[q] = pc[q]
        /\ UNCHANGED <<account, now>> /\ u \in Unused
        /\ now \in Nat /\ Window \in Nat
    BY <1>0, <1>1, EmailAssumption DEF SignUpBegin, Goto, TypeOK, tables
  <2>2. /\ u \notin account
        /\ \A q \in Request : pc[q] \in {"save", "commit"} => draft[q].uid # u
    BY <2>1 DEF Unused
  <2>3. Draft(r)'
    BY <2>1, <2>2 DEF Draft
  <2>4. \A q \in Request \ {r} : pc'[q] \in {"save", "commit"} => Draft(q)'
    BY <2>1, <2>2 DEF Drafts, Draft
  <2> QED BY <2>3, <2>4 DEF Drafts
<1>2. ASSUME NEW r \in Request, SignUpCommit(r)
      PROVE  Drafts'
  <2>1. /\ pc[r] = "commit" /\ pc'[r] = "mail" /\ account' = account \cup {draft[r].uid}
        /\ \A q \in Request \ {r} : pc'[q] = pc[q]
        /\ UNCHANGED <<draft, now>>
    BY <1>0, <1>2 DEF SignUpCommit, Goto, TypeOK
  <2>2. \A q \in Request : pc'[q] \in {"save", "commit"} =>
          q # r /\ pc[q] \in {"save", "commit"} /\ draft[q].uid # draft[r].uid
    BY <2>1 DEF Drafts, Draft
  <2> QED BY <2>1, <2>2 DEF Drafts, Draft
<1>3. ASSUME NEW r \in Request,
             \/ \E p \in Project, e \in Email :
                  \/ SignUpRead(r, p, e) \/ ResendRead(r, p, e)
                  \/ \E c \in Code : VerifyRead(r, p, e, c)
                  \/ \E w \in Password : SignInRead(r, p, e, w)
             \/ SignUpSave(r) \/ SignUpDuplicate(r) \/ Mail(r) \/ VerifyUpdate(r)
             \/ Answer(r) \/ Fail(r) \/ \E c \in Code : ResendUpdate(r, c)
      PROVE  Drafts'
  <2>1. /\ UNCHANGED <<account, now>>
        /\ \A q \in Request : pc'[q] \in {"save", "commit"} =>
             pc[q] \in {"save", "commit"} /\ draft'[q] = draft[q]
    BY <1>0, <1>3 DEF SignUpRead, ResendRead, VerifyRead, SignInRead, Start, SignUpSave,
       SignUpDuplicate, Mail, VerifyUpdate, Answer, Fail, ResendUpdate, Finish, Goto, TypeOK,
       tables
  <2> QED BY <1>0, <2>1, DraftsKept
<1>4. CASE Tick \/ UNCHANGED vars
  <2>1. UNCHANGED <<account, pc, draft>> /\ (now' = now \/ now' = now + 1)
    BY <1>4 DEF Tick, vars, tables, locals
  <2> QED BY <1>0, <2>1, DraftsKept
<1> QED BY <1>1, <1>2, <1>3, <1>4 DEF Next

LEMMA NextProved == Ind /\ ProvedAccounts /\ [Next]_vars => ProvedAccounts'
<1> SUFFICES ASSUME Ind, ProvedAccounts, [Next]_vars PROVE ProvedAccounts'
  OBVIOUS
<1>1. ASSUME NEW r \in Request, NEW p \in Project, NEW e \in Email, NEW c \in Code,
             VerifyRead(r, p, e, c)
      PROVE  ProvedAccounts'
  BY <1>1 DEF VerifyRead, tables, Ind, AddressesHaveMembers, ProvedAccounts
<1>2. CASE proved' = proved /\ account \subseteq account'
  BY <1>2 DEF ProvedAccounts
<1> QED
  BY <1>1, <1>2
  DEF Next, SignUpRead, ResendRead, SignInRead, SignUpBegin, SignUpSave, SignUpDuplicate,
      SignUpCommit, Mail, VerifyUpdate, Answer, Fail, ResendUpdate, Tick, vars, tables, history

\* A verification and a new code change one column or two of the row they are about.
LEMMA VerifyUpdates ==
  ASSUME TypeOK, RequestsAreSound, NEW r \in Request, VerifyUpdate(r)
  PROVE  /\ addr[r] \in Email /\ email[addr[r]] \in Row /\ uid[r] \in Uid
         /\ uid[r] \in proved
         /\ email'[addr[r]] = [email[addr[r]] EXCEPT !.verified = TRUE, !.code = NoCode,
                                                     !.until = 0]
         /\ email'[addr[r]] # NoRow
         /\ \A e \in Email \ {addr[r]} : email'[e] = email[e]
         /\ pc[r] = "verify" /\ pc'[r] = "answer"
         /\ \A q \in Request \ {r} : pc'[q] = pc[q]
         /\ UNCHANGED <<now, addr, proj, uid, letter, issued, proved, mailbox, contended>>
<1>1. addr[r] \in Email /\ email[addr[r]] \in Row /\ uid[r] \in Uid /\ uid[r] \in proved
  BY EmailAssumption DEF VerifyUpdate, TypeOK, RequestsAreSound, Registered
<1>2. email' = [email EXCEPT ![addr[r]] =
                  [email[addr[r]] EXCEPT !.verified = TRUE, !.code = NoCode, !.until = 0]]
  BY <1>1 DEF VerifyUpdate, TypeOK
<1>3. email'[addr[r]] = [email[addr[r]] EXCEPT !.verified = TRUE, !.code = NoCode, !.until = 0]
  BY <1>1, <1>2 DEF TypeOK
<1>4. email'[addr[r]] \in Row
  <2>1. 0 \in 0 .. MaxNow + Window
    BY EmailAssumption
  <2>2. ASSUME NEW x \in Row
        PROVE  [x EXCEPT !.verified = TRUE, !.code = NoCode, !.until = 0] \in Row
    BY <2>1 DEF Row
  <2> QED BY <1>1, <1>3, <2>2
<1> QED BY <1>1, <1>2, <1>3, <1>4, RowAssumption DEF VerifyUpdate, TypeOK, Goto, history

LEMMA ResendUpdates ==
  ASSUME TypeOK, RequestsAreSound, NEW r \in Request, NEW c \in Code, ResendUpdate(r, c)
  PROVE  /\ addr[r] \in Email /\ email[addr[r]] \in Row
         /\ email'[addr[r]] = [email[addr[r]] EXCEPT !.code = c, !.until = now + Window]
         /\ \A e \in Email \ {addr[r]} : email'[e] = email[e]
         /\ pc[r] = "resend"
         /\ UNCHANGED <<now, issued, proved, mailbox, contended>>
<1>1. addr[r] \in Email /\ email[addr[r]] \in Row
  BY EmailAssumption DEF ResendUpdate, TypeOK, RequestsAreSound, Registered
<1>2. email' = [email EXCEPT ![addr[r]] =
                  [email[addr[r]] EXCEPT !.code = c, !.until = now + Window]]
  BY <1>1 DEF ResendUpdate, TypeOK
<1> QED BY <1>1, <1>2 DEF ResendUpdate, TypeOK

LEMMA NextSettled == Ind /\ Settled /\ [Next]_vars => Settled'
<1> SUFFICES ASSUME Ind, Settled, [Next]_vars PROVE Settled'
  OBVIOUS
<1>0. TypeOK /\ RequestsAreSound /\ Undisturbed
  BY DEF Ind
<1> USE EmailAssumption, RowAssumption
<1>1. ASSUME NEW r \in Request, NEW p \in Project, NEW e \in Email,
             \/ SignUpRead(r, p, e) \/ ResendRead(r, p, e)
             \/ \E c \in Code : VerifyRead(r, p, e, c)
             \/ \E w \in Password : SignInRead(r, p, e, w)
      PROVE  Settled'
  BY <1>0, <1>1 DEF SignUpRead, ResendRead, VerifyRead, SignInRead, Start, Goto, TypeOK,
     tables, Settled, Registered
<1>2. ASSUME NEW r \in Request, NEW u \in Uid, NEW w \in Password, NEW c \in Code,
             SignUpBegin(r, u, w, c)
      PROVE  Settled'
  BY <1>0, <1>2 DEF SignUpBegin, Goto, TypeOK, tables, history, Settled, Registered
<1>3. ASSUME NEW r \in Request, SignUpSave(r) \/ SignUpDuplicate(r) \/ Fail(r) \/ Mail(r)
                                \/ Answer(r)
      PROVE  Settled'
  BY <1>0, <1>3 DEF SignUpSave, SignUpDuplicate, Fail, Mail, Answer, Finish, Goto, TypeOK,
     tables, history, Settled, Registered
<1>4. ASSUME NEW r \in Request, SignUpCommit(r)
      PROVE  Settled'
  BY <1>0, <1>4 DEF SignUpCommit, Goto, TypeOK, RequestsAreSound, Undisturbed, Settled,
     Registered
<1>5. ASSUME NEW r \in Request, VerifyUpdate(r)
      PROVE  Settled'
  <2> DEFINE a == addr[r]
  <2>1. /\ email[a] \in Row
        /\ email'[a] = [email[a] EXCEPT !.verified = TRUE, !.code = NoCode, !.until = 0]
    BY <1>0, <1>5, VerifyUpdates
  <2>2. email'[a].verified /\ email'[a].uid = email[a].uid
    BY <2>1 DEF Row
  <2>3. /\ a \in Email /\ email'[a] # NoRow
        /\ \A e \in Email \ {a} : email'[e] = email[e]
        /\ pc[r] = "verify" /\ pc'[r] = "answer"
        /\ \A q \in Request \ {r} : pc'[q] = pc[q]
        /\ UNCHANGED <<addr, uid, letter, contended>>
    BY <1>0, <1>5, VerifyUpdates
  <2>4. a \notin contended => /\ uid[r] = email[a].uid
                             /\ \A q \in Request \ {r} : addr[q] # a
    BY <1>0, <2>3 DEF Undisturbed
  <2> QED BY <2>2, <2>3, <2>4 DEF Settled, Registered
<1>6. ASSUME NEW r \in Request, NEW c \in Code, ResendUpdate(r, c)
      PROVE  Settled'
  BY <1>0, <1>6 DEF ResendUpdate, Goto, TypeOK, RequestsAreSound, Undisturbed, Settled,
     Registered, Row
<1>7. CASE Tick \/ UNCHANGED vars
  BY <1>7 DEF Tick, vars, tables, locals, history, Settled, Registered
<1> QED BY <1>1, <1>2, <1>3, <1>4, <1>5, <1>6, <1>7 DEF Next

\* The invariant of addresses nobody disturbs.
THEOREM LifeInvariance == Spec => []LifeInd
<1>1. Init => Drafts /\ ProvedAccounts /\ Settled
  BY EmailAssumption DEF Init, Drafts, ProvedAccounts, Settled
<1>2. Ind /\ Drafts /\ ProvedAccounts /\ Settled /\ [Next]_vars
        => Drafts' /\ ProvedAccounts' /\ Settled'
  BY NextDrafts, NextProved, NextSettled
<1> QED BY <1>1, <1>2, Invariance, PTL DEF Spec, LifeInd


\* All other addresses, and all addresses.
Others(a) == \A e \in Email \ {a} : Life!Same(e)
Rest == \A e \in Email : Life!Same(e)

\* A step of a request about an address.
Turn(a) ==
  /\ Others(a)
  /\ a \notin contended' => Life!Lives(a)
  /\ UNCHANGED <<proved, now>>

\* The registration that a sign-up commits.
LEMMA CommitRegisters ==
  ASSUME LifeInd, NEW r \in Request, NEW a \in Email, a = addr[r], SignUpCommit(r)
  PROVE  Turn(a)
<1>0. TypeOK /\ RequestsAreSound /\ Undisturbed /\ AddressesHaveMembers
      /\ Drafts /\ ProvedAccounts
  BY DEF LifeInd, Ind
<1>1. /\ pc[r] = "commit" /\ email'[a] = draft[r]
      /\ \A e \in Email \ {a} : email'[e] = email[e]
      /\ UNCHANGED <<now, issued, proved, mailbox, contended>>
  BY <1>0, EmailAssumption DEF SignUpCommit, TypeOK, RequestsAreSound
<1>2. draft[r] \in Row /\ ~draft[r].verified /\ Draft(r)
  BY <1>0, <1>1 DEF RequestsAreSound, Drafts
<1>3. draft[r].uid \in Uid \ Life!Taken
  BY <1>0, <1>2 DEF Draft, Row, Life!Taken, AddressesHaveMembers, Registered, ProvedAccounts
<1>4. draft[r].until \in 0 .. now + Window
  <2>1. draft[r].until \in 0 .. MaxNow + Window /\ now \in Nat /\ Window \in Nat /\ MaxNow \in Nat
    BY <1>0, <1>2, EmailAssumption DEF Row, TypeOK
  <2> QED BY <1>2, <2>1 DEF Draft
<1>5. draft[r] \in [uid : Uid \ Life!Taken, password : Password, verified : {FALSE},
                    code : Code, until : 0 .. now + Window]
  BY <1>2, <1>3, <1>4 DEF Row, Draft
<1>6. a \notin contended' => Life!Register(a)
  BY <1>0, <1>1, <1>5 DEF Life!Register, Undisturbed, Registered
<1>7. Others(a)
  BY <1>1 DEF Others, Life!Same
<1> QED BY <1>1, <1>6, <1>7 DEF Turn, Life!Lives

\* The mail that carries the code of the row.
LEMMA MailMails ==
  ASSUME LifeInd, NEW r \in Request, NEW a \in Email, a = addr[r], Mail(r)
  PROVE  Turn(a)
<1>0. TypeOK /\ RequestsAreSound /\ Settled
  BY DEF LifeInd, Ind
<1>1. /\ pc[r] = "mail" /\ mailbox'[a] = letter[r]
      /\ \A e \in Email \ {a} : mailbox'[e] = mailbox[e]
      /\ UNCHANGED <<email, now, issued, proved, contended>>
  BY <1>0, EmailAssumption DEF Mail, TypeOK, RequestsAreSound, tables
<1>2. a \notin contended' => Life!Mail(a)
  BY <1>0, <1>1 DEF Settled, Life!Mail, Life!Waiting, Registered
<1>3. Others(a)
  BY <1>1 DEF Others, Life!Same
<1> QED BY <1>1, <1>2, <1>3 DEF Turn, Life!Lives

\* The UPDATE of a verification.
LEMMA UpdateVerifies ==
  ASSUME LifeInd, NEW r \in Request, NEW a \in Email, a = addr[r], VerifyUpdate(r)
  PROVE  Turn(a)
<1>0. TypeOK /\ RequestsAreSound /\ Undisturbed
  BY DEF LifeInd, Ind
<1>1. /\ email[a] \in Row /\ uid[r] \in proved /\ pc[r] = "verify"
      /\ email'[a] = [email[a] EXCEPT !.verified = TRUE, !.code = NoCode, !.until = 0]
      /\ \A e \in Email \ {a} : email'[e] = email[e]
      /\ UNCHANGED <<now, issued, proved, mailbox, contended>>
  BY <1>0, VerifyUpdates
<1>2. a \notin contended' => Life!Verify(a)
  BY <1>0, <1>1, RowAssumption DEF Undisturbed, Life!Verify, Life!Waiting
<1>3. Others(a)
  BY <1>1 DEF Others, Life!Same
<1> QED BY <1>1, <1>2, <1>3 DEF Turn, Life!Lives

\* The UPDATE of a new code.
LEMMA UpdateResends ==
  ASSUME LifeInd, NEW r \in Request, NEW a \in Email, a = addr[r], NEW c \in Code,
         ResendUpdate(r, c)
  PROVE  Turn(a)
<1>0. TypeOK /\ RequestsAreSound /\ Undisturbed
  BY DEF LifeInd, Ind
<1>1. /\ email[a] \in Row /\ pc[r] = "resend"
      /\ email'[a] = [email[a] EXCEPT !.code = c, !.until = now + Window]
      /\ \A e \in Email \ {a} : email'[e] = email[e]
      /\ UNCHANGED <<now, issued, proved, mailbox, contended>>
  BY <1>0, ResendUpdates
<1>2. a \notin contended' => Life!Resend(a)
  BY <1>0, <1>1, RowAssumption DEF Undisturbed, Life!Resend, Life!Waiting
<1>3. Others(a)
  BY <1>1 DEF Others, Life!Same
<1> QED BY <1>1, <1>2, <1>3 DEF Turn, Life!Lives

\* The session that a verification or a sign-in is answered with.
LEMMA AnswerOpens ==
  ASSUME LifeInd, NEW r \in Request, NEW a \in Email, a = addr[r], Answer(r)
  PROVE  Turn(a)
<1> DEFINE s == [project |-> proj[r], uid |-> uid[r], email |-> a]
<1>0. TypeOK /\ RequestsAreSound /\ Settled
  BY DEF LifeInd, Ind
<1>1. /\ pc[r] = "answer" /\ issued' = issued \cup {s} /\ proj[r] \in Project
      /\ UNCHANGED <<email, now, proved, mailbox, contended>>
  BY <1>0, EmailAssumption DEF Answer, TypeOK, RequestsAreSound, tables
<1>2. /\ {x \in issued' : x.email = a} = {x \in issued : x.email = a} \cup {s}
      /\ \A e \in Email \ {a} : {x \in issued' : x.email = e} = {x \in issued : x.email = e}
  BY <1>1
<1>3. a \notin contended' => Life!OpenSession(a)
  BY <1>0, <1>1, <1>2 DEF Settled, Life!OpenSession, Registered
<1>4. Others(a)
  BY <1>1, <1>2 DEF Others, Life!Same
<1> QED BY <1>1, <1>3, <1>4 DEF Turn, Life!Lives

\* Every step is about one address, a proof, the clock, or nothing that counts.
LEMMA StepsOfLives ==
  ASSUME LifeInd, [Next]_vars
  PROVE  \/ \E e \in Email : Turn(e)
         \/ \E e \in Email : Life!Present(e)
         \/ Life!Tick
         \/ Rest /\ UNCHANGED <<proved, now>>
<1>1. CASE UNCHANGED <<email, mailbox, issued, proved, now>>
  BY <1>1 DEF Rest, Life!Same
<1>2. CASE Tick
  BY <1>2 DEF Tick, Life!Tick, tables, history
<1>3. ASSUME NEW r \in Request, NEW p \in Project, NEW e \in Email, NEW c \in Code,
             VerifyRead(r, p, e, c)
      PROVE  Life!Present(e)
  BY <1>3 DEF VerifyRead, tables, Registered, Life!Present, Life!Waiting
<1>4. ASSUME NEW r \in Request,
             SignUpCommit(r) \/ Mail(r) \/ VerifyUpdate(r) \/ Answer(r)
               \/ \E c \in Code : ResendUpdate(r, c)
      PROVE  \E e \in Email : Turn(e)
  <2>1. addr[r] \in Email
    BY <1>4, EmailAssumption DEF LifeInd, Ind, TypeOK, RequestsAreSound, SignUpCommit, Mail,
       VerifyUpdate, Answer, ResendUpdate
  <2>2. PICK a \in Email : a = addr[r]
    BY <2>1
  <2>3. Turn(a)
    BY <1>4, <2>2, CommitRegisters, MailMails, UpdateVerifies, AnswerOpens, UpdateResends
  <2> QED BY <2>3
<1>5. ASSUME NEW r \in Request,
             \/ \E p \in Project, e \in Email :
                  \/ SignUpRead(r, p, e) \/ ResendRead(r, p, e)
                  \/ \E w \in Password : SignInRead(r, p, e, w)
             \/ SignUpSave(r) \/ SignUpDuplicate(r) \/ Fail(r)
             \/ \E u \in Uid, w \in Password, c \in Code : SignUpBegin(r, u, w, c)
      PROVE  UNCHANGED <<email, mailbox, issued, proved, now>>
  BY <1>5 DEF SignUpRead, ResendRead, SignInRead, SignUpSave, SignUpDuplicate, Fail,
     SignUpBegin, tables, history
<1>6. CASE UNCHANGED vars
  BY <1>1, <1>6 DEF vars, tables, history
<1> QED BY <1>1, <1>2, <1>3, <1>4, <1>5, <1>6 DEF Next

\* The statements of the handlers are steps of the life of an address that two requests
\* were never about at once.
THEOREM LifeIsKept == Spec => LifeKept
<1>1. ASSUME LifeInd, [Next]_vars, NEW e \in Email \ contended'
      PROVE  Life!Lives(e) \/ Life!Same(e)
  <2>1. CASE \E a \in Email : Turn(a)
    BY <1>1, <2>1 DEF Turn, Others
  <2>2. CASE (\E a \in Email : Life!Present(a)) \/ Life!Tick \/ Rest
    BY <1>1, <2>2 DEF Life!Present, Life!Tick, Life!Same, Rest
  <2> QED BY <1>1, <2>1, <2>2, StepsOfLives
<1>2. LifeInd /\ [Next]_vars => [\A e \in Email \ contended' : Life!Lives(e) \/ Life!Same(e)]_vars
  BY <1>1
<1> QED BY <1>2, LifeInvariance, PTL DEF Spec, LifeKept

\* As long as requests about the same address never overlap.
PoliteSpec == Init /\ [][Next /\ contended' = {}]_vars

\* Clients that wait for the answer of one request about an address before they send the
\* next see AddressLife, whatever fails between the statements.
THEOREM PoliteImplementsLife == PoliteSpec => Life!Spec
<1>1. Init => LifeInd
  BY InitInd, EmailAssumption DEF Init, LifeInd, Drafts, ProvedAccounts, Settled
<1>2. LifeInd /\ [Next /\ contended' = {}]_vars => LifeInd'
  BY NextInd, NextDrafts, NextProved, NextSettled DEF LifeInd
<1>3. Init => Life!Init
  BY DEF Init, Life!Init
<1>4. ASSUME LifeInd, LifeInd', [Next /\ contended' = {}]_vars
      PROVE  [Life!Next]_(Life!vars)
  <2>1. CASE UNCHANGED vars
    BY <2>1 DEF vars, tables, history, Life!vars
  <2>2. CASE Next /\ contended' = {}
    <3>1. CASE \E a \in Email : Turn(a)
      BY <2>2, <3>1 DEF Turn, Others, Life!Next
    <3>2. CASE (\E a \in Email : Life!Present(a)) \/ Life!Tick
      BY <3>2 DEF Life!Next
    <3>3. CASE Rest /\ UNCHANGED <<proved, now>>
      <4>1. email' = email /\ mailbox' = mailbox
        BY <1>4, <3>3 DEF LifeInd, Ind, TypeOK, Rest, Life!Same
      <4>2. \A e \in Email : {s \in issued' : s.email = e} = {s \in issued : s.email = e}
        BY <3>3 DEF Rest, Life!Same
      <4> QED BY <3>3, <4>1, <4>2 DEF Life!vars
    <3> QED BY <1>4, <2>2, <3>1, <3>2, <3>3, StepsOfLives
  <2> QED BY <1>4, <2>1, <2>2
<1> QED BY <1>1, <1>2, <1>3, <1>4, PTL DEF PoliteSpec, Life!Spec
=============================================================================

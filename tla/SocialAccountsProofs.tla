------------------------ MODULE SocialAccountsProofs ------------------------
(* Proofs of the invariants and of the action property of SocialAccounts   *)
(* for every number of requests, accounts, social accounts and projects.   *)
EXTENDS SocialAccounts, TLAPS

\* The request has found its social account unregistered and means to
\* register it.
Registering(r) ==
  \/ pc[r] = "begin" /\ uid[r] = NoUid
  \/ pc[r] \in {"saveIdentity", "linkSelect", "linkSave"}
  \/ "account" \in pending[r]

\* What a request has read stays true, and a transaction that is about to
\* commit has written all that its rows refer to.
RequestsAreSound ==
  \A r \in Request :
    /\ pc[r] # "idle" /\ pc[r] # "unlink" => soc[r] \in Social
    /\ pc[r] \in {"signIn", "begin", "saveIdentity", "saveMember", "commit"} =>
         proj[r] \in Project
    /\ pc[r] = "begin" => uid[r] \in account \cup {NoUid}
    /\ pc[r] = "saveIdentity" => uid[r] \in Uid /\ pending[r] = {"account"}
    /\ pc[r] \in {"saveMember", "commit"} =>
         uid[r] \in account \/ (uid[r] \in Uid /\ "account" \in pending[r])
    /\ "identity" \in pending[r] => "account" \in pending[r]
    /\ pending[r] # {} => pc[r] \in {"saveIdentity", "saveMember", "commit"}
    /\ pc[r] = "saveMember" /\ seen[r] # NoUid => <<proj[r], uid[r]>> \in member
    /\ pc[r] = "commit" =>
         "member" \in pending[r] \/ <<proj[r], uid[r]>> \in member
    /\ pc[r] \in {"linkSelect", "linkSave"} => uid[r] \in account
    /\ pc[r] = "unlink" => uid[r] \in account

\* A request whose social account has been registered since it looked is
\* overtaken.
RegisteringIsOvertaken ==
  \A r \in Request :
    Registering(r) /\ identity[soc[r]] # NoUid => r \in overtaken

Ind ==
  /\ TypeOK
  /\ RowsNameAccounts
  /\ AccountsAreMembers
  /\ SessionsAreForMembers
  /\ RequestsAreSound
  /\ RegisteringIsOvertaken

-----------------------------------------------------------------------------
(* The invariant is inductive                                              *)

\* The empty database and idle requests.
LEMMA InitInd == Init => Ind
  BY SocialAssumption
  DEF Init, Ind, TypeOK, RowsNameAccounts, AccountsAreMembers,
      SessionsAreForMembers, RequestsAreSound, RegisteringIsOvertaken,
      Registering, Written

\* The parts of Ind that are about tables only.
LEMMA TablesKept ==
  ASSUME Ind, UNCHANGED <<tables, issued>>
  PROVE  RowsNameAccounts' /\ AccountsAreMembers' /\ SessionsAreForMembers'
  BY DEF Ind, tables, RowsNameAccounts, AccountsAreMembers, SessionsAreForMembers

\* A request that ends without having written leaves everything in order.
LEMMA EndKeepsInd ==
  ASSUME Ind, NEW r \in Request, Finish(r), overtaken' = overtaken \ {r},
         UNCHANGED <<tables, issued, unlinked, alone>>
  PROVE  Ind'
<1> USE SocialAssumption
<1>1. TypeOK'
  BY DEF Ind, TypeOK, Finish, Goto, tables
<1>2. RowsNameAccounts' /\ AccountsAreMembers' /\ SessionsAreForMembers'
  BY TablesKept
<1>3. RequestsAreSound'
  BY DEF Ind, TypeOK, RequestsAreSound, Finish, Goto, tables
<1>4. RegisteringIsOvertaken'
  BY DEF Ind, TypeOK, RegisteringIsOvertaken, Registering, Finish, Goto, tables
<1> QED BY <1>1, <1>2, <1>3, <1>4 DEF Ind

\* Each action keeps the invariant.
LEMMA NextInd == Ind /\ [Next]_vars => Ind'
<1> SUFFICES ASSUME Ind, [Next]_vars PROVE Ind'
  OBVIOUS
<1> USE SocialAssumption
<1>1. ASSUME NEW r \in Request, NEW p \in Project, NEW s \in Social, SignInRead(r, p, s)
      PROVE  Ind'
  <2>1. TypeOK'
    BY <1>1 DEF Ind, TypeOK, RequestsAreSound, SignInRead, Start, Goto, tables,
       history
  <2>2. RowsNameAccounts' /\ AccountsAreMembers' /\ SessionsAreForMembers'
    BY <1>1, TablesKept DEF SignInRead, Start, history
  <2>3. RequestsAreSound'
    BY <1>1 DEF Ind, TypeOK, RowsNameAccounts, RequestsAreSound,
       SignInRead, Start, Goto, tables, history
  <2>4. RegisteringIsOvertaken'
    BY <1>1 DEF Ind, TypeOK, RequestsAreSound, RegisteringIsOvertaken,
       Registering, SignInRead, Start, Goto, tables, history
  <2> QED BY <2>1, <2>2, <2>3, <2>4 DEF Ind
<1>2. ASSUME NEW r \in Request, NEW p \in Project, NEW s \in Social, SignUpRead(r, p, s)
      PROVE  Ind'
  <2>1. TypeOK'
    BY <1>2 DEF Ind, TypeOK, RequestsAreSound, SignUpRead, Start, Goto, tables,
       history
  <2>2. RowsNameAccounts' /\ AccountsAreMembers' /\ SessionsAreForMembers'
    BY <1>2, TablesKept DEF SignUpRead, Start, history
  <2>3. RequestsAreSound'
    BY <1>2 DEF Ind, TypeOK, RowsNameAccounts, RequestsAreSound,
       SignUpRead, Start, Goto, tables, history
  <2>4. RegisteringIsOvertaken'
    BY <1>2 DEF Ind, TypeOK, RequestsAreSound, RegisteringIsOvertaken,
       Registering, SignUpRead, Start, Goto, tables, history
  <2> QED BY <2>1, <2>2, <2>3, <2>4 DEF Ind
<1>3. ASSUME NEW r \in Request, NEW u \in Uid, BeginNew(r, u)
      PROVE  Ind'
  <2>1. TypeOK'
    BY <1>3 DEF Ind, TypeOK, RequestsAreSound, BeginNew, Goto, tables,
       history, Written, Unused
  <2>2. RowsNameAccounts' /\ AccountsAreMembers' /\ SessionsAreForMembers'
    BY <1>3, TablesKept DEF BeginNew, history
  <2>3. RequestsAreSound'
    BY <1>3 DEF Ind, TypeOK, RowsNameAccounts, RequestsAreSound, BeginNew,
       Goto, tables, history, Written, Unused
  <2>4. RegisteringIsOvertaken'
    BY <1>3 DEF Ind, TypeOK, RequestsAreSound, RegisteringIsOvertaken,
       Registering, BeginNew, Goto, tables, history, Written, Unused
  <2> QED BY <2>1, <2>2, <2>3, <2>4 DEF Ind
<1>4. ASSUME NEW r \in Request, NEW u \in Uid, UnlinkCheck(r, u)
      PROVE  Ind'
  <2>1. TypeOK'
    BY <1>4 DEF Ind, TypeOK, RequestsAreSound, UnlinkCheck, Start, Goto, tables,
       history
  <2>2. RowsNameAccounts' /\ AccountsAreMembers' /\ SessionsAreForMembers'
    BY <1>4, TablesKept DEF UnlinkCheck, Start, history
  <2>3. RequestsAreSound'
    BY <1>4 DEF Ind, TypeOK, RowsNameAccounts, RequestsAreSound,
       UnlinkCheck, Start, Goto, tables, history
  <2>4. RegisteringIsOvertaken'
    BY <1>4 DEF Ind, TypeOK, RequestsAreSound, RegisteringIsOvertaken,
       Registering, UnlinkCheck, Start, Goto, tables, history
  <2> QED BY <2>1, <2>2, <2>3, <2>4 DEF Ind
<1>5. ASSUME NEW r \in Request, NEW u \in Uid, NEW s \in Social, LinkRead(r, u, s)
      PROVE  Ind'
  <2>1. TypeOK'
    BY <1>5 DEF Ind, TypeOK, RequestsAreSound, LinkRead, Start, Goto, tables,
       history
  <2>2. RowsNameAccounts' /\ AccountsAreMembers' /\ SessionsAreForMembers'
    BY <1>5, TablesKept DEF LinkRead, Start, history
  <2>3. RequestsAreSound'
    BY <1>5 DEF Ind, TypeOK, RowsNameAccounts, RequestsAreSound, LinkRead,
       Start, Goto, tables, history
  <2>4. RegisteringIsOvertaken'
    BY <1>5 DEF Ind, TypeOK, RequestsAreSound, RegisteringIsOvertaken,
       Registering, LinkRead, Start, Goto, tables, history
  <2> QED BY <2>1, <2>2, <2>3, <2>4 DEF Ind
<1>6. ASSUME NEW r \in Request, SignInNotMember(r)
      PROVE  Ind'
  BY <1>6, EndKeepsInd DEF SignInNotMember
<1>7. ASSUME NEW r \in Request, SignInAnswer(r)
      PROVE  Ind'
  <2>1. TypeOK'
    BY <1>7 DEF Ind, TypeOK, RequestsAreSound, SignInAnswer, Finish, Goto,
       tables
  <2>2. RowsNameAccounts'
    BY <1>7 DEF Ind, TypeOK, RowsNameAccounts, RequestsAreSound,
       SignInAnswer, Finish, Goto, tables
  <2>3. AccountsAreMembers'
    BY <1>7 DEF Ind, TypeOK, AccountsAreMembers, RequestsAreSound,
       SignInAnswer, Finish, Goto, tables
  <2>4. SessionsAreForMembers'
    BY <1>7 DEF Ind, TypeOK, SessionsAreForMembers, RequestsAreSound,
       SignInAnswer, Finish, Goto, tables
  <2>5. RequestsAreSound'
    BY <1>7 DEF Ind, TypeOK, RowsNameAccounts, RequestsAreSound,
       SignInAnswer, Finish, Goto, tables
  <2>6. RegisteringIsOvertaken'
    BY <1>7 DEF Ind, TypeOK, RequestsAreSound, RegisteringIsOvertaken,
       Registering, SignInAnswer, Finish, Goto, tables
  <2> QED BY <2>1, <2>2, <2>3, <2>4, <2>5, <2>6 DEF Ind
<1>8. ASSUME NEW r \in Request, BeginJoin(r)
      PROVE  Ind'
  <2>1. TypeOK'
    BY <1>8 DEF Ind, TypeOK, RequestsAreSound, BeginJoin, Goto, tables,
       history
  <2>2. RowsNameAccounts' /\ AccountsAreMembers' /\ SessionsAreForMembers'
    BY <1>8, TablesKept DEF BeginJoin, history
  <2>3. RequestsAreSound'
    BY <1>8 DEF Ind, TypeOK, RowsNameAccounts, RequestsAreSound,
       BeginJoin, Goto, tables, history
  <2>4. RegisteringIsOvertaken'
    BY <1>8 DEF Ind, TypeOK, RequestsAreSound, RegisteringIsOvertaken,
       Registering, BeginJoin, Goto, tables, history
  <2> QED BY <2>1, <2>2, <2>3, <2>4 DEF Ind
<1>9. ASSUME NEW r \in Request, SaveIdentity(r)
      PROVE  Ind'
  <2>1. TypeOK'
    BY <1>9 DEF Ind, TypeOK, RequestsAreSound, SaveIdentity, Goto, tables,
       history, Written
  <2>2. RowsNameAccounts' /\ AccountsAreMembers' /\ SessionsAreForMembers'
    BY <1>9, TablesKept DEF SaveIdentity, history
  <2>3. RequestsAreSound'
    BY <1>9 DEF Ind, TypeOK, RowsNameAccounts, RequestsAreSound,
       SaveIdentity, Goto, tables, history, Written
  <2>4. RegisteringIsOvertaken'
    BY <1>9 DEF Ind, TypeOK, RequestsAreSound, RegisteringIsOvertaken,
       Registering, SaveIdentity, Goto, tables, history, Written
  <2> QED BY <2>1, <2>2, <2>3, <2>4 DEF Ind
<1>10. ASSUME NEW r \in Request, SaveMember(r)
       PROVE  Ind'
  <2>1. TypeOK'
    BY <1>10 DEF Ind, TypeOK, RequestsAreSound, SaveMember, Goto, tables,
       history, Written
  <2>2. RowsNameAccounts' /\ AccountsAreMembers' /\ SessionsAreForMembers'
    BY <1>10, TablesKept DEF SaveMember, history
  <2>3. RequestsAreSound'
    BY <1>10 DEF Ind, TypeOK, RowsNameAccounts, RequestsAreSound,
       SaveMember, Goto, tables, history, Written
  <2>4. RegisteringIsOvertaken'
    BY <1>10 DEF Ind, TypeOK, RequestsAreSound, RegisteringIsOvertaken,
       Registering, SaveMember, Goto, tables, history, Written
  <2> QED BY <2>1, <2>2, <2>3, <2>4 DEF Ind
<1>11. ASSUME NEW r \in Request, Duplicate(r)
       PROVE  Ind'
  BY <1>11, EndKeepsInd DEF Duplicate
<1>12. ASSUME NEW r \in Request, SignUpCommit(r)
       PROVE  Ind'
  <2>a. /\ soc[r] \in Social /\ proj[r] \in Project /\ uid[r] \in Uid
        /\ uid[r] \in account'
    BY <1>12 DEF Ind, TypeOK, RequestsAreSound, SignUpCommit
  <2>1. TypeOK'
    <3>1. /\ account' \in SUBSET Uid
          /\ member' \in SUBSET (Project \X Uid)
          /\ issued' \in SUBSET (Project \X Uid)
          /\ overtaken' \in SUBSET Request
      BY <1>12, <2>a DEF Ind, TypeOK, SignUpCommit, Overtakes
    <3>2. identity' \in [Social -> Uid \cup {NoUid}]
      BY <1>12, <2>a DEF Ind, TypeOK, SignUpCommit
    <3>3. QED
      BY <1>12, <3>1, <3>2 DEF Ind, TypeOK, SignUpCommit, Finish, Goto
  <2>2. RowsNameAccounts'
    <3>1. account \subseteq account'
      BY <1>12 DEF SignUpCommit
    <3>2. \A s \in Social : identity'[s] \in {identity[s], uid[r]}
      BY <1>12 DEF Ind, TypeOK, SignUpCommit
    <3>3. member' \subseteq member \cup {<<proj[r], uid[r]>>}
      BY <1>12 DEF SignUpCommit
    <3>4. QED
      BY <1>12, <2>a, <3>1, <3>2, <3>3 DEF Ind, RowsNameAccounts, SignUpCommit
  <2>3. AccountsAreMembers'
    BY <1>12 DEF Ind, TypeOK, AccountsAreMembers, RequestsAreSound,
       SignUpCommit, Finish, Goto, Overtakes, Written
  <2>4. SessionsAreForMembers'
    BY <1>12 DEF Ind, TypeOK, SessionsAreForMembers, RequestsAreSound,
       SignUpCommit, Finish, Goto, Overtakes, Written
  <2>5. RequestsAreSound'
    BY <1>12 DEF Ind, TypeOK, RowsNameAccounts, RequestsAreSound,
       SignUpCommit, Finish, Goto, Overtakes, Written
  <2>6. RegisteringIsOvertaken'
    BY <1>12 DEF Ind, TypeOK, RequestsAreSound, RegisteringIsOvertaken,
       Registering, SignUpCommit, Finish, Goto, Overtakes, Written
  <2> QED BY <2>1, <2>2, <2>3, <2>4, <2>5, <2>6 DEF Ind
<1>13. ASSUME NEW r \in Request, LinkSelect(r)
       PROVE  Ind'
  <2>1. TypeOK'
    BY <1>13 DEF Ind, TypeOK, RequestsAreSound, LinkSelect, Goto, tables,
       history
  <2>2. RowsNameAccounts' /\ AccountsAreMembers' /\ SessionsAreForMembers'
    BY <1>13, TablesKept DEF LinkSelect, history
  <2>3. RequestsAreSound'
    BY <1>13 DEF Ind, TypeOK, RowsNameAccounts, RequestsAreSound,
       LinkSelect, Goto, tables, history
  <2>4. RegisteringIsOvertaken'
    BY <1>13 DEF Ind, TypeOK, RequestsAreSound, RegisteringIsOvertaken,
       Registering, LinkSelect, Goto, tables, history
  <2> QED BY <2>1, <2>2, <2>3, <2>4 DEF Ind
<1>14. ASSUME NEW r \in Request, LinkSave(r)
       PROVE  Ind'
  <2>1. TypeOK'
    BY <1>14 DEF Ind, TypeOK, RequestsAreSound, LinkSave, Finish, Goto,
       Overtakes, SaveWrites
  <2>2. RowsNameAccounts'
    BY <1>14 DEF Ind, TypeOK, RowsNameAccounts, RequestsAreSound,
       LinkSave, Finish, Goto, Overtakes, SaveWrites
  <2>3. AccountsAreMembers'
    BY <1>14 DEF Ind, TypeOK, AccountsAreMembers, RequestsAreSound,
       LinkSave, Finish, Goto, Overtakes, SaveWrites
  <2>4. SessionsAreForMembers'
    BY <1>14 DEF Ind, TypeOK, SessionsAreForMembers, RequestsAreSound,
       LinkSave, Finish, Goto, Overtakes, SaveWrites
  <2>5. RequestsAreSound'
    BY <1>14 DEF Ind, TypeOK, RowsNameAccounts, RequestsAreSound,
       LinkSave, Finish, Goto, Overtakes, SaveWrites
  <2>6. RegisteringIsOvertaken'
    BY <1>14 DEF Ind, TypeOK, RequestsAreSound, RegisteringIsOvertaken,
       Registering, LinkSave, Finish, Goto, Overtakes, SaveWrites
  <2> QED BY <2>1, <2>2, <2>3, <2>4, <2>5, <2>6 DEF Ind
<1>15. ASSUME NEW r \in Request, UnlinkDelete(r)
       PROVE  Ind'
  <2>1. TypeOK'
    BY <1>15 DEF Ind, TypeOK, RequestsAreSound, UnlinkDelete, Finish,
       Goto, Own
  <2>2. RowsNameAccounts'
    BY <1>15 DEF Ind, TypeOK, RowsNameAccounts, RequestsAreSound,
       UnlinkDelete, Finish, Goto, Own
  <2>3. AccountsAreMembers'
    BY <1>15 DEF Ind, TypeOK, AccountsAreMembers, RequestsAreSound,
       UnlinkDelete, Finish, Goto, Own
  <2>4. SessionsAreForMembers'
    BY <1>15 DEF Ind, TypeOK, SessionsAreForMembers, RequestsAreSound,
       UnlinkDelete, Finish, Goto, Own
  <2>5. RequestsAreSound'
    BY <1>15 DEF Ind, TypeOK, RowsNameAccounts, RequestsAreSound,
       UnlinkDelete, Finish, Goto, Own
  <2>6. RegisteringIsOvertaken'
    BY <1>15 DEF Ind, TypeOK, RequestsAreSound, RegisteringIsOvertaken,
       Registering, UnlinkDelete, Finish, Goto, Own
  <2> QED BY <2>1, <2>2, <2>3, <2>4, <2>5, <2>6 DEF Ind
<1>16. ASSUME NEW r \in Request, Fail(r)
       PROVE  Ind'
  BY <1>16, EndKeepsInd DEF Fail
<1>17. ASSUME NEW p \in Project, NEW u \in Uid, NEW lost \in SUBSET emailOwner,
             EmailSignUp(p, u, lost)
      PROVE  Ind'
  <2>1. TypeOK'
    BY <1>17 DEF Ind, TypeOK, RequestsAreSound, EmailSignUp, locals,
       history
  <2>2. RowsNameAccounts'
    BY <1>17 DEF Ind, TypeOK, RowsNameAccounts, RequestsAreSound,
       EmailSignUp, locals, history
  <2>3. AccountsAreMembers'
    BY <1>17 DEF Ind, TypeOK, AccountsAreMembers, RequestsAreSound,
       EmailSignUp, locals, history
  <2>4. SessionsAreForMembers'
    BY <1>17 DEF Ind, TypeOK, SessionsAreForMembers, RequestsAreSound,
       EmailSignUp, locals, history
  <2>5. RequestsAreSound'
    BY <1>17 DEF Ind, TypeOK, RowsNameAccounts, RequestsAreSound,
       EmailSignUp, locals, history
  <2>6. RegisteringIsOvertaken'
    BY <1>17 DEF Ind, TypeOK, RequestsAreSound, RegisteringIsOvertaken,
       Registering, EmailSignUp, locals, history, Unused
  <2> QED BY <2>1, <2>2, <2>3, <2>4, <2>5, <2>6 DEF Ind
<1>18. ASSUME UNCHANGED vars PROVE Ind'
  BY <1>18
  DEF Ind, TypeOK, RowsNameAccounts, AccountsAreMembers, SessionsAreForMembers,
      RequestsAreSound, RegisteringIsOvertaken, Registering, vars, tables, locals,
      history
<1> QED
  BY <1>1, <1>2, <1>3, <1>4, <1>5, <1>6, <1>7, <1>8, <1>9, <1>10, <1>11, <1>12,
     <1>13, <1>14, <1>15, <1>16, <1>17, <1>18
  DEF Next

-----------------------------------------------------------------------------
(* The theorems                                                            *)

\* The inductive invariant holds in every reachable state: what a request has
\* read stays true, and nothing commits a row without the account it names.
THEOREM Invariance == Spec => []Ind
  BY InitInd, NextInd, PTL DEF Spec

\* Every variable keeps its type.
THEOREM TypeCorrect == Spec => []TypeOK
<1>1. Ind => TypeOK
  BY DEF Ind
<1> QED BY <1>1, Invariance, PTL

\* Rows that name a uid name a committed account, though no foreign key says
\* so and sign-ups overlap and fail.
THEOREM NoDanglingRow == Spec => []RowsNameAccounts
<1>1. Ind => RowsNameAccounts
  BY DEF Ind
<1> QED BY <1>1, Invariance, PTL

\* An account commits together with a membership, or not at all.
THEOREM NoAccountAlone == Spec => []AccountsAreMembers
<1>1. Ind => AccountsAreMembers
  BY DEF Ind
<1> QED BY <1>1, Invariance, PTL

\* Social sign-in and sign-up hand out sessions to members only.
THEOREM MembersOnly == Spec => []SessionsAreForMembers
<1>1. Ind => SessionsAreForMembers
  BY DEF Ind
<1> QED BY <1>1, Invariance, PTL

\* A social account that is registered passes to another account only through
\* a sign-up or a link that was overtaken between its first read and its write.
THEOREM NoOtherTakeover == Spec => TakeoverOnlyByOverlap
<1> DEFINE Passes(s) == identity[s] # NoUid /\ identity'[s] \notin {identity[s], NoUid}
           Guilty(s) == \E r \in overtaken : soc[r] = s /\ pc'[r] = "idle"
<1>1. ASSUME Ind, Next, NEW s \in Social, Passes(s)
      PROVE  Guilty(s)
  <2>1. UNCHANGED identity => FALSE
    BY <1>1
  <2>2. PICK r \in Request : SignUpCommit(r) \/ LinkSave(r) \/ UnlinkDelete(r)
    BY <1>1, <2>1
    DEF Next, SignInRead, SignUpRead, BeginNew, UnlinkCheck, LinkRead,
        SignInNotMember, SignInAnswer, BeginJoin, SaveIdentity, SaveMember,
        Duplicate, LinkSelect, Fail, EmailSignUp, tables
  <2>3. CASE SignUpCommit(r)
    <3>1. soc[r] = s /\ "identity" \in pending[r]
      BY <1>1, <2>3 DEF Ind, TypeOK, SignUpCommit
    <3>2. Registering(r)
      BY <1>1, <3>1 DEF Ind, RequestsAreSound, Registering
    <3>3. pc'[r] = "idle"
      BY <1>1, <2>3 DEF Ind, TypeOK, SignUpCommit, Finish, Goto
    <3> QED BY <1>1, <3>1, <3>2, <3>3 DEF Ind, RegisteringIsOvertaken
  <2>4. CASE LinkSave(r)
    <3>1. soc[r] = s
      BY <1>1, <2>4 DEF Ind, TypeOK, LinkSave
    <3>2. Registering(r)
      BY <2>4 DEF LinkSave, Registering
    <3>3. pc'[r] = "idle"
      BY <1>1, <2>4 DEF Ind, TypeOK, LinkSave, Finish, Goto
    <3> QED BY <1>1, <3>1, <3>2, <3>3 DEF Ind, RegisteringIsOvertaken
  <2>5. CASE UnlinkDelete(r)
    BY <1>1, <2>5 DEF UnlinkDelete
  <2> QED BY <2>2, <2>3, <2>4, <2>5
<1>2. ASSUME Ind, [Next]_vars
      PROVE  [\A s \in Social : Passes(s) => Guilty(s)]_vars
  BY <1>1, <1>2
<1> QED BY <1>2, Invariance, PTL DEF Spec, TakeoverOnlyByOverlap

-----------------------------------------------------------------------------
(* Requests one at a time                                                  *)

\* A request at rest is about nothing.
IdleIsBlank == \A r \in Request : pc[r] = "idle" => soc[r] = NoSocial

\* While no two requests have overlapped there is one at most, not overtaken.
LoneRequest == alone =>
  /\ overtaken = {}
  /\ \A q, r \in Request : pc[q] # "idle" /\ pc[r] # "idle" => q = r

\* It writes the identity of the account it creates.
LoneSignUp == alone => \A r \in Request :
  /\ pc[r] = "saveIdentity" => seen[r] = NoUid
  /\ "account" \in pending[r] /\ pc[r] # "saveIdentity" =>
       "identity" \in pending[r]

LoneInd ==
  /\ Ind
  /\ IdleIsBlank
  /\ LoneRequest
  /\ LoneSignUp
  /\ NoOrphan

\* A sign-up or link that was not overtaken finds its social account free.
LEMMA LoneIsFree ==
  ASSUME LoneInd, alone, NEW r \in Request, Registering(r)
  PROVE  identity[soc[r]] = NoUid
  BY DEF LoneInd, LoneRequest, Ind, RegisteringIsOvertaken

\* Starting while nobody else is about keeps a request alone.
LEMMA StartIsLone ==
  ASSUME LoneInd, NEW r \in Request, NEW label, Start(r, label)
  PROVE  LoneRequest'
<1> SUFFICES ASSUME alone' PROVE LoneRequest'
  BY DEF LoneRequest
<1>1. \A q \in Request : pc[q] = "idle"
  BY DEF Start
<1>2. \A q \in Request \ {r} : pc'[q] = "idle"
  BY <1>1 DEF Start, Goto, LoneInd, Ind, TypeOK
<1>3. overtaken' = {}
  BY DEF Start, LoneInd, LoneRequest
<1> QED BY <1>2, <1>3 DEF LoneRequest

\* A lone request that ends has overtaken nobody.
LEMMA FinishIsLone ==
  ASSUME LoneInd, NEW r \in Request, pc[r] # "idle", soc[r] \in Social,
         Finish(r), alone' = alone,
         overtaken' \subseteq overtaken \cup Overtakes(r, soc[r])
  PROVE  LoneRequest'
<1> USE SocialAssumption
<1> SUFFICES ASSUME alone PROVE LoneRequest'
  BY DEF LoneRequest
<1>1. \A q \in Request \ {r} : pc[q] = "idle"
  BY DEF LoneInd, LoneRequest
<1>2. Overtakes(r, soc[r]) = {}
  BY <1>1 DEF Overtakes, LoneInd, IdleIsBlank
<1>3. \A q \in Request : pc'[q] = "idle"
  BY <1>1 DEF Finish, Goto, LoneInd, Ind, TypeOK
<1> QED BY <1>2, <1>3 DEF LoneInd, LoneRequest

LEMMA LoneNext == LoneInd /\ [Next]_vars => LoneInd'
<1> SUFFICES ASSUME LoneInd, [Next]_vars PROVE LoneInd'
  OBVIOUS
<1> USE SocialAssumption
<1>0. Ind'
  BY NextInd DEF LoneInd
<1>1. ASSUME NEW r \in Request, NEW p \in Project, NEW s \in Social,
             SignInRead(r, p, s)
      PROVE  LoneInd'
  <2>1. IdleIsBlank'
    BY <1>1 DEF LoneInd, IdleIsBlank, Ind, TypeOK, SignInRead, Start, Goto,
       tables
  <2>2. LoneRequest'
    BY <1>1, StartIsLone DEF SignInRead
  <2>3. LoneSignUp'
    BY <1>1, LoneIsFree DEF LoneInd, LoneSignUp, Ind, TypeOK,
       RequestsAreSound, Registering, SignInRead, Start, Goto, tables
  <2>4. NoOrphan'
    BY <1>1, LoneIsFree DEF LoneInd, LoneSignUp, NoOrphan, Own, Ind, TypeOK,
       RequestsAreSound, Registering, SignInRead, Start, Goto, tables
  <2> QED BY <1>0, <2>1, <2>2, <2>3, <2>4 DEF LoneInd
<1>2. ASSUME NEW r \in Request, NEW p \in Project, NEW s \in Social,
             SignUpRead(r, p, s)
      PROVE  LoneInd'
  <2>1. IdleIsBlank'
    BY <1>2 DEF LoneInd, IdleIsBlank, Ind, TypeOK, SignUpRead, Start, Goto,
       tables
  <2>2. LoneRequest'
    BY <1>2, StartIsLone DEF SignUpRead
  <2>3. LoneSignUp'
    BY <1>2, LoneIsFree DEF LoneInd, LoneSignUp, Ind, TypeOK,
       RequestsAreSound, Registering, SignUpRead, Start, Goto, tables
  <2>4. NoOrphan'
    BY <1>2, LoneIsFree DEF LoneInd, LoneSignUp, NoOrphan, Own, Ind, TypeOK,
       RequestsAreSound, Registering, SignUpRead, Start, Goto, tables
  <2> QED BY <1>0, <2>1, <2>2, <2>3, <2>4 DEF LoneInd
<1>3. ASSUME NEW r \in Request, NEW u \in Uid,
             BeginNew(r, u)
      PROVE  LoneInd'
  <2>1. IdleIsBlank'
    BY <1>3 DEF LoneInd, IdleIsBlank, Ind, TypeOK, BeginNew, Goto, tables,
       history
  <2>2. LoneRequest'
    BY <1>3 DEF LoneInd, IdleIsBlank, LoneRequest, Ind, TypeOK,
       RequestsAreSound, BeginNew, Goto, tables, history
  <2>3. LoneSignUp'
    BY <1>3, LoneIsFree DEF LoneInd, LoneSignUp, Ind, TypeOK,
       RequestsAreSound, Registering, BeginNew, Goto, tables, history
  <2>4. NoOrphan'
    BY <1>3, LoneIsFree DEF LoneInd, LoneSignUp, NoOrphan, Own, Ind, TypeOK,
       RequestsAreSound, Registering, BeginNew, Goto, tables, history
  <2> QED BY <1>0, <2>1, <2>2, <2>3, <2>4 DEF LoneInd
<1>4. ASSUME NEW r \in Request, NEW u \in Uid,
             UnlinkCheck(r, u)
      PROVE  LoneInd'
  <2>1. IdleIsBlank'
    BY <1>4 DEF LoneInd, IdleIsBlank, Ind, TypeOK, UnlinkCheck, Start, Goto,
       tables
  <2>2. LoneRequest'
    BY <1>4, StartIsLone DEF UnlinkCheck
  <2>3. LoneSignUp'
    BY <1>4, LoneIsFree DEF LoneInd, LoneSignUp, Ind, TypeOK,
       RequestsAreSound, Registering, UnlinkCheck, Start, Goto, tables
  <2>4. NoOrphan'
    BY <1>4, LoneIsFree DEF LoneInd, LoneSignUp, NoOrphan, Own, Ind, TypeOK,
       RequestsAreSound, Registering, UnlinkCheck, Start, Goto, tables
  <2> QED BY <1>0, <2>1, <2>2, <2>3, <2>4 DEF LoneInd
<1>5. ASSUME NEW r \in Request, NEW u \in Uid, NEW s \in Social,
             LinkRead(r, u, s)
      PROVE  LoneInd'
  <2>1. IdleIsBlank'
    BY <1>5 DEF LoneInd, IdleIsBlank, Ind, TypeOK, LinkRead, Start, Goto,
       tables
  <2>2. LoneRequest'
    BY <1>5, StartIsLone DEF LinkRead
  <2>3. LoneSignUp'
    BY <1>5, LoneIsFree DEF LoneInd, LoneSignUp, Ind, TypeOK,
       RequestsAreSound, Registering, LinkRead, Start, Goto, tables
  <2>4. NoOrphan'
    BY <1>5, LoneIsFree DEF LoneInd, LoneSignUp, NoOrphan, Own, Ind, TypeOK,
       RequestsAreSound, Registering, LinkRead, Start, Goto, tables
  <2> QED BY <1>0, <2>1, <2>2, <2>3, <2>4 DEF LoneInd
<1>6. ASSUME NEW r \in Request,
             SignInNotMember(r)
      PROVE  LoneInd'
  <2>1. IdleIsBlank'
    BY <1>6 DEF LoneInd, IdleIsBlank, Ind, TypeOK, SignInNotMember, Finish,
       Goto, tables
  <2>2. LoneRequest'
    BY <1>6 DEF LoneInd, IdleIsBlank, LoneRequest, Ind, TypeOK,
       RequestsAreSound, SignInNotMember, Finish, Goto, tables
  <2>3. LoneSignUp'
    BY <1>6, LoneIsFree DEF LoneInd, LoneSignUp, Ind, TypeOK,
       RequestsAreSound, Registering, SignInNotMember, Finish, Goto, tables
  <2>4. NoOrphan'
    BY <1>6, LoneIsFree DEF LoneInd, LoneSignUp, NoOrphan, Own, Ind, TypeOK,
       RequestsAreSound, Registering, SignInNotMember, Finish, Goto, tables
  <2> QED BY <1>0, <2>1, <2>2, <2>3, <2>4 DEF LoneInd
<1>7. ASSUME NEW r \in Request,
             SignInAnswer(r)
      PROVE  LoneInd'
  <2>1. IdleIsBlank'
    BY <1>7 DEF LoneInd, IdleIsBlank, Ind, TypeOK, SignInAnswer, Finish, Goto,
       tables
  <2>2. LoneRequest'
    BY <1>7 DEF LoneInd, IdleIsBlank, LoneRequest, Ind, TypeOK,
       RequestsAreSound, SignInAnswer, Finish, Goto, tables
  <2>3. LoneSignUp'
    BY <1>7, LoneIsFree DEF LoneInd, LoneSignUp, Ind, TypeOK,
       RequestsAreSound, Registering, SignInAnswer, Finish, Goto, tables
  <2>4. NoOrphan'
    BY <1>7, LoneIsFree DEF LoneInd, LoneSignUp, NoOrphan, Own, Ind, TypeOK,
       RequestsAreSound, Registering, SignInAnswer, Finish, Goto, tables
  <2> QED BY <1>0, <2>1, <2>2, <2>3, <2>4 DEF LoneInd
<1>8. ASSUME NEW r \in Request,
             BeginJoin(r)
      PROVE  LoneInd'
  <2>1. IdleIsBlank'
    BY <1>8 DEF LoneInd, IdleIsBlank, Ind, TypeOK, BeginJoin, Goto, tables,
       history
  <2>2. LoneRequest'
    BY <1>8 DEF LoneInd, IdleIsBlank, LoneRequest, Ind, TypeOK,
       RequestsAreSound, BeginJoin, Goto, tables, history
  <2>3. LoneSignUp'
    BY <1>8, LoneIsFree DEF LoneInd, LoneSignUp, Ind, TypeOK,
       RequestsAreSound, Registering, BeginJoin, Goto, tables, history
  <2>4. NoOrphan'
    BY <1>8, LoneIsFree DEF LoneInd, LoneSignUp, NoOrphan, Own, Ind, TypeOK,
       RequestsAreSound, Registering, BeginJoin, Goto, tables, history
  <2> QED BY <1>0, <2>1, <2>2, <2>3, <2>4 DEF LoneInd
<1>9. ASSUME NEW r \in Request,
             SaveIdentity(r)
      PROVE  LoneInd'
  <2>1. IdleIsBlank'
    BY <1>9 DEF LoneInd, IdleIsBlank, Ind, TypeOK, SaveIdentity, SaveWrites, Goto, tables,
       history
  <2>2. LoneRequest'
    BY <1>9 DEF LoneInd, IdleIsBlank, LoneRequest, Ind, TypeOK,
       RequestsAreSound, SaveIdentity, SaveWrites, Goto, tables, history
  <2>3. LoneSignUp'
    BY <1>9, LoneIsFree DEF LoneInd, LoneSignUp, Ind, TypeOK,
       RequestsAreSound, Registering, SaveIdentity, SaveWrites, Goto, tables, history
  <2>4. NoOrphan'
    BY <1>9, LoneIsFree DEF LoneInd, LoneSignUp, NoOrphan, Own, Ind, TypeOK,
       RequestsAreSound, Registering, SaveIdentity, SaveWrites, Goto, tables, history
  <2> QED BY <1>0, <2>1, <2>2, <2>3, <2>4 DEF LoneInd
<1>10. ASSUME NEW r \in Request,
              SaveMember(r)
       PROVE  LoneInd'
  <2>1. IdleIsBlank'
    BY <1>10 DEF LoneInd, IdleIsBlank, Ind, TypeOK, SaveMember, Goto, tables,
       history
  <2>2. LoneRequest'
    BY <1>10 DEF LoneInd, IdleIsBlank, LoneRequest, Ind, TypeOK,
       RequestsAreSound, SaveMember, Goto, tables, history
  <2>3. LoneSignUp'
    BY <1>10, LoneIsFree DEF LoneInd, LoneSignUp, Ind, TypeOK,
       RequestsAreSound, Registering, SaveMember, Goto, tables, history
  <2>4. NoOrphan'
    BY <1>10, LoneIsFree DEF LoneInd, LoneSignUp, NoOrphan, Own, Ind, TypeOK,
       RequestsAreSound, Registering, SaveMember, Goto, tables, history
  <2> QED BY <1>0, <2>1, <2>2, <2>3, <2>4 DEF LoneInd
<1>11. ASSUME NEW r \in Request,
              Duplicate(r)
       PROVE  LoneInd'
  <2>1. IdleIsBlank'
    BY <1>11 DEF LoneInd, IdleIsBlank, Ind, TypeOK, Duplicate, Finish, Goto,
       tables
  <2>2. LoneRequest'
    BY <1>11 DEF LoneInd, IdleIsBlank, LoneRequest, Ind, TypeOK,
       RequestsAreSound, Duplicate, Finish, Goto, tables
  <2>3. LoneSignUp'
    BY <1>11, LoneIsFree DEF LoneInd, LoneSignUp, Ind, TypeOK,
       RequestsAreSound, Registering, Duplicate, Finish, Goto, tables
  <2>4. NoOrphan'
    BY <1>11, LoneIsFree DEF LoneInd, LoneSignUp, NoOrphan, Own, Ind, TypeOK,
       RequestsAreSound, Registering, Duplicate, Finish, Goto, tables
  <2> QED BY <1>0, <2>1, <2>2, <2>3, <2>4 DEF LoneInd
<1>12. ASSUME NEW r \in Request,
              SignUpCommit(r)
       PROVE  LoneInd'
  <2>1. IdleIsBlank'
    BY <1>12 DEF LoneInd, IdleIsBlank, Ind, TypeOK, SignUpCommit, Finish,
       Goto, Overtakes
  <2>2. LoneRequest'
    BY <1>12, FinishIsLone DEF LoneInd, Ind, RequestsAreSound, SignUpCommit
  <2>3. LoneSignUp'
    BY <1>12, LoneIsFree DEF LoneInd, LoneSignUp, Ind, TypeOK,
       RequestsAreSound, Registering, SignUpCommit, Finish, Goto, Overtakes
  <2>4. NoOrphan'
    <3> SUFFICES ASSUME alone, NEW u \in account'
                 PROVE  Own(u)' # {} \/ u \in emailOwner \/ u \in unlinked
      BY <1>12 DEF SignUpCommit, NoOrphan
    <3>1. soc[r] \in Social /\ pending[r] \subseteq Written
      BY <1>12 DEF LoneInd, Ind, TypeOK, RequestsAreSound, SignUpCommit
    <3>2. CASE "account" \in pending[r]
      <4>1. "identity" \in pending[r]
        BY <1>12, <3>2 DEF LoneInd, LoneSignUp, SignUpCommit
      <4>2. identity[soc[r]] = NoUid
        BY <3>2, LoneIsFree DEF Registering
      <4>3. identity' = [identity EXCEPT ![soc[r]] = uid[r]]
        BY <1>12, <4>1 DEF SignUpCommit
      <4>4. CASE u = uid[r]
        BY <3>1, <4>3, <4>4 DEF Own, LoneInd, Ind, TypeOK
      <4>5. CASE u # uid[r]
        <5>1. u \in account
          BY <1>12, <4>5 DEF SignUpCommit
        <5>2. Own(u) \subseteq Own(u)'
          BY <3>1, <4>2, <4>3, <5>1 DEF Own, LoneInd, Ind, TypeOK
        <5> QED BY <5>1, <5>2 DEF LoneInd, NoOrphan
      <4> QED BY <4>4, <4>5
    <3>3. CASE "account" \notin pending[r]
      BY <1>12, <3>3 DEF SignUpCommit, LoneInd, NoOrphan, Own, Ind, RequestsAreSound
    <3> QED BY <3>2, <3>3
  <2> QED BY <1>0, <2>1, <2>2, <2>3, <2>4 DEF LoneInd
<1>13. ASSUME NEW r \in Request,
              LinkSelect(r)
       PROVE  LoneInd'
  <2>1. IdleIsBlank'
    BY <1>13 DEF LoneInd, IdleIsBlank, Ind, TypeOK, LinkSelect, Goto, tables,
       history
  <2>2. LoneRequest'
    BY <1>13 DEF LoneInd, IdleIsBlank, LoneRequest, Ind, TypeOK,
       RequestsAreSound, LinkSelect, Goto, tables, history
  <2>3. LoneSignUp'
    BY <1>13, LoneIsFree DEF LoneInd, LoneSignUp, Ind, TypeOK,
       RequestsAreSound, Registering, LinkSelect, Goto, tables, history
  <2>4. NoOrphan'
    BY <1>13, LoneIsFree DEF LoneInd, LoneSignUp, NoOrphan, Own, Ind, TypeOK,
       RequestsAreSound, Registering, LinkSelect, Goto, tables, history
  <2> QED BY <1>0, <2>1, <2>2, <2>3, <2>4 DEF LoneInd
<1>14. ASSUME NEW r \in Request,
              LinkSave(r)
       PROVE  LoneInd'
  <2>1. IdleIsBlank'
    BY <1>14 DEF LoneInd, IdleIsBlank, Ind, TypeOK, LinkSave, Finish, Goto,
       Overtakes
  <2>2. LoneRequest'
    BY <1>14, FinishIsLone DEF LoneInd, Ind, RequestsAreSound, LinkSave
  <2>3. LoneSignUp'
    BY <1>14, LoneIsFree DEF LoneInd, LoneSignUp, Ind, TypeOK,
       RequestsAreSound, Registering, LinkSave, Finish, Goto, Overtakes
  <2>4. NoOrphan'
    BY <1>14, LoneIsFree DEF LoneInd, LoneSignUp, NoOrphan, Own, Ind, TypeOK,
       RequestsAreSound, Registering, LinkSave, Finish, Goto, Overtakes
  <2> QED BY <1>0, <2>1, <2>2, <2>3, <2>4 DEF LoneInd
<1>15. ASSUME NEW r \in Request,
              UnlinkDelete(r)
       PROVE  LoneInd'
  <2>1. IdleIsBlank'
    BY <1>15 DEF LoneInd, IdleIsBlank, Ind, TypeOK, UnlinkDelete, Finish, Goto
  <2>2. LoneRequest'
    BY <1>15 DEF LoneInd, IdleIsBlank, LoneRequest, Ind, TypeOK,
       RequestsAreSound, UnlinkDelete, Finish, Goto
  <2>3. LoneSignUp'
    BY <1>15, LoneIsFree DEF LoneInd, LoneSignUp, Ind, TypeOK,
       RequestsAreSound, Registering, UnlinkDelete, Finish, Goto
  <2>4. NoOrphan'
    BY <1>15, LoneIsFree DEF LoneInd, LoneSignUp, NoOrphan, Own, Ind, TypeOK,
       RequestsAreSound, Registering, UnlinkDelete, Finish, Goto
  <2> QED BY <1>0, <2>1, <2>2, <2>3, <2>4 DEF LoneInd
<1>16. ASSUME NEW r \in Request,
              Fail(r)
       PROVE  LoneInd'
  <2>1. IdleIsBlank'
    BY <1>16 DEF LoneInd, IdleIsBlank, Ind, TypeOK, Fail, Finish, Goto, tables
  <2>2. LoneRequest'
    BY <1>16 DEF LoneInd, IdleIsBlank, LoneRequest, Ind, TypeOK,
       RequestsAreSound, Fail, Finish, Goto, tables
  <2>3. LoneSignUp'
    BY <1>16, LoneIsFree DEF LoneInd, LoneSignUp, Ind, TypeOK,
       RequestsAreSound, Registering, Fail, Finish, Goto, tables
  <2>4. NoOrphan'
    BY <1>16, LoneIsFree DEF LoneInd, LoneSignUp, NoOrphan, Own, Ind, TypeOK,
       RequestsAreSound, Registering, Fail, Finish, Goto, tables
  <2> QED BY <1>0, <2>1, <2>2, <2>3, <2>4 DEF LoneInd
<1>17. ASSUME NEW p \in Project, NEW u \in Uid, NEW lost \in SUBSET emailOwner,
              EmailSignUp(p, u, lost)
       PROVE  LoneInd'
  BY <1>0, <1>17 DEF LoneInd, IdleIsBlank, LoneRequest, LoneSignUp, NoOrphan, Own,
      EmailSignUp, locals
<1>18. ASSUME UNCHANGED vars PROVE LoneInd'
  BY <1>0, <1>18 DEF LoneInd, IdleIsBlank, LoneRequest, LoneSignUp, NoOrphan, Own,
     vars, tables, locals, history
<1> QED
  BY <1>1, <1>2, <1>3, <1>4, <1>5, <1>6, <1>7, <1>8, <1>9, <1>10, <1>11, <1>12,
     <1>13, <1>14, <1>15, <1>16, <1>17, <1>18
  DEF Next

THEOREM LoneInvariance == Spec => []LoneInd
<1>1. Init => LoneInd
  BY InitInd
  DEF Init, LoneInd, IdleIsBlank, LoneRequest, LoneSignUp, NoOrphan
<1> QED BY <1>1, LoneNext, PTL DEF Spec

\* Until two requests have overlapped, every account can be signed in to unless
\* its owner has unlinked, whatever fails in between.
THEOREM NoneOrphaned == Spec => []NoOrphan
<1>1. LoneInd => NoOrphan
  BY DEF LoneInd
<1> QED BY <1>1, LoneInvariance, PTL

\* Until two requests have overlapped, a registered social account leads to the
\* same account until that account unlinks.
THEOREM SignInStable == Spec => SignInIsStable
<1> DEFINE Stays(s) == identity[s] # NoUid =>
             \/ identity'[s] = identity[s]
             \/ identity'[s] = NoUid /\ identity[s] \in unlinked'
<1>1. ASSUME LoneInd, Next, alone', NEW s \in Social
      PROVE  Stays(s)
  <2>1. CASE UNCHANGED identity
    BY <2>1
  <2>2. CASE ~UNCHANGED identity
    <3>1. PICK r \in Request : SignUpCommit(r) \/ LinkSave(r) \/ UnlinkDelete(r)
      BY <1>1, <2>2
      DEF Next, SignInRead, SignUpRead, BeginNew, UnlinkCheck, LinkRead,
          SignInNotMember, SignInAnswer, BeginJoin, SaveIdentity, SaveMember,
          Duplicate, LinkSelect, Fail, EmailSignUp, tables
    <3>2. alone
      BY <1>1, <3>1 DEF SignUpCommit, LinkSave, UnlinkDelete
    <3>3. CASE SignUpCommit(r)
      <4>1. "identity" \in pending[r] /\ identity' = [identity EXCEPT ![soc[r]] = uid[r]]
        BY <2>2, <3>3 DEF SignUpCommit
      <4>2. Registering(r)
        BY <1>1, <4>1 DEF LoneInd, Ind, RequestsAreSound, Registering
      <4> QED BY <1>1, <3>2, <4>1, <4>2, LoneIsFree DEF LoneInd, Ind, TypeOK
    <3>4. CASE LinkSave(r)
      <4>1. identity[soc[r]] = NoUid
        BY <1>1, <3>2, <3>4, LoneIsFree DEF LinkSave, Registering
      <4> QED BY <1>1, <3>4, <4>1 DEF LinkSave, LoneInd, Ind, TypeOK
    <3>5. CASE UnlinkDelete(r)
      BY <1>1, <3>5 DEF UnlinkDelete, Own
    <3> QED BY <3>1, <3>3, <3>4, <3>5
  <2> QED BY <2>1, <2>2
<1>2. ASSUME LoneInd, [Next]_vars
      PROVE  [alone' => \A s \in Social : Stays(s)]_vars
  BY <1>1, <1>2
<1> QED BY <1>2, LoneInvariance, PTL DEF Spec, SignInIsStable

\* An unlink that nobody has overlapped has counted the login methods there are.
CountStands ==
  alone => \A r \in Request : pc[r] = "unlink" =>
    Cardinality(Own(uid[r])) > 1 \/ uid[r] \in emailOwner

\* While an unlink is the only request, it ends or an email sign-up commits.
LEMMA UnlinkIsAlone ==
  ASSUME LoneInd, Next, alone', NEW r \in Request, pc[r] = "unlink"
  PROVE  \/ UnlinkDelete(r) \/ Fail(r)
         \/ /\ UNCHANGED <<identity, pc, uid, alone>> /\ emailOwner \subseteq emailOwner'
<1>1. ASSUME NEW q \in Request, NEW label, Start(q, label) PROVE FALSE
  BY <1>1 DEF Start
<1>2. ASSUME NEW q \in Request, pc[q] # "idle", alone PROVE q = r
  BY <1>2 DEF LoneInd, LoneRequest
<1>3. ASSUME NEW p \in Project, NEW u \in Uid, NEW lost \in SUBSET emailOwner,
             EmailSignUp(p, u, lost)
      PROVE  UNCHANGED <<identity, pc, uid, alone>> /\ emailOwner \subseteq emailOwner'
  BY <1>3 DEF EmailSignUp, locals, LoneInd, Ind, TypeOK
<1>4. ASSUME NEW q \in Request,
             \/ SignInNotMember(q) \/ SignInAnswer(q) \/ BeginJoin(q) \/ SaveIdentity(q)
             \/ SaveMember(q) \/ Duplicate(q) \/ SignUpCommit(q) \/ LinkSelect(q)
             \/ LinkSave(q) \/ \E u \in Uid : BeginNew(q, u)
      PROVE  FALSE
  <2>1. pc[q] # "idle" /\ pc[q] # "unlink" /\ alone
    BY <1>4 DEF SignInNotMember, SignInAnswer, BeginJoin, SaveIdentity, SaveMember,
       Duplicate, SignUpCommit, LinkSelect, LinkSave, BeginNew, history
  <2> QED BY <1>2, <2>1
<1>5. ASSUME NEW q \in Request, UnlinkDelete(q) \/ Fail(q) PROVE q = r
  BY <1>2, <1>5 DEF UnlinkDelete, Fail
<1>6. ASSUME NEW q \in Request, NEW s \in Social,
             \/ \E p \in Project : SignInRead(q, p, s) \/ SignUpRead(q, p, s)
             \/ \E u \in Uid : LinkRead(q, u, s)
      PROVE  FALSE
  BY <1>1, <1>6 DEF SignInRead, SignUpRead, LinkRead
<1>7. ASSUME NEW q \in Request, NEW u \in Uid, UnlinkCheck(q, u) PROVE FALSE
  BY <1>1, <1>7 DEF UnlinkCheck
<1> QED BY <1>3, <1>4, <1>5, <1>6, <1>7 DEF Next

LEMMA CountStandsNext == LoneInd /\ CountStands /\ [Next]_vars => CountStands'
<1> SUFFICES ASSUME LoneInd, CountStands, [Next]_vars, alone',
                    NEW r \in Request, pc'[r] = "unlink"
             PROVE  (Cardinality(Own(uid[r])) > 1 \/ uid[r] \in emailOwner)'
  BY DEF CountStands
<1>1. CASE UNCHANGED vars
  BY <1>1 DEF CountStands, Own, vars, tables, locals, history
<1>2. CASE Next /\ pc[r] = "unlink"
  <2>1. UNCHANGED <<identity, pc, uid, alone>> /\ emailOwner \subseteq emailOwner'
    BY <1>2, UnlinkIsAlone DEF UnlinkDelete, Fail, Finish, Goto, LoneInd, Ind, TypeOK
  <2> QED BY <1>2, <2>1 DEF CountStands, Own
<1>3. CASE Next /\ pc[r] # "unlink"
  <2>1. PICK u \in Uid : UnlinkCheck(r, u)
    BY <1>3 DEF Next, SignInRead, SignUpRead, BeginNew, UnlinkCheck, LinkRead,
       SignInNotMember, SignInAnswer, BeginJoin, SaveIdentity, SaveMember, Duplicate,
       SignUpCommit, LinkSelect, LinkSave, UnlinkDelete, Fail, EmailSignUp, locals,
       Start, Finish, Goto, LoneInd, Ind, TypeOK
  <2> QED BY <2>1 DEF UnlinkCheck, Own, tables, LoneInd, Ind, TypeOK
<1> QED BY <1>1, <1>2, <1>3

\* Until two requests have overlapped, an unlink that takes the only identity of
\* an account leaves it its email.
THEOREM SoleLoginKept == Spec => SoleLoginIsKept
<1> DEFINE Keeps(r) == alone' /\ pc[r] = "unlink" /\ pc'[r] = "idle" =>
             LET u == uid[r] IN
               Cardinality(Own(u)) = 1 /\ (\A s \in Own(u) : identity'[s] = NoUid) =>
                 u \in emailOwner'
<1>1. ASSUME LoneInd, CountStands, Next, NEW r \in Request
      PROVE  Keeps(r)
  <2> SUFFICES ASSUME alone', pc[r] = "unlink", pc'[r] = "idle",
                      Cardinality(Own(uid[r])) = 1
               PROVE  uid[r] \in emailOwner'
    OBVIOUS
  <2>1. alone /\ emailOwner \subseteq emailOwner'
    BY <1>1, UnlinkIsAlone DEF UnlinkDelete, Fail, tables
  <2> QED BY <1>1, <2>1 DEF CountStands
<1>2. ASSUME LoneInd, CountStands, [Next]_vars
      PROVE  [\A r \in Request : Keeps(r)]_vars
  BY <1>1, <1>2
<1>3. Init => CountStands
  BY DEF Init, CountStands
<1> QED
  BY <1>2, <1>3, CountStandsNext, LoneInvariance, PTL DEF Spec, SoleLoginIsKept
=============================================================================

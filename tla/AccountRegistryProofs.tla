------------------------ MODULE AccountRegistryProofs ------------------------
(***************************************************************************)
(* As long as no two requests have overlapped, SocialAccounts implements    *)
(* AccountRegistry: what the handlers do in several statements and in a     *)
(* transaction is one step of the registry, and what fails is none.         *)
(***************************************************************************)
EXTENDS SocialAccountsProofs

\* What a request has read and what holds until it writes: the account it signs in
\* to or joins with, that this account has not joined yet, that the account it
\* inserts is new, and that there is something to unlink.
Reads(r) ==
  /\ pc[r] = "signIn" => identity[soc[r]] = uid[r]
  /\ /\ pc[r] \in {"begin", "saveMember", "commit"}
     /\ uid[r] # NoUid /\ "account" \notin pending[r]
     => identity[soc[r]] = uid[r] /\ <<proj[r], uid[r]>> \notin member
  /\ "account" \in pending[r] => uid[r] \notin account
  /\ pc[r] = "unlink" => Own(uid[r]) # {}

\* Nobody overlaps it, so it holds.
LoneReads == alone => \A r \in Request : Reads(r)

RegistryInd == LoneInd /\ LoneReads /\ CountStands

-----------------------------------------------------------------------------
(* The invariant is inductive                                              *)

\* Only a request that is under way has read anything.
LEMMA OneReads ==
  ASSUME LoneInd', NEW r \in Request,
         \A q \in Request \ {r} : pc'[q] = "idle",
         pc'[r] # "idle" => Reads(r)'
  PROVE  LoneReads'
<1>1. \A q \in Request : pc'[q] = "idle" => Reads(q)'
  BY DEF LoneInd, Ind, RequestsAreSound, Reads
<1> QED BY <1>1 DEF LoneReads

\* A request that starts, goes on or ends is the only one.
LEMMA OthersIdle ==
  ASSUME LoneInd, alone', NEW r \in Request,
         \/ \E label : Start(r, label)
         \/ alone' = alone /\ pc[r] # "idle"
               /\ (Finish(r) \/ \E label : Goto(r, label))
  PROVE  alone /\ \A q \in Request \ {r} : pc[q] = "idle" /\ pc'[q] = "idle"
<1>1. CASE \E label : Start(r, label)
  BY <1>1 DEF Start, Goto, LoneInd, Ind, TypeOK
<1>2. CASE alone' = alone /\ pc[r] # "idle" /\ (Finish(r) \/ \E label : Goto(r, label))
  <2>1. \A q \in Request \ {r} : pc[q] = "idle"
    BY <1>2 DEF LoneInd, LoneRequest
  <2> QED BY <1>2, <2>1 DEF Finish, Goto, LoneInd, Ind, TypeOK
<1> QED BY <1>1, <1>2

LEMMA EndReads ==
  ASSUME LoneInd, LoneInd', alone', NEW r \in Request, pc[r] # "idle", Finish(r), alone' = alone
  PROVE  LoneReads'
<1>1. pc'[r] = "idle"
  BY DEF Finish, Goto, LoneInd, Ind, TypeOK
<1> QED BY <1>1, OthersIdle, OneReads

\* An email sign-up takes a uid nobody has and tells no request anything.
LEMMA EmailSignUpReads ==
  ASSUME LoneInd, LoneReads, alone', NEW p \in Project, NEW u \in Uid,
         NEW lost \in SUBSET emailOwner, EmailSignUp(p, u, lost)
  PROVE  LoneReads'
<1> USE SocialAssumption
<1> SUFFICES ASSUME NEW r \in Request PROVE Reads(r)'
  BY DEF LoneReads
<1>1. /\ Reads(r) /\ UNCHANGED <<identity, pc, soc, proj, uid, pending>>
      /\ account' = account \cup {u} /\ member' = member \cup {<<p, u>>}
      /\ u \in Unused
  BY DEF EmailSignUp, locals, LoneReads
<1>2. "account" \in pending[r] => uid[r] \notin account'
  <2>1. "account" \in pending[r] => uid[r] # u
    BY <1>1 DEF Unused
  <2> QED BY <1>1, <2>1 DEF Reads
<1>3. ASSUME pc[r] \in {"begin", "saveMember", "commit"}, uid[r] # NoUid,
             "account" \notin pending[r]
      PROVE  <<proj[r], uid[r]>> \notin member'
  <2>1. soc[r] \in Social /\ identity[soc[r]] = uid[r] /\ <<proj[r], uid[r]>> \notin member
    BY <1>1, <1>3 DEF Reads, LoneInd, Ind, RequestsAreSound
  <2>2. uid[r] # u
    BY <1>1, <1>3, <2>1 DEF LoneInd, Ind, RowsNameAccounts, Unused
  <2> QED BY <1>1, <2>1, <2>2
<1> QED BY <1>1, <1>2, <1>3 DEF Reads, Own

LEMMA NextReads == LoneInd /\ LoneInd' /\ LoneReads /\ [Next]_vars => LoneReads'
<1> USE SocialAssumption
<1> SUFFICES ASSUME LoneInd, LoneInd', LoneReads, [Next]_vars, alone'
             PROVE  LoneReads'
  BY DEF LoneReads
<1>1. ASSUME NEW r \in Request, NEW p \in Project, NEW s \in Social, SignInRead(r, p, s)
      PROVE  LoneReads'
  <2>1. Reads(r)'
    BY <1>1 DEF SignInRead, Start, Goto, tables, Reads, LoneInd, Ind, TypeOK, RequestsAreSound
  <2> QED BY <1>1, <2>1, OthersIdle, OneReads DEF SignInRead
<1>2. ASSUME NEW r \in Request, NEW p \in Project, NEW s \in Social, SignUpRead(r, p, s)
      PROVE  LoneReads'
  <2>1. Reads(r)'
    BY <1>2 DEF SignUpRead, Start, Goto, tables, Reads, LoneInd, Ind, TypeOK, RequestsAreSound
  <2> QED BY <1>2, <2>1, OthersIdle, OneReads DEF SignUpRead
<1>3. ASSUME NEW r \in Request, NEW u \in Uid, BeginNew(r, u)
      PROVE  LoneReads'
  <2>1. Reads(r)'
    BY <1>3 DEF BeginNew, Goto, tables, Reads, Unused, LoneInd, Ind, TypeOK
  <2> QED BY <1>3, <2>1, OthersIdle, OneReads DEF BeginNew, history
<1>4. ASSUME NEW r \in Request, NEW u \in Uid, UnlinkCheck(r, u)
      PROVE  LoneReads'
  <2>1. Reads(r)'
    <3>1. /\ pc'[r] = "unlink" /\ uid'[r] = u /\ pending'[r] = {}
          /\ Own(u) # {} /\ identity' = identity
      BY <1>4 DEF UnlinkCheck, Start, Goto, tables, LoneInd, Ind, TypeOK, RequestsAreSound
    <3> QED BY <3>1 DEF Reads, Own
  <2> QED BY <1>4, <2>1, OthersIdle, OneReads DEF UnlinkCheck
<1>5. ASSUME NEW r \in Request, NEW u \in Uid, NEW s \in Social, LinkRead(r, u, s)
      PROVE  LoneReads'
  <2>1. Reads(r)'
    BY <1>5 DEF LinkRead, Start, Goto, tables, Reads, LoneInd, Ind, TypeOK, RequestsAreSound
  <2> QED BY <1>5, <2>1, OthersIdle, OneReads DEF LinkRead
<1>6. ASSUME NEW r \in Request,
             \/ SignInNotMember(r) \/ SignInAnswer(r) \/ Duplicate(r) \/ SignUpCommit(r)
             \/ LinkSave(r) \/ UnlinkDelete(r) \/ Fail(r)
      PROVE  LoneReads'
  <2>1. pc[r] # "idle" /\ Finish(r) /\ alone' = alone
    BY <1>6 DEF SignInNotMember, SignInAnswer, Duplicate, SignUpCommit, LinkSave,
                UnlinkDelete, Fail
  <2> QED BY <2>1, EndReads
<1>7. ASSUME NEW r \in Request,
             \/ BeginJoin(r) \/ SaveIdentity(r) \/ SaveMember(r) \/ LinkSelect(r)
      PROVE  LoneReads'
  <2>1. pc[r] # "idle" /\ alone' = alone /\ \E label : Goto(r, label)
    BY <1>7 DEF BeginJoin, SaveIdentity, SaveMember, LinkSelect, history
  <2>2. Reads(r)
    BY <2>1 DEF LoneReads
  <2>3. Reads(r)'
    <3>1. CASE BeginJoin(r)
      BY <2>2, <3>1 DEF BeginJoin, Goto, tables, Reads, LoneInd, Ind, TypeOK, RequestsAreSound
    <3>2. CASE SaveIdentity(r)
      BY <2>2, <3>2 DEF SaveIdentity, Goto, tables, Reads, LoneInd, Ind, TypeOK,
                        RequestsAreSound
    <3>3. CASE SaveMember(r)
      BY <2>2, <3>3 DEF SaveMember, Goto, tables, Reads, LoneInd, Ind, TypeOK
    <3>4. CASE LinkSelect(r)
      BY <2>2, <3>4 DEF LinkSelect, Goto, tables, Reads, LoneInd, Ind, TypeOK
    <3> QED BY <1>7, <3>1, <3>2, <3>3, <3>4
  <2> QED BY <2>1, <2>3, OthersIdle, OneReads
<1>8. ASSUME UNCHANGED vars PROVE LoneReads'
  BY <1>8 DEF LoneReads, Reads, Own, vars, tables, locals, history
<1> QED BY <1>1, <1>2, <1>3, <1>4, <1>5, <1>6, <1>7, <1>8, EmailSignUpReads DEF Next

THEOREM RegistryInvariance == Spec => []RegistryInd
<1>1. Init => LoneReads /\ CountStands
  BY DEF Init, LoneReads, Reads, CountStands
<1>2. LoneInd /\ LoneInd' /\ LoneReads /\ CountStands /\ [Next]_vars
        => LoneReads' /\ CountStands'
  BY NextReads, CountStandsNext
<1> QED BY <1>1, <1>2, LoneInvariance, PTL DEF Spec, RegistryInd

-----------------------------------------------------------------------------
(* The registry's steps                                                    *)

Unseen == UNCHANGED Registry!vars

LEMMA SignInRegistry ==
  ASSUME RegistryInd, alone, NEW r \in Request, SignInAnswer(r)
  PROVE  Registry!Next
<1>1. /\ pc[r] = "signIn" /\ <<proj[r], uid[r]>> \in member /\ uid[r] \in account
      /\ issued' = issued \cup {<<proj[r], uid[r]>>}
      /\ UNCHANGED <<account, identity, member, emailOwner, unlinked>>
  BY DEF SignInAnswer, tables
<1>2. soc[r] \in Social /\ proj[r] \in Project /\ identity[soc[r]] = uid[r] /\ uid[r] # NoUid
  BY <1>1, SocialAssumption
  DEF RegistryInd, LoneInd, Ind, TypeOK, RequestsAreSound, LoneReads, Reads
<1>3. Registry!SignIn(proj[r], soc[r])
  BY <1>1, <1>2 DEF Registry!SignIn
<1> QED BY <1>2, <1>3 DEF Registry!Next

\* The transaction of a sign-up commits as one step: with a new account it writes
\* all three tables, for a known one the membership only.
LEMMA SignUpRegistry ==
  ASSUME RegistryInd, alone, NEW r \in Request, SignUpCommit(r)
  PROVE  Registry!Next
<1> USE SocialAssumption
<1>1. /\ pc[r] = "commit"
      /\ account' = IF "account" \in pending[r] THEN account \cup {uid[r]} ELSE account
      /\ identity' = IF "identity" \in pending[r]
                     THEN [identity EXCEPT ![soc[r]] = uid[r]] ELSE identity
      /\ member' = IF "member" \in pending[r]
                   THEN member \cup {<<proj[r], uid[r]>>} ELSE member
      /\ issued' = issued \cup {<<proj[r], uid[r]>>}
      /\ UNCHANGED <<emailOwner, unlinked>>
  BY DEF SignUpCommit
<1>2. /\ soc[r] \in Social /\ proj[r] \in Project
      /\ uid[r] \in account \/ (uid[r] \in Uid /\ "account" \in pending[r])
      /\ "identity" \in pending[r] => "account" \in pending[r]
      /\ "member" \in pending[r] \/ <<proj[r], uid[r]>> \in member
      /\ account \subseteq Uid
  BY <1>1 DEF RegistryInd, LoneInd, Ind, TypeOK, RequestsAreSound
<1>3. Reads(r)
  BY DEF RegistryInd, LoneReads
<1>4. CASE "account" \in pending[r]
  <2>1. "identity" \in pending[r] /\ identity[soc[r]] = NoUid
    <3>1. Registering(r)
      BY <1>4 DEF Registering
    <3> QED BY <1>1, <1>4, <3>1, LoneIsFree DEF RegistryInd, LoneInd, LoneSignUp
  <2>2. uid[r] \in Uid \ account
    BY <1>2, <1>3, <1>4 DEF Reads
  <2>3. <<proj[r], uid[r]>> \notin member
    BY <2>2 DEF RegistryInd, LoneInd, Ind, RowsNameAccounts
  <2>4. Registry!SignUp(proj[r], soc[r], uid[r])
    BY <1>1, <1>2, <1>4, <2>1, <2>2, <2>3 DEF Registry!SignUp
  <2> QED BY <1>2, <2>2, <2>4 DEF Registry!Next
<1>5. CASE "account" \notin pending[r]
  <2>1. uid[r] # NoUid
    BY <1>2, <1>5
  <2>2. identity[soc[r]] = uid[r] /\ <<proj[r], uid[r]>> \notin member
    BY <1>1, <1>3, <1>5, <2>1 DEF Reads
  <2>3. Registry!Join(proj[r], soc[r])
    BY <1>1, <1>2, <1>5, <2>1, <2>2 DEF Registry!Join
  <2> QED BY <1>2, <2>3 DEF Registry!Next
<1> QED BY <1>4, <1>5

LEMMA LinkRegistry ==
  ASSUME RegistryInd, alone, NEW r \in Request, LinkSave(r)
  PROVE  Registry!Next \/ Unseen
<1>1. /\ pc[r] = "linkSave"
      /\ identity' = IF SaveWrites(r) THEN [identity EXCEPT ![soc[r]] = uid[r]] ELSE identity
      /\ UNCHANGED <<account, member, emailOwner, issued, unlinked>>
  BY DEF LinkSave
<1>2. /\ soc[r] \in Social /\ uid[r] \in account /\ account \subseteq Uid
      /\ identity[soc[r]] = NoUid
  BY <1>1, LoneIsFree DEF RegistryInd, LoneInd, Ind, TypeOK, RequestsAreSound, Registering
<1>3. CASE SaveWrites(r)
  <2>1. Registry!Link(uid[r], soc[r])
    BY <1>1, <1>2, <1>3 DEF Registry!Link
  <2> QED BY <1>2, <2>1 DEF Registry!Next
<1>4. CASE ~SaveWrites(r)
  BY <1>1, <1>4 DEF Unseen, Registry!vars
<1> QED BY <1>3, <1>4

LEMMA UnlinkRegistry ==
  ASSUME RegistryInd, alone, NEW r \in Request, UnlinkDelete(r)
  PROVE  Registry!Next
<1>1. /\ pc[r] = "unlink"
      /\ identity' = [s \in Social |-> IF s \in Own(uid[r]) THEN NoUid ELSE identity[s]]
      /\ unlinked' = unlinked \cup {uid[r]}
      /\ UNCHANGED <<account, member, emailOwner, issued>>
  BY DEF UnlinkDelete
<1>2. uid[r] \in account /\ account \subseteq Uid
  BY <1>1 DEF RegistryInd, LoneInd, Ind, TypeOK, RequestsAreSound
<1>3. Own(uid[r]) # {} /\ (Cardinality(Own(uid[r])) > 1 \/ uid[r] \in emailOwner)
  BY <1>1 DEF RegistryInd, LoneReads, Reads, CountStands
<1>4. Registry!Linked(uid[r]) = Own(uid[r])
  BY DEF Registry!Linked, Own
<1>5. /\ Registry!Linked(uid[r]) # {}
      /\ Cardinality(Registry!Linked(uid[r])) > 1 \/ uid[r] \in emailOwner
  BY <1>3, <1>4
<1>6. identity' = [s \in Social |-> IF s \in Registry!Linked(uid[r]) THEN NoUid
                                    ELSE identity[s]]
  BY <1>1, <1>4
<1>7. \A S : Registry!Cardinality(S) = Cardinality(S)
  BY DEF Registry!Cardinality, Cardinality
<1>8. Registry!Unlink(uid[r])
  BY <1>1, <1>2, <1>5, <1>6, <1>7 DEF Registry!Unlink
<1> QED BY <1>2, <1>8 DEF Registry!Next

LEMMA EmailSignUpRegistry ==
  ASSUME alone', NEW p \in Project, NEW u \in Uid, NEW lost \in SUBSET emailOwner,
         EmailSignUp(p, u, lost)
  PROVE  Registry!Next
<1>1. Registry!EmailSignUp(p, u)
  BY DEF EmailSignUp, Unused, Registry!EmailSignUp
<1> QED BY <1>1 DEF Registry!Next

\* What only reads, writes inside a transaction or fails.
LEMMA UnseenSteps ==
  ASSUME NEW r \in Request,
         \/ \E p \in Project, s \in Social : SignInRead(r, p, s) \/ SignUpRead(r, p, s)
         \/ \E u \in Uid : BeginNew(r, u) \/ UnlinkCheck(r, u)
                           \/ \E s \in Social : LinkRead(r, u, s)
         \/ SignInNotMember(r) \/ BeginJoin(r) \/ SaveIdentity(r) \/ SaveMember(r)
         \/ Duplicate(r) \/ LinkSelect(r) \/ Fail(r)
  PROVE  Unseen
  BY DEF SignInRead, SignUpRead, BeginNew, UnlinkCheck, LinkRead, SignInNotMember, BeginJoin,
         SaveIdentity, SaveMember, Duplicate, LinkSelect, Fail, Start, tables, history,
         Unseen, Registry!vars

LEMMA StepKeepsRegistry ==
  ASSUME RegistryInd, [Next]_vars, alone'
  PROVE  Registry!Next \/ Unseen
<1>1. ASSUME NEW r \in Request,
             SignInAnswer(r) \/ SignUpCommit(r) \/ LinkSave(r) \/ UnlinkDelete(r)
      PROVE  Registry!Next \/ Unseen
  <2>1. alone
    BY <1>1 DEF SignInAnswer, SignUpCommit, LinkSave, UnlinkDelete
  <2> QED BY <1>1, <2>1, SignInRegistry, SignUpRegistry, LinkRegistry, UnlinkRegistry
<1>2. CASE UNCHANGED vars
  BY <1>2 DEF Unseen, Registry!vars, vars, tables, history
<1> QED BY <1>1, <1>2, EmailSignUpRegistry, UnseenSteps DEF Next

\* Until two requests have overlapped, whatever the handlers do and wherever they
\* fail, the tables and the sessions change by the registry's steps only.
THEOREM RegistryKept == Spec => KeepsRegistry
<1>1. RegistryInd /\ [Next]_vars => [alone' => Registry!Next \/ UNCHANGED Registry!vars]_vars
  BY StepKeepsRegistry DEF Unseen
<1> QED BY <1>1, RegistryInvariance, PTL DEF Spec, KeepsRegistry

\* Requests that come one at a time, email sign-ups aside.
AloneSpec == Init /\ [][Next /\ alone']_vars

\* Such requests implement the registry: no client can tell the handlers from it.
THEOREM AloneImplementsRegistry == AloneSpec => Registry!Spec
<1>1. Init => Registry!Init
  BY DEF Init, Registry!Init
<1>2. RegistryInd /\ [Next /\ alone']_vars => [Registry!Next]_(Registry!vars)
  <2>1. ASSUME UNCHANGED vars PROVE UNCHANGED Registry!vars
    BY <2>1 DEF Registry!vars, vars, tables, history
  <2> QED BY <2>1, StepKeepsRegistry DEF Unseen
<1>3. AloneSpec => Spec
  <2>1. [Next /\ alone']_vars => [Next]_vars
    OBVIOUS
  <2> QED BY <2>1, PTL DEF AloneSpec, Spec
<1> QED BY <1>1, <1>2, <1>3, RegistryInvariance, PTL DEF AloneSpec, Registry!Spec
=============================================================================

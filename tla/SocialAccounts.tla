--------------------------- MODULE SocialAccounts ---------------------------
(***************************************************************************)
(* Accounts and their social identities: AccountService (signInWithSocial, *)
(* signUpWithSocial) and LinkService (linkSocial, unlinkSocial) over the   *)
(* MySQL tables account, identity and project_account.  identity_properties,*)
(* which no handler reads, is left out.                                    *)
(*                                                                         *)
(* Every SQL statement whose result can differ when another request runs   *)
(* before it is a step.  Statements that read what no request ever removes *)
(* (accounts, memberships) are taken together with a neighbour.  An early  *)
(* return that changes nothing is the guard of its step being false.  The  *)
(* endpoints pass Provider.GOOGLE only, so providerUserId names a row of   *)
(* identity.  The database runs at READ COMMITTED, as my.cnf sets it.      *)
(***************************************************************************)
EXTENDS Naturals, FiniteSets

CONSTANTS
  Request,    \* concurrently running handler invocations
  Uid,        \* internal account identifiers, drawn by AUTO_INCREMENT
  Social,     \* social accounts: values of providerUserId
  Project,    \* registered projects
  NoUid, NoSocial, NoProject

ASSUME SocialAssumption ==
  /\ NoUid \notin Uid
  /\ NoSocial \notin Social
  /\ NoProject \notin Project

VARIABLES
  account,     \* table account: the committed uids
  identity,    \* table identity: the uid of each social account, or none
  member,      \* table project_account: <<project, uid>>
  emailOwner,  \* uids that table email_identity names
  pc,          \* where each request stands
  soc,         \* the social account a request is about
  proj,        \* its project
  uid,         \* the uid it has read, or has inserted
  seen,        \* the uid of the row that `save' has selected, or none
  pending,     \* tables an open transaction has written a row of
  \* History, read by properties only:
  issued,      \* sessions handed out: <<project, uid>>
  unlinked,    \* accounts whose owner has unlinked
  overtaken,   \* running requests whose identity row another request wrote
  alone        \* no two requests, nor email sign-ups of one address, have overlapped

tables == <<account, identity, member, emailOwner>>
locals == <<pc, soc, proj, uid, seen, pending>>
history == <<issued, unlinked, overtaken, alone>>
vars == <<tables, locals, history>>

Written == {"account", "identity", "member"}

TypeOK ==
  /\ account \in SUBSET Uid
  /\ identity \in [Social -> Uid \cup {NoUid}]
  /\ member \in SUBSET (Project \X Uid)
  /\ emailOwner \in SUBSET Uid
  /\ pc \in [Request -> {"idle", "signIn", "begin", "saveIdentity", "saveMember",
                         "commit", "linkSelect", "linkSave", "unlink"}]
  /\ soc \in [Request -> Social \cup {NoSocial}]
  /\ proj \in [Request -> Project \cup {NoProject}]
  /\ uid \in [Request -> Uid \cup {NoUid}]
  /\ seen \in [Request -> Uid \cup {NoUid}]
  /\ pending \in [Request -> SUBSET Written]
  /\ issued \in SUBSET (Project \X Uid)
  /\ unlinked \in SUBSET Uid
  /\ overtaken \in SUBSET Request
  /\ alone \in BOOLEAN

Init ==
  /\ account = {}
  /\ identity = [s \in Social |-> NoUid]
  /\ member = {}
  /\ emailOwner = {}
  /\ pc = [r \in Request |-> "idle"]
  /\ soc = [r \in Request |-> NoSocial]
  /\ proj = [r \in Request |-> NoProject]
  /\ uid = [r \in Request |-> NoUid]
  /\ seen = [r \in Request |-> NoUid]
  /\ pending = [r \in Request |-> {}]
  /\ issued = {}
  /\ unlinked = {}
  /\ overtaken = {}
  /\ alone = TRUE

-----------------------------------------------------------------------------
(* Shared by the handlers                                                  *)

Goto(r, label) == pc' = [pc EXCEPT ![r] = label]

\* A request starts.
Start(r, label) ==
  /\ pc[r] = "idle"
  /\ Goto(r, label)
  /\ alone' = (alone /\ \A q \in Request : pc[q] = "idle")
  /\ UNCHANGED <<issued, unlinked, overtaken>>

\* The request ends: answered, refused or, with its open transaction, rolled
\* back.
Finish(r) ==
  /\ Goto(r, "idle")
  /\ soc' = [soc EXCEPT ![r] = NoSocial]
  /\ proj' = [proj EXCEPT ![r] = NoProject]
  /\ uid' = [uid EXCEPT ![r] = NoUid]
  /\ seen' = [seen EXCEPT ![r] = NoUid]
  /\ pending' = [pending EXCEPT ![r] = {}]

\* Rows that another open transaction has written are locked until it ends.
IdentityLocked(r) ==
  \E q \in Request \ {r} : "identity" \in pending[q] /\ soc[q] = soc[r]
MemberLocked(r) ==
  \E q \in Request \ {r} :
    "member" \in pending[q] /\ <<proj[q], uid[q]>> = <<proj[r], uid[r]>>

\* Repository.save of an identity row, after its SELECT has set `seen': the
\* INSERT of a row it did not find fails on a duplicate key, ...
InsertCollides(r) == seen[r] = NoUid /\ identity[soc[r]] # NoUid
\* ... and the UPDATE of a row it found with another uid writes nothing when
\* the row has gone since.
SaveWrites(r) ==
  IF seen[r] = NoUid THEN TRUE
  ELSE seen[r] # uid[r] /\ identity[soc[r]] # NoUid

\* A write of the identity row of s overtakes the other requests about s.
Overtakes(r, s) == {q \in Request \ {r} : soc[q] = s}

\* AUTO_INCREMENT: a uid no account has and no open transaction has inserted.
\* The uid of a rolled-back insert, which nothing refers to, may come again.
Unused == Uid \ (account \cup {uid[r] : r \in {q \in Request : pending[q] # {}}})

Own(u) == {s \in Social : identity[s] = u}

-----------------------------------------------------------------------------
(* signInWithSocial                                                        *)

SignInRead(r, p, s) ==
  /\ identity[s] # NoUid
  /\ soc' = [soc EXCEPT ![r] = s]
  /\ proj' = [proj EXCEPT ![r] = p]
  /\ uid' = [uid EXCEPT ![r] = identity[s]]
  /\ Start(r, "signIn")
  /\ UNCHANGED <<tables, seen, pending>>

\* Not a member of the project: 404.
SignInNotMember(r) ==
  /\ pc[r] = "signIn"
  /\ <<proj[r], uid[r]>> \notin member
  /\ Finish(r)
  /\ overtaken' = overtaken \ {r}
  /\ UNCHANGED <<tables, issued, unlinked, alone>>

\* Mutant: the pair is recorded the wrong way round.
SignInAnswerSwapped(r) ==
  /\ pc[r] = "signIn"
  /\ <<proj[r], uid[r]>> \in member
  /\ uid[r] \in account
  /\ issued' = issued \cup {<<uid[r], proj[r]>>}
  /\ Finish(r)
  /\ overtaken' = overtaken \ {r}
  /\ UNCHANGED <<tables, unlinked, alone>>

\* Mutant: membership of the project is not looked up.
SignInAnswerAnyProject(r) ==
  /\ pc[r] = "signIn"
  /\ uid[r] \in account
  /\ issued' = issued \cup {<<proj[r], uid[r]>>}
  /\ Finish(r)
  /\ overtaken' = overtaken \ {r}
  /\ UNCHANGED <<tables, unlinked, alone>>

\* Update the login date, find the account and answer with a session for it.
SignInAnswer(r) ==
  /\ pc[r] = "signIn"
  /\ <<proj[r], uid[r]>> \in member
  /\ uid[r] \in account
  /\ issued' = issued \cup {<<proj[r], uid[r]>>}
  /\ Finish(r)
  /\ overtaken' = overtaken \ {r}
  /\ UNCHANGED <<tables, unlinked, alone>>

-----------------------------------------------------------------------------
(* signUpWithSocial                                                        *)

\* Mutant: an identity known from another project is taken for a new one.
SignUpReadAlwaysNew(r, p, s) ==
  /\ identity[s] # NoUid => <<p, identity[s]>> \notin member
  /\ soc' = [soc EXCEPT ![r] = s]
  /\ proj' = [proj EXCEPT ![r] = p]
  /\ Start(r, "begin")
  /\ UNCHANGED <<tables, uid, seen, pending>>

\* Find the identity and, if there is one, its membership: 409 if there is.
SignUpRead(r, p, s) ==
  /\ identity[s] # NoUid => <<p, identity[s]>> \notin member
  /\ soc' = [soc EXCEPT ![r] = s]
  /\ proj' = [proj EXCEPT ![r] = p]
  /\ uid' = [uid EXCEPT ![r] = identity[s]]
  /\ Start(r, "begin")
  /\ UNCHANGED <<tables, seen, pending>>

\* Mutant: the account is saved by its own repository, not by the
\* transaction's manager.
BeginNewOutside(r, u) ==
  /\ pc[r] = "begin"
  /\ uid[r] = NoUid
  /\ u \in Unused
  /\ uid' = [uid EXCEPT ![r] = u]
  /\ seen' = [seen EXCEPT ![r] = identity[soc[r]]]
  /\ account' = account \cup {u}
  /\ Goto(r, "saveIdentity")
  /\ UNCHANGED <<identity, member, emailOwner, soc, proj, pending, history>>

\* A new account: BEGIN, INSERT the account, and the SELECT of `save'.
BeginNew(r, u) ==
  /\ pc[r] = "begin"
  /\ uid[r] = NoUid
  /\ u \in Unused
  /\ uid' = [uid EXCEPT ![r] = u]
  /\ seen' = [seen EXCEPT ![r] = identity[soc[r]]]
  /\ pending' = [pending EXCEPT ![r] = {"account"}]
  /\ Goto(r, "saveIdentity")
  /\ UNCHANGED <<tables, soc, proj, history>>

\* A known account joins another project: BEGIN, and the SELECT of `save'.
BeginJoin(r) ==
  /\ pc[r] = "begin"
  /\ uid[r] # NoUid
  /\ seen' = [seen EXCEPT ![r] = IF <<proj[r], uid[r]>> \in member
                                 THEN uid[r] ELSE NoUid]
  /\ Goto(r, "saveMember")
  /\ UNCHANGED <<tables, soc, proj, uid, pending, history>>

\* Mutant: the identity is saved by its own repository.
SaveIdentityOutside(r) ==
  /\ pc[r] = "saveIdentity"
  /\ ~InsertCollides(r)
  /\ identity' = IF SaveWrites(r) THEN [identity EXCEPT ![soc[r]] = uid[r]]
                 ELSE identity
  /\ seen' = [seen EXCEPT ![r] = NoUid]
  /\ Goto(r, "saveMember")
  /\ UNCHANGED <<account, member, emailOwner, soc, proj, uid, pending, history>>

SaveIdentity(r) ==
  /\ pc[r] = "saveIdentity"
  /\ ~IdentityLocked(r)
  /\ ~InsertCollides(r)
  /\ pending' = [pending EXCEPT ![r] =
                   IF SaveWrites(r) THEN @ \cup {"identity"} ELSE @]
  /\ seen' = [seen EXCEPT ![r] = NoUid]
  /\ Goto(r, "saveMember")
  /\ UNCHANGED <<tables, soc, proj, uid, history>>

\* Mutant: the membership is only saved for an account that joins a project.
SaveMemberOfJoining(r) ==
  /\ pc[r] = "saveMember"
  /\ ~MemberLocked(r)
  /\ seen[r] = NoUid => <<proj[r], uid[r]>> \notin member
  /\ pending' = [pending EXCEPT ![r] =
                   IF seen[r] = NoUid /\ pending[r] = {} THEN {"member"} ELSE @]
  /\ Goto(r, "commit")
  /\ UNCHANGED <<tables, soc, proj, uid, seen, history>>

SaveMember(r) ==
  /\ pc[r] = "saveMember"
  /\ ~MemberLocked(r)
  /\ seen[r] = NoUid => <<proj[r], uid[r]>> \notin member
  /\ pending' = [pending EXCEPT ![r] =
                   IF seen[r] = NoUid THEN @ \cup {"member"} ELSE @]
  /\ Goto(r, "commit")
  /\ UNCHANGED <<tables, soc, proj, uid, seen, history>>

\* An INSERT on a key that was committed after the SELECT: the transaction, or
\* the single statement of a link, fails.
Duplicate(r) ==
  /\ \/ /\ pc[r] \in {"saveIdentity", "linkSave"}
        /\ ~IdentityLocked(r)
        /\ InsertCollides(r)
     \/ /\ pc[r] = "saveMember"
        /\ ~MemberLocked(r)
        /\ seen[r] = NoUid /\ <<proj[r], uid[r]>> \in member
  /\ Finish(r)
  /\ overtaken' = overtaken \ {r}
  /\ UNCHANGED <<tables, issued, unlinked, alone>>

\* COMMIT, and answer with a session for the uid.
SignUpCommit(r) ==
  /\ pc[r] = "commit"
  /\ account' = IF "account" \in pending[r] THEN account \cup {uid[r]} ELSE account
  /\ identity' = IF "identity" \in pending[r]
                 THEN [identity EXCEPT ![soc[r]] = uid[r]] ELSE identity
  /\ member' = IF "member" \in pending[r]
               THEN member \cup {<<proj[r], uid[r]>>} ELSE member
  /\ issued' = issued \cup {<<proj[r], uid[r]>>}
  /\ overtaken' = (overtaken \cup IF "identity" \in pending[r]
                                  THEN Overtakes(r, soc[r]) ELSE {}) \ {r}
  /\ Finish(r)
  /\ UNCHANGED <<emailOwner, unlinked, alone>>

-----------------------------------------------------------------------------
(* linkSocial and unlinkSocial, for the account of the bearer token.  Any  *)
(* account may hold one: a social sign-up is answered with a token, an     *)
(* email sign-up gets one on verification.                                 *)

\* Mutant: a link to another account is not refused.
LinkReadUnchecked(r, u, s) ==
  /\ u \in account
  /\ soc' = [soc EXCEPT ![r] = s]
  /\ uid' = [uid EXCEPT ![r] = u]
  /\ Start(r, "linkSelect")
  /\ UNCHANGED <<tables, proj, seen, pending>>

\* Find the account and the identity: 400 if it is linked to another account,
\* nothing to do if it is linked to this one.
LinkRead(r, u, s) ==
  /\ u \in account
  /\ identity[s] = NoUid
  /\ soc' = [soc EXCEPT ![r] = s]
  /\ uid' = [uid EXCEPT ![r] = u]
  /\ Start(r, "linkSelect")
  /\ UNCHANGED <<tables, proj, seen, pending>>

LinkSelect(r) ==
  /\ pc[r] = "linkSelect"
  /\ seen' = [seen EXCEPT ![r] = identity[soc[r]]]
  /\ Goto(r, "linkSave")
  /\ UNCHANGED <<tables, soc, proj, uid, pending, history>>

LinkSave(r) ==
  /\ pc[r] = "linkSave"
  /\ ~IdentityLocked(r)
  /\ ~InsertCollides(r)
  /\ identity' = IF SaveWrites(r) THEN [identity EXCEPT ![soc[r]] = uid[r]]
                 ELSE identity
  /\ overtaken' = (overtaken \cup IF SaveWrites(r)
                                  THEN Overtakes(r, soc[r]) ELSE {}) \ {r}
  /\ Finish(r)
  /\ UNCHANGED <<account, member, emailOwner, issued, unlinked, alone>>

\* Mutant: the login methods are not counted.
UnlinkUnchecked(r, u) ==
  /\ u \in account
  /\ Own(u) # {}
  /\ uid' = [uid EXCEPT ![r] = u]
  /\ Start(r, "unlink")
  /\ UNCHANGED <<tables, soc, proj, seen, pending>>

\* Find an identity of the account (404 if none), count them, look for an email
\* identity: 400 unless two or more remain to choose from.
UnlinkCheck(r, u) ==
  /\ u \in account
  /\ Own(u) # {}
  /\ Cardinality(Own(u)) > 1 \/ u \in emailOwner
  /\ uid' = [uid EXCEPT ![r] = u]
  /\ Start(r, "unlink")
  /\ UNCHANGED <<tables, soc, proj, seen, pending>>

\* DELETE every identity of the account and the provider; it scans the
\* provider's rows and waits for those an open transaction has written.
UnlinkDelete(r) ==
  /\ pc[r] = "unlink"
  /\ \A q \in Request : "identity" \notin pending[q]
  /\ identity' = [s \in Social |-> IF s \in Own(uid[r]) THEN NoUid ELSE identity[s]]
  /\ unlinked' = unlinked \cup {uid[r]}
  /\ Finish(r)
  /\ UNCHANGED <<account, member, emailOwner, issued, overtaken, alone>>

-----------------------------------------------------------------------------
(* The environment                                                         *)

\* EmailSignupService.signUp commits an account with an email identity and a
\* membership at once.  When it overlaps another sign-up of the same address
\* its `save' re-points the row, and the accounts in `lost' have none any more.
EmailSignUp(p, u, lost) ==
  /\ u \in Unused
  /\ Cardinality(lost) <= 1
  /\ account' = account \cup {u}
  /\ emailOwner' = (emailOwner \ lost) \cup {u}
  /\ member' = member \cup {<<p, u>>}
  /\ alone' = (alone /\ lost = {})
  /\ UNCHANGED <<identity, locals, issued, unlinked, overtaken>>

\* A statement is rejected or the process dies: an open transaction is rolled
\* back, what autocommitted stays.
Fail(r) ==
  /\ pc[r] # "idle"
  /\ Finish(r)
  /\ overtaken' = overtaken \ {r}
  /\ UNCHANGED <<tables, issued, unlinked, alone>>

Next ==
  \/ \E r \in Request, p \in Project, s \in Social :
       SignInRead(r, p, s) \/ SignUpRead(r, p, s)
  \/ \E r \in Request, u \in Uid :
       \/ BeginNew(r, u)
       \/ UnlinkCheck(r, u)
       \/ \E s \in Social : LinkRead(r, u, s)
  \/ \E r \in Request :
       \/ SignInNotMember(r) \/ SignInAnswer(r)
       \/ BeginJoin(r) \/ SaveIdentity(r) \/ SaveMember(r)
       \/ Duplicate(r) \/ SignUpCommit(r)
       \/ LinkSelect(r) \/ LinkSave(r)
       \/ UnlinkDelete(r) \/ Fail(r)
  \/ \E p \in Project, u \in Uid, lost \in SUBSET emailOwner :
       EmailSignUp(p, u, lost)

Spec == Init /\ [][Next]_vars

-----------------------------------------------------------------------------
(* What holds however the requests overlap                                 *)

\* No foreign keys guard the tables: every row that names a uid names a
\* committed account, through rolled-back sign-ups and overlapping writes.
RowsNameAccounts ==
  /\ \A s \in Social : identity[s] # NoUid => identity[s] \in account
  /\ \A m \in member : m[2] \in account
  /\ emailOwner \subseteq account

\* Sign-up creates an account together with its first membership, or not at
\* all: no committed account is without a project.
AccountsAreMembers == \A u \in account : \E p \in Project : <<p, u>> \in member

\* A session is only handed out for a committed account that is a member of the
\* project it signs in to.
SessionsAreForMembers == issued \subseteq member /\ \A i \in issued : i[2] \in account

\* A registered social account passes to another account only by a request
\* that another one overtook: whose first read found it unregistered.
TakeoverOnlyByOverlap ==
  [][\A s \in Social :
       identity[s] # NoUid /\ identity'[s] \notin {identity[s], NoUid} =>
         \E r \in overtaken : soc[r] = s /\ pc'[r] = "idle"]_vars

-----------------------------------------------------------------------------
(* What holds as long as requests come one at a time                       *)

\* A registered social account leads to the same account until that account
\* unlinks, whatever signs up, joins another project, links or fails.
SignInIsStable ==
  [][alone' => \A s \in Social : identity[s] # NoUid =>
       \/ identity'[s] = identity[s]
       \/ identity'[s] = NoUid /\ identity[s] \in unlinked']_vars

\* Every account can be signed in to, unless its owner has unlinked: failed
\* sign-ups leave no account behind and no other request takes its identity.
NoOrphan ==
  alone => \A u \in account : Own(u) # {} \/ u \in emailOwner \/ u \in unlinked

\* An unlink that deletes the one identity an account has leaves it its email:
\* the sole way to sign in is never removed.
SoleLoginIsKept ==
  [][\A r \in Request : alone' /\ pc[r] = "unlink" /\ pc'[r] = "idle" =>
       LET u == uid[r] IN
         Cardinality(Own(u)) = 1 /\ (\A s \in Own(u) : identity'[s] = NoUid) =>
           u \in emailOwner']_vars

Registry == INSTANCE AccountRegistry

\* As long as no two requests have overlapped, the statements and transactions of
\* the handlers, whatever fails between them, do what the registry does at once: a
\* request shows in the tables and in sessions as one of its steps, or not at all.
KeepsRegistry == [][alone' => Registry!Next \/ UNCHANGED Registry!vars]_vars

-----------------------------------------------------------------------------
(* What the comments of link.service.ts say                                *)

\* "If the social account is already linked to another account,
\* BadRequestException": a link never takes one over.
LinkNeverTakesOver ==
  [][\A r \in Request :
       pc[r] = "linkSave" /\ pc'[r] = "idle" /\ identity[soc[r]] # NoUid =>
         identity'[soc[r]] = identity[soc[r]]]_vars

\* "At least one login method must remain", counting social and email
\* identities: not even one request at a time leaves its account with neither.
UnlinkKeepsLoginMethod ==
  [][\A r \in Request : alone' /\ pc[r] = "unlink" /\ pc'[r] = "idle" =>
       LET u == uid[r] IN
         \/ u \in emailOwner
         \/ Own(u) = {}
         \/ \E s \in Social : identity'[s] = u]_vars
=============================================================================

---------------------------- MODULE EmailAccounts ----------------------------
(***************************************************************************)
(* Email accounts: EmailSignupService.signUp, EmailService (verify, resend) *)
(* and EmailSigninService.signIn over the MySQL tables account,            *)
(* email_identity and project_account.                                     *)
(*                                                                         *)
(* Every SQL statement whose result can differ when another request runs   *)
(* before it is a step; `hash' is the bcrypt of the password.  An early     *)
(* return that changes nothing is the guard of its step being false.  A    *)
(* password stands for its bcrypt hash, lastLoginDate, which nothing reads, *)
(* is left out.  The database runs at READ COMMITTED, as my.cnf sets it.   *)
(***************************************************************************)
EXTENDS Naturals, FiniteSets

CONSTANTS
  Request,    \* concurrently running handler invocations
  Uid,        \* internal account identifiers, drawn by AUTO_INCREMENT
  Email,      \* email addresses
  Password,
  Code,       \* verification codes; a code may be drawn more than once
  Project,    \* registered projects
  NoUid, NoEmail, NoCode, NoProject, NoRow,
  Window,     \* VERIFICATION_EXPIRE_MINUTES, in units of the clock
  MaxNow      \* bound of the clock

ASSUME EmailAssumption ==
  /\ NoUid \notin Uid /\ NoEmail \notin Email
  /\ NoCode \notin Code /\ NoProject \notin Project
  /\ Window \in Nat \ {0} /\ MaxNow \in Nat

\* A row of email_identity: EmailIdentityEntity.
Row == [uid : Uid, password : Password, verified : BOOLEAN,
        code : Code \cup {NoCode}, until : 0 .. MaxNow + Window]

ASSUME RowAssumption == NoRow \notin Row

VARIABLES
  account,    \* table account: the committed uids
  email,      \* table email_identity: the row of each address, or none
  member,     \* table project_account: <<project, uid>>
  now,        \* the clock
  pc,         \* where each request stands
  addr,       \* the address it is about
  proj,       \* the project of its path
  uid,        \* the uid it has read
  draft,      \* the row a sign-up saves
  found,      \* whether the SELECT of its `save' found a row
  letter,     \* the code a request is about to mail
  \* History, read by properties only:
  issued,     \* sessions handed out: project, uid and address used
  proved,     \* accounts whose row was read with its code and in time
  mailbox,    \* the code mailed last to each address, or none
  unsent,     \* addresses whose last code was stored and never mailed
  contended   \* addresses two requests have been about at the same time

tables == <<account, email, member>>
locals == <<pc, addr, proj, uid, draft, found, letter>>
history == <<issued, proved, mailbox, unsent, contended>>
vars == <<tables, now, locals, history>>

TypeOK ==
  /\ account \in SUBSET Uid
  /\ email \in [Email -> Row \cup {NoRow}]
  /\ member \in SUBSET (Project \X Uid)
  /\ now \in 0 .. MaxNow
  /\ pc \in [Request -> {"idle", "hash", "save", "commit", "mail",
                         "verify", "resend", "answer"}]
  /\ addr \in [Request -> Email \cup {NoEmail}]
  /\ proj \in [Request -> Project \cup {NoProject}]
  /\ uid \in [Request -> Uid \cup {NoUid}]
  /\ draft \in [Request -> Row \cup {NoRow}]
  /\ found \in [Request -> BOOLEAN]
  /\ letter \in [Request -> Code \cup {NoCode}]
  /\ issued \in SUBSET [project : Project, uid : Uid, email : Email]
  /\ proved \in SUBSET Uid
  /\ mailbox \in [Email -> Code \cup {NoCode}]
  /\ unsent \in SUBSET Email
  /\ contended \in SUBSET Email

Init ==
  /\ account = {}
  /\ email = [e \in Email |-> NoRow]
  /\ member = {}
  /\ now = 0
  /\ pc = [r \in Request |-> "idle"]
  /\ addr = [r \in Request |-> NoEmail]
  /\ proj = [r \in Request |-> NoProject]
  /\ uid = [r \in Request |-> NoUid]
  /\ draft = [r \in Request |-> NoRow]
  /\ found = [r \in Request |-> FALSE]
  /\ letter = [r \in Request |-> NoCode]
  /\ issued = {}
  /\ proved = {}
  /\ mailbox = [e \in Email |-> NoCode]
  /\ unsent = {}
  /\ contended = {}

-----------------------------------------------------------------------------
(* Shared by the handlers                                                  *)

Goto(r, label) == pc' = [pc EXCEPT ![r] = label]

\* A request about address e of project p starts.
Start(r, p, e, label) ==
  /\ pc[r] = "idle"
  /\ Goto(r, label)
  /\ addr' = [addr EXCEPT ![r] = e]
  /\ proj' = [proj EXCEPT ![r] = p]
  /\ contended' = contended \cup {a \in {e} : \E q \in Request : addr[q] = a}

\* It ends: answered, refused or, with its open transaction, rolled back.
Finish(r) ==
  /\ Goto(r, "idle")
  /\ addr' = [addr EXCEPT ![r] = NoEmail]
  /\ proj' = [proj EXCEPT ![r] = NoProject]
  /\ uid' = [uid EXCEPT ![r] = NoUid]
  /\ draft' = [draft EXCEPT ![r] = NoRow]
  /\ found' = [found EXCEPT ![r] = FALSE]
  /\ letter' = [letter EXCEPT ![r] = NoCode]

Registered(e) == email[e] # NoRow

\* The row an open transaction has written is locked until it ends.
Locked(r) == \E q \in Request \ {r} : pc[q] = "commit" /\ addr[q] = addr[r]

\* AUTO_INCREMENT: a uid no account has and no open transaction has inserted.
Unused == Uid \ (account \cup
                 {draft[q].uid : q \in {q \in Request : pc[q] \in {"save", "commit"}}})

Quiet(e) == \A r \in Request : addr[r] # e

-----------------------------------------------------------------------------
(* signUp                                                                  *)

\* Mutant: an address that is registered may sign up again.
SignUpReadUnchecked(r, p, e) ==
  /\ Start(r, p, e, "hash")
  /\ UNCHANGED <<tables, now, uid, draft, found, letter,
                 issued, proved, mailbox, unsent>>

\* No row for the address, else 409; then the password is hashed.
SignUpRead(r, p, e) ==
  /\ ~Registered(e)
  /\ Start(r, p, e, "hash")
  /\ UNCHANGED <<tables, now, uid, draft, found, letter,
                 issued, proved, mailbox, unsent>>

\* Draw the code and its expiry, BEGIN, INSERT the account, and the SELECT of
\* `save'.
SignUpBegin(r, u, w, c) ==
  /\ pc[r] = "hash"
  /\ u \in Unused
  /\ draft' = [draft EXCEPT ![r] = [uid |-> u, password |-> w, verified |-> FALSE,
                                   code |-> c, until |-> now + Window]]
  /\ found' = [found EXCEPT ![r] = Registered(addr[r])]
  /\ Goto(r, "save")
  /\ UNCHANGED <<tables, now, addr, proj, uid, letter, history>>

\* `save' INSERTs the row, or UPDATEs every column of the one it has found.
\* The INSERT of the membership of a new uid always succeeds.
SignUpSave(r) ==
  /\ pc[r] = "save"
  /\ ~Locked(r)
  /\ found[r] \/ ~Registered(addr[r])
  /\ Goto(r, "commit")
  /\ UNCHANGED <<tables, now, addr, proj, uid, draft, found, letter, history>>

\* The row was committed after the SELECT: duplicate key, ROLLBACK.
SignUpDuplicate(r) ==
  /\ pc[r] = "save"
  /\ ~Locked(r)
  /\ ~found[r] /\ Registered(addr[r])
  /\ Finish(r)
  /\ UNCHANGED <<tables, now, history>>

\* Mutant: the membership is not saved.
SignUpCommitAlone(r) ==
  /\ pc[r] = "commit"
  /\ account' = account \cup {draft[r].uid}
  /\ email' = [email EXCEPT ![addr[r]] = draft[r]]
  /\ letter' = [letter EXCEPT ![r] = draft[r].code]
  /\ unsent' = unsent \cup {addr[r]}
  /\ Goto(r, "mail")
  /\ UNCHANGED <<member, now, addr, proj, uid, draft, found,
                 issued, proved, mailbox, contended>>

SignUpCommit(r) ==
  /\ pc[r] = "commit"
  /\ account' = account \cup {draft[r].uid}
  /\ email' = [email EXCEPT ![addr[r]] = draft[r]]
  /\ member' = member \cup {<<proj[r], draft[r].uid>>}
  /\ letter' = [letter EXCEPT ![r] = draft[r].code]
  /\ unsent' = unsent \cup {addr[r]}
  /\ Goto(r, "mail")
  /\ UNCHANGED <<now, addr, proj, uid, draft, found,
                 issued, proved, mailbox, contended>>

\* Mail the code (the logger stands in for the mail service) and answer.
Mail(r) ==
  /\ pc[r] = "mail"
  /\ mailbox' = [mailbox EXCEPT ![addr[r]] = letter[r]]
  /\ unsent' = unsent \ {addr[r]}
  /\ Finish(r)
  /\ UNCHANGED <<tables, now, issued, proved, contended>>

-----------------------------------------------------------------------------
(* verify                                                                  *)

\* A row that is not verified, with this code, not yet expired.
VerifyRead(r, p, e, c) ==
  /\ Registered(e)
  /\ ~email[e].verified
  /\ email[e].code = c
  /\ now <= email[e].until
  /\ Start(r, p, e, "verify")
  /\ uid' = [uid EXCEPT ![r] = email[e].uid]
  /\ proved' = proved \cup {email[e].uid}
  /\ UNCHANGED <<tables, now, draft, found, letter, issued, mailbox, unsent>>

\* UPDATE by address: it sets the row that is there by now.
VerifyUpdate(r) ==
  /\ pc[r] = "verify"
  /\ ~Locked(r)
  /\ email' = [email EXCEPT ![addr[r]].verified = TRUE,
                           ![addr[r]].code = NoCode, ![addr[r]].until = 0]
  /\ Goto(r, "answer")
  /\ UNCHANGED <<account, member, now, addr, proj, uid, draft, found, letter,
                 history>>

\* Answer a verification or a sign-in with a session for the uid it has read.
Answer(r) ==
  /\ pc[r] = "answer"
  /\ issued' = issued \cup {[project |-> proj[r], uid |-> uid[r], email |-> addr[r]]}
  /\ Finish(r)
  /\ UNCHANGED <<tables, now, proved, mailbox, unsent, contended>>

-----------------------------------------------------------------------------
(* resend                                                                  *)

ResendRead(r, p, e) ==
  /\ Registered(e)
  /\ ~email[e].verified
  /\ Start(r, p, e, "resend")
  /\ UNCHANGED <<tables, now, uid, draft, found, letter,
                 issued, proved, mailbox, unsent>>

\* Mutant: only the expiry is stored.
ResendUpdateExpiry(r, c) ==
  /\ pc[r] = "resend"
  /\ ~Locked(r)
  /\ email' = [email EXCEPT ![addr[r]].until = now + Window]
  /\ letter' = [letter EXCEPT ![r] = c]
  /\ unsent' = unsent \cup {addr[r]}
  /\ Goto(r, "mail")
  /\ UNCHANGED <<account, member, now, addr, proj, uid, draft, found,
                 issued, proved, mailbox, contended>>

\* Draw a code and UPDATE by address, whatever the row is by now.
ResendUpdate(r, c) ==
  /\ pc[r] = "resend"
  /\ ~Locked(r)
  /\ email' = [email EXCEPT ![addr[r]].code = c, ![addr[r]].until = now + Window]
  /\ letter' = [letter EXCEPT ![r] = c]
  /\ unsent' = unsent \cup {addr[r]}
  /\ Goto(r, "mail")
  /\ UNCHANGED <<account, member, now, addr, proj, uid, draft, found,
                 issued, proved, mailbox, contended>>

-----------------------------------------------------------------------------
(* signIn                                                                  *)

\* Mutant: verification is not asked for.
SignInReadUnverified(r, p, e, w) ==
  /\ Registered(e)
  /\ email[e].password = w
  /\ Start(r, p, e, "answer")
  /\ uid' = [uid EXCEPT ![r] = email[e].uid]
  /\ UNCHANGED <<tables, now, draft, found, letter,
                 issued, proved, mailbox, unsent>>

\* Mutant: the uid of the row is not passed on.
SignInReadForgetsUid(r, p, e, w) ==
  /\ Registered(e)
  /\ email[e].verified
  /\ email[e].password = w
  /\ Start(r, p, e, "answer")
  /\ UNCHANGED <<tables, now, uid, draft, found, letter,
                 issued, proved, mailbox, unsent>>

\* A verified row whose hash matches.  The UPDATE of the login date that
\* follows changes no row when the account is no member of the project.
SignInRead(r, p, e, w) ==
  /\ Registered(e)
  /\ email[e].verified
  /\ email[e].password = w
  /\ Start(r, p, e, "answer")
  /\ uid' = [uid EXCEPT ![r] = email[e].uid]
  /\ UNCHANGED <<tables, now, draft, found, letter,
                 issued, proved, mailbox, unsent>>

-----------------------------------------------------------------------------
(* The environment                                                         *)

\* A statement is rejected or the process dies: an open transaction is rolled
\* back, what was committed stays.
Fail(r) ==
  /\ pc[r] # "idle"
  /\ Finish(r)
  /\ UNCHANGED <<tables, now, history>>

Tick ==
  /\ now < MaxNow
  /\ now' = now + 1
  /\ UNCHANGED <<tables, locals, history>>

Next ==
  \/ \E r \in Request, p \in Project, e \in Email :
       \/ SignUpRead(r, p, e) \/ ResendRead(r, p, e)
       \/ \E c \in Code : VerifyRead(r, p, e, c)
       \/ \E w \in Password : SignInRead(r, p, e, w)
  \/ \E r \in Request :
       \/ SignUpSave(r) \/ SignUpDuplicate(r) \/ SignUpCommit(r) \/ Mail(r)
       \/ VerifyUpdate(r) \/ Answer(r) \/ Fail(r)
       \/ \E c \in Code :
            \/ ResendUpdate(r, c)
            \/ \E u \in Uid, w \in Password : SignUpBegin(r, u, w, c)
  \/ Tick

Spec == Init /\ [][Next]_vars

-----------------------------------------------------------------------------
(* What holds however the requests overlap                                 *)

\* A registered address names a committed account that has joined a project,
\* through rolled-back, duplicate and overlapping sign-ups.
AddressesHaveMembers ==
  \A e \in Email : Registered(e) =>
    /\ email[e].uid \in account
    /\ \E p \in Project : <<p, email[e].uid>> \in member

\* An address changes hands, and a verified row loses its verification or its
\* password, only if requests about the address overlap.
RowChangesHandsOnlyUnderContention ==
  [][\A e \in Email : Registered(e) /\ e \notin contended =>
       /\ email'[e].uid = email[e].uid
       /\ email'[e].password = email[e].password
       /\ email[e].verified => email'[e] = email[e]]_vars

\* The code mailed last is the one the row waits for, whenever no request is
\* under way, none have overlapped and no mail was lost.
MailedCodeWorks ==
  \A e \in Email :
    Registered(e) /\ Quiet(e) /\ e \notin contended \cup unsent =>
      email[e].verified \/ email[e].code = mailbox[e]

\* An account gets a session only if its own row was read with its code, in
\* time, at its verification or at one before the sign-in; overlapping requests
\* excepted: they can verify a row its owner never proved.
SessionsAreProved ==
  \A s \in issued : s.uid \in proved \/ s.email \in contended

Life == INSTANCE AddressLife WITH
  row <- email,
  sessions <- [e \in Email |-> {s \in issued : s.email = e}]

\* Of an address that two requests were never about at once, the statements of the
\* handlers, whatever fails or expires between them, and whatever becomes of other
\* addresses, are steps of the life AddressLife promises it, or change nothing of it.
LifeKept ==
  [][\A e \in Email \ contended' : Life!Lives(e) \/ Life!Same(e)]_vars

-----------------------------------------------------------------------------
(* What the comment of project-account.entity.ts and the test of signIn say *)

\* "Records each account's entry to a project, tracks which projects it has
\* joined": who holds a session for a project is recorded as its member.
SessionsAreForMembers ==
  \A s \in issued : <<s.project, s.uid>> \in member
=============================================================================

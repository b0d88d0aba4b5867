# Verification of nest-pilot-framework

TLA+ modules, TLC runs and machine-checked proofs about the two services of this
repository (`apps/auth`, an account and session server, and `apps/example`, a CRUD
service with a cache) and the libraries they stand on (`libs/*`). Every definition
is translated from the TypeScript; `PROJECT.json` names the lines each one stands for.

## 1. The system

`apps/auth` and `apps/example` are NestJS processes. A request passes guards, reaches
a controller, and the controller calls one service. Node runs one piece of
JavaScript at a time, but **every `await` of a database statement, a Redis command or
bcrypt lets any other request run**, and several processes (pods) share the same
MySQL and Redis. There are no locks in the code, no Redis `MULTI` or scripts, and no
foreign keys in the schema; the only protection is the database's unique keys and two
transactions (the sign-ups). Everything below follows from that.

| part | state | operations | talks to |
|---|---|---|---|
| sessions `session/v1` | Redis `auth:session:<token>` with TTL | `createSession`, `refreshSession`, `revokeSession` | Redis; tokens |
| social accounts `signin/v1/service/account.service.ts`, `link/v1` | tables `account`, `identity`, `project_account`, `identity_properties` | `signInWithSocial`, `signUpWithSocial`, `linkSocial`, `unlinkSocial` | MySQL; the sign-in and sign-up controllers then call `createSession` |
| email accounts `email/v1`, `email-signup.service.ts`, `email-signin.service.ts` | tables `account`, `email_identity`, `project_account` | `signUp`, `verify`, `resend`, `signIn` | MySQL, mail (a log line so far); `verify` and `signIn` are followed by `createSession` |
| access tokens `token/v1` | the RSA keys, fixed at start | `sign`, `verify`, JWKS | configuration |
| social providers | table `oauth_config`, only read | verify a Google token; Apple is a stub (501) | Google's library |
| project guard | table `project`, only read | let a registered project through | MySQL |
| authentication guards `libs/auth` | options, fixed at start | bearer, basic, IP | passport, jwks-rsa |
| example service `apps/example` | table `examples`, Redis `example:<id>` with TTL | `create`, `findAll`, `findOne`, `update`, `remove` | MySQL, Redis |
| configuration `libs/config` | `dist/config` on disk, the merged settings | copy, load, merge at start; `get` | the other application, which shares the directory |
| redis module | one client per configured namespace | create at start, quit in a destroy hook | ioredis |
| health and shutdown | the flag `isTerminating` | liveness, readiness, destroy hook | MySQL, Redis, load balancer |
| request context, logging, errors | a map per request in AsyncLocalStorage | interceptor, two exception filters | every request |
| client address, IP guard | options, fixed at start | address from headers and socket, black and white list | |
| database, HTTP, swagger | the pool of connections | wiring at start | MySQL |

### What is hard, and what makes each part correct

- **Sessions.** Rotation is GET, DEL, SET as three commands, logout is one DEL, so
  handlers about one token interleave; a command or the process may fail after the DEL;
  the TTL starts at the SET but the record's expiry is computed before it.
  Correct: a token answered for is dead and stays dead; identity and creation time
  survive any number of rotations; nothing but a logout, an expiry or a failed
  rotation ends a sign-in; one sign-in has one live token.
- **Social accounts.** Check and write are separate statements; TypeORM's `save` is a
  SELECT and then an INSERT or UPDATE, so a lost race does not fail but
  *re-points* a row; sign-up writes three tables; unlink counts rows one by one and
  deletes by provider.
  Correct: rows name accounts that exist; every account is a member of something and
  can be signed in to; a social account stays with its account; sessions go to members.
- **Email accounts.** As above, with bcrypt between check and write, codes that expire,
  UPDATEs by address after a check of a row, and a mail that may be lost.
  Correct: an address belongs to an account that exists; the code mailed is the code
  stored; nobody gets a session for an account whose code was never presented.
- **Example cache.** Cache-aside with write-then-DEL: a read that was overtaken stores
  an old row; the DEL may fail; `save` writes back what was read.
  Correct: the cache is current when calm, and eventually current after the last write
  in any case; a removed row stays removed; an update touches only its fields.
- **The process.** All requests of a process share one pool of ten connections and one
  Redis client. A sign-up with Google holds a connection and asks for a second. At
  SIGTERM the destroy hooks run, in an order nothing in the code states, while requests
  go on arriving; only then is the HTTP server closed.
  Correct: every request is answered in a way that fits how its handler ended, under
  its own context; a shutdown ends, fails nobody it need not, and is seen by readiness.
- **Configuration.** Both applications name their files alike and copy them to the same
  `dist/config` before they read them back; the files are merged one level deep.
  Correct: a process runs with its own settings, and with those of the last file.
- **Client address.** Decided by patterns on text that cannot tell a port from the last
  group of an IPv6 address; the log takes the prefix of a mapped IPv4 address off, the IP
  guard does not, and the library it asks does not look through it.
  Correct would be: a client is known by, and filtered on, its own address in whatever
  form it comes. It is not in all of them, and what is checked is in which.

`PROJECT.json` "hazards" lists each of these at its line, with the properties that
catch it or the reason there is none. A property that excuses the requests of a hazard,
because they overlap or because a command fails, is not counted as catching it: several
of the passing properties say what holds *until* or *unless* requests overlap.

## 2. The modules

### Sessions, SessionsSerial, SessionPromise

`Sessions` has one action per Redis command, with the code between two commands folded
into one of them: `CreateSession` / `CreateSet`, `RefreshGet` / `RefreshDel` /
`Rotate` / `RefreshSet`, `RevokeDel` / `RevokeReply`, and `Reply`, the answer that
carries tokens to the client. `store` and `deadline` are Redis, `pc`, `tok`, `rec` and
`access` are a handler's locals. The environment is `Tick` (time passes, Redis expires
keys) and `Fail`, which ends a handler anywhere without undoing anything. It covers a
rejected command, a dying process and a reply that is lost. A client may present any
token it was ever handed, in several requests at once. History variables (`family`,
`opened`, `issued`, `spent`, `ended`) are read by properties only.

`SessionPromise` says what the endpoints promise without Redis or handlers: a session
has one current token or none, a refresh hands it over, closed is closed.
`SessionsSerial` restricts `Sessions` to clients that never have two requests for one
token under way, a discipline the service does not enforce, and gives the refinement
mapping; `KeepsPromise` is the refinement.

### SocialAccounts

One action per SQL statement whose result can differ when another request runs before
it: `SignInRead` / `SignInAnswer`, `SignUpRead` / `BeginNew` or `BeginJoin` /
`SaveIdentity` / `SaveMember` / `SignUpCommit`, `LinkRead` / `LinkSelect` / `LinkSave`,
`UnlinkCheck` / `UnlinkDelete`. `pending` is what an open transaction has written: it
becomes visible at the commit, locks its rows until then, and is lost in `Fail` and
`Duplicate`. An early return that changes nothing is the guard of its action being
false. Statements that read what no request ever removes (accounts, memberships) share
a step with a neighbour. `EmailSignUp` is the other module's sign-up seen from here,
committed at once; when it overlaps one of the same address it can leave an account
without its row.

`AccountRegistry` is what the endpoints promise: sign-in, sign-up, joining a project,
email sign-up, link and unlink, each at once or not at all. A sign-up takes effect at its
commit, a link at its `save`, an unlink at its DELETE; everything else is unseen.
`KeepsRegistry` says so of every step until two requests have overlapped.

### EmailAccounts

`SignUpRead` / `SignUpBegin` (after bcrypt) / `SignUpSave` / `SignUpCommit` / `Mail`,
`VerifyRead` / `VerifyUpdate` / `Answer`, `ResendRead` / `ResendUpdate` / `Mail`,
`SignInRead` / `Answer`, and `Fail`, `Tick`, `SignUpDuplicate`. A row keeps what is
read back: uid, password (standing for its hash), verified, code, expiry. Codes may be
drawn twice, as six digits may. `contended` collects the addresses two requests have
been about at once. `mailbox` and `unsent` record the last code mailed and the codes stored
but never mailed.

`AddressLife` is the life of an address as its owner sees it: registered once for an
account of its own, waiting for the code mailed last, verified once and for good, and from
then on the only thing that opens sessions, for that account. `LifeKept` says that the
statements about an address are steps of that life while requests about it do not
overlap, whatever fails between them or happens to other addresses.

### ExampleCache

`FindMiss` / `FindLoad` / `FindFill`, `UpdateRead` / `UpdateSelect` / `UpdateInsert` or
`UpdateColumns` / `Invalidate`, `RemoveRead` / `RemoveRow` / `Invalidate`, `Create`,
and `Fail`, `Expire`. A row is its fields because TypeORM's UPDATE writes the columns
that differ between the entity held and the row just selected, and that is where an
update that leaves a field out can undo another's of it. `suspect` marks entries that an overlap or a
failure may have made stale, until the entry has gone while nobody is about it.

`RowStore` is a store without a cache. The mapping shows of an id what a find would answer
(`Shown`: the entry if there is one, else the row), the updates and removes that no find
has seen yet (`Tasks`), and the rows finds are about to answer. A write takes effect when
it reaches a row that has no entry, and otherwise when the entry goes, by its DEL or by
expiry. `StoreKept` says that each id is one of such a store while requests about it do
not overlap and no DEL of its entry has failed.

### Endpoints, Server

`Endpoints` is the routing of both applications: every route is a sequence of steps, put
together from the guards, pipes and handlers of the controllers as the code does it, and
each application has its table of routes and its destroy hooks. A step is what happens
between two `await`s that others could tell apart: a guard, a SELECT after which the
handler may refuse, statements on the pool, a transaction, commands to Redis, a call of
Google's library. The auth application has no health module; the example one has.

`Server` runs them. A process copies and loads its files (`CopyFile`, `LoadFile`, with
`NeighbourCopies` for the other application's start), wires itself and listens
(`Listen`), takes requests (`Arrive`) and goes on with each of them by `Handle`: the
interceptor (`Intercept`), a step that succeeds, an end by `Return` or `Refuse`, by the
readiness check, or by a command on a client that has been closed (`FailClosed`).
`Fault` is a service that rejects a command. `End` is what the interceptor and the
filters make of the outcome: an answer, lines in the log, the context gone. Then
`Sigterm`, the destroy hooks in either order (`RunHook`: `Terminate`, `QuitClients`),
`Close` and `Stop`; a hook that rejects ends the process (`QuitRejected`), and so does
the platform once the grace period is over (`Kill`). Requests arrive until the server is
closed. What the steps read and write is in the modules above; here a step is taken,
refuses or fails. `late` (who asked for readiness after a destroy hook) and `faults` are
read by properties and bounds only.

What is Nest's own is taken from its version 11: guards run before interceptors, these
before pipes, then the handler and the filters; of the global filters the one registered
last is asked first; a destroy hook that rejects makes Nest end the process; closing the
server waits for the requests under way.

### ConfigFiles, ClientAddress

Operators without state: the filter, merge and lookup of settings, and the address of a
client with the IP guard's decision on it. Text is cut at its colons and a piece only
says whether it is an address, digits or empty, which is all the patterns look at.
`CidrContains` says of the library `ip` (2.0.1, external) what follows for a range of
IPv4: an IPv4 address is compared with it, a text with colons, mapped or not, is in it
only when it is the range of all. `IpGuard` fails with a `TypeError` where `extractIp` does,
on a request with neither headers nor socket address.
`MCServer` compares both modules with reference definitions (`LastSectionCounts`;
`V4ByForm` and `V6ByForm`, which say exactly in which forms the log and the guard know a
client by its own address), and `SettingsProofs` proves them.

`MCShutdown` adds to `Server` which requests were under way at SIGTERM; the other MC
modules add symmetry, or what is evaluated over all inputs in one state.

In every module a definition marked *Mutant* is a plausible bug in the definition below
it (a dropped check, a missing DEL, the wrong connection). Nothing uses it in the
specification; replacing the original by it must make a property fail.

## 3. The runs

| run | question | bounds |
|---|---|---|
| `sessions` | what holds of refresh tokens however handlers overlap, fail and expire | 2 requests, 3 tokens, 2 accounts, 1 project, TTL 1, clock to 2 |
| `sessions_serial` | with one request per token at a time: one live token, logout final, refinement of `SessionPromise` | 2 requests, 3 tokens, 1 account, the same otherwise |
| `sessions_fork` | *violated*: one live token per sign-in | as `sessions` |
| `sessions_logout` | *violated*: a logout ends the session | as `sessions` |
| `social` | tables stay consistent, who can take over what, nobody is locked out | 2 requests, 2 accounts, 2 social accounts, 2 projects |
| `link_takeover` | *violated*: a link never takes over | as `social` |
| `unlink` | *violated*: a login method remains, requests one at a time | as `social` |
| `email` | addresses, codes, verification, sessions under overlap, crash and expiry | 2 requests, 2 accounts, 2 addresses, 2 codes, 2 passwords, window 1, clock to 2 |
| `email_member` | *violated*: sessions are for members | 1 address, 2 projects |
| `cache` | staleness, resurrection, the promised store; a stale entry dies, every request ends | 3 requests, 1 id, 1 field of 2 values, 4 writes |
| `server` | one process from start to end: settings, contexts, answers, the pool, shutdown; settings and addresses against their references | 2 requests on any routes, pool of 2, 1 fault, 2 files and a stale one; directories of 2 files, 2 sections, 2 keys; 2 IPv4 addresses and every range of them, 9 shapes of IPv6 address |
| `shutdown` | *violated*: no request that SIGTERM finds under way fails | 2 requests, no fault |

What the passing runs show:

- `sessions`: `SpentIsDead`, `RetiredStaysRetired`: DEL before SET is enough to keep
  an answered token dead, whatever else is running. `NoSilentLoss`: overlapping
  refreshes can fork a session but never lose it. `RollingWindow`,
  `EndsOnlyByRequestOrExpiry`: reading the clock before the SET errs on the safe side.
  `LineageKeepsIdentity`: no interleaving mixes two sessions.
- `sessions_serial`: what the comments promise holds for clients that wait for
  the answer.
- `social`: `RowsNameAccounts`, `AccountsAreMembers`, `SessionsAreForMembers` hold
  under every interleaving without foreign keys, because a uid is only ever read from a
  committed row or inserted in the same transaction. `TakeoverOnlyByOverlap` pins
  re-pointing on a request that was overtaken. `KeepsRegistry`, `NoOrphan` and
  `SoleLoginIsKept` hold until two requests overlap (`alone`): transactions that roll
  back, failures and crashes alone cannot tell the service from `AccountRegistry`.
- `email`: `AddressesHaveMembers` always. `LifeKept`, `MailedCodeWorks` and
  `SessionsAreProved` for every address two requests were never about at once.
- `cache`: `QuietCacheIsCurrent`, `RemovedStaysRemoved`, `StoreKept` while requests about
  the id do not overlap and no DEL fails; `EventuallyCurrent` and `EveryRequestEnds` always.
- `server`: `StarvedBySocialSignUps`: sign-ups with Google, and nothing else, can occupy
  the pool with transactions that wait for one more connection; no timeout ends that, so
  `RequestsEnd` and `ShutdownEnds` hold up to it and name it. `ShutdownFailsOnlyRedisUsers`
  pins what a shutdown costs: nothing but the requests that still need Redis after its
  client was quit. That these are answered 500 contradicts `apps/example/src/main.ts:17`
  and is the finding of `shutdown`. `UnreadyAfterHooks` holds in either order of the hooks, because the flag
  *or* the closed client turns readiness down. `ConfigIsOwn`: stale files of the other
  application are overwritten or not read; only its start at the same time can mix
  settings. `OwnContext` and `AnswerFitsOutcome` hold for every outcome on every route.
  `KnownByForm` says of each form of an address what the log and the guard make of it, the
  right thing or not: an IPv6 address loses its last group exactly when it comes without a
  port and that group consists of digits; the guard judges an IPv4 client by the ranges
  that hold its address, except that one which comes mapped is in none but those of every
  address.

The violations are real interleavings, or plain sequences, of the code; "findings" in
`PROJECT.json` quotes the comment each one contradicts. `unlink` and `email_member`
need no concurrency at all: link two Google accounts and unlink Google, or verify an
address under the path of a project that the account has not joined. `shutdown` needs one
request: a GET of an example that SIGTERM finds under way sends its command after the
destroy hook has quit Redis.

**Where the code differs from its documents without a run of its own.** Each of these is
how the modules have it, and can be read off a definition or a passing property.

- `apps/auth/README.md:112` says of `signUpWithSocial` that an existing member of the
  project gets its uuid back; the code, its own comment (`account.service.ts:66`) and its
  test answer 409 (`account.service.ts:83`). `SignUpRead` is not enabled for a member.
- `google-signin.service.ts:58` and `signup.controller.ts:23` say that a sign-up of an
  existing user is a 409, a test of the email sign-up (`email-signup.service.spec.ts:41`)
  the same of an address. A request that overtakes the sign-up between its look-up and
  its `save` is overwritten instead, as in `link_takeover`: `SaveIdentity` with `seen`,
  `SignUpBegin` with `found`. A verification in between marks the row of an account
  whose code nobody has presented (`VerifyUpdate`), where `email.service.spec.ts:48` has a
  wrong code refused.
- A test of `update` (`example.service.spec.ts:137`) has it refused when the row is not
  there. When it is removed after the look-up, `save` inserts it again (`UpdateInsert`).
- `request-util.ts:7` says of `getClientIp` that it returns the client's address. Of a
  bare `::1` it returns a colon (`V6ByForm`).
- `libs/auth/README.md:137` says that a whitelisted address passes. A whitelisted IPv4
  client that comes over a socket for both versions of IP does not (`V4ByForm`).

**Why the bounds are enough to be interesting.** Two requests are what each race of
the auth server needs: one to read, one to overtake. Three tokens are a sign-in and two
successors: a fork, or a rotation after a rotation. TTL 1 and a clock to 2 let a key
expire between any two commands, and a second time after being rotated. Two accounts
and two social accounts allow a link to collide with another account's sign-up and an
account to have two identities of one provider. Two codes and a window of one tick
allow the wrong code, the old code and the late code. Three requests and four writes
let two updates race a remove of the row just created, so that the second INSERT of a
resurrected row collides; one field is enough, since an update may leave it out. (The
theorems are about any fields.) Two requests and a pool of two are the smallest that starve
it, and let one request be under way while another ends in every way there is; one fault
is enough for each failure to be the first one; two files and a stale one show a
copy that is overwritten, one that is not, and a merge. `LastFileOfSectionCounts` and
`KnownByForm` do not depend on the state and are evaluated in one.
`MaxNow`, `MaxWrites` and `MaxFaults` are the only
bounds in the modules; the others are sizes of sets. Symmetry is used over
requests and interchangeable values in runs without liveness.
Deadlock is not checked: each instance really stops, once its clock, identifiers or
writes are used up or the process has ended. That requests themselves do not wait
forever is `EveryRequestEnds` for the example service and `RequestsEnd` for any route
of either application; waits on row locks, which `Server` leaves out, end when the other
transaction does, or in the deadlock error that `Fail` stands for.

**Fairness.** `ExampleCache`: weak fairness of a running request's next
step and of Redis' expiry of a key with a time to live. The event loop resumes a
handler whose command was answered, MySQL and Redis answer or reject, and Redis expires
keys. `Server`: weak fairness of `Shutdown`, since Nest goes on after each hook, and
strong fairness of `Handle` for each request: mysql2 queues those that wait for a
connection in order, so that one which others overtake for a while still gets its turn.
No request has to be sent, nothing has to fail, no process has to be started, told to
end or killed.

**Assumptions.** One clock for the processes and Redis. MySQL at READ COMMITTED, as the
compose file's `my.cnf` sets it. `save` is a SELECT by primary key followed by INSERT or
UPDATE of the differing columns, and `update` and `delete` do not complain of zero rows.
Of the library `ip`, whose source is not in the repository, the behaviour of version
2.0.1: `cidrSubnet(...).contains` masks the low bytes of an address with colons into a
text it then cannot read as the number of the range, so a mapped IPv4 address is in no
range but those whose number it reads instead, which start at 0.0.0.0; of these the
model has the range of all addresses.
`randomUUID` and `AUTO_INCREMENT` do not repeat (a uid of a rolled-back insert, which
nothing refers to, may come again in the model). A command that ioredis sends again
after a reconnect is one the model has as a single step: GET, DEL of a key and SET of
the same value can be repeated unnoticed, unless another request steps in between.

## 4. The proofs

All theorems hold for every number of requests, tokens, accounts, social accounts,
addresses, projects, ids, fields, files and sections, every size of the pool, and every
value of the clock and of the bounds. `SettingsOfLastFile` and `ClientsKnownByForm` are
the exception: they are about the directories, lists and IPv6 addresses of the run, and
follow from `LastSectionAlwaysCounts`, `V4KnownByForm` and `V6KnownByForm`, which are about
all.

**`SessionsProofs`.** The properties are not inductive as they stand: `SpentIsDead`
says nothing of the handler about to SET. `Ind` adds what handlers hold. A record in
Redis or in a handler is `RecordOK`: its identity is its sign-in's, its dates are in
order (`StoreInv`, `HandlerInv`). What clients were handed was drawn and carries its
sign-in's claims (`DeliveredInv`). An identifier about to be stored is live nowhere and
known to no client, and no two handlers hold the same (`FreshInv`). Past its DEL a token is
dead (`DeadInv`): with `FreshInv`, no pending SET can revive it. A family in use has a
live token, a handler between DEL and SET, or a cause of its end (`KeptInv`). There is
one lemma per action (`...Preserves`), put together in `NextPreserves`. From `Invariance`
follow `TypeCorrect`, `SpentDead`, `LineageKept`, `WindowRolls`, `LossHasCause` and the
action properties `NoReturn` and `NoEarlyEnd`.

**`SessionsSerialProofs`.** With one request per token at a time, a sign-in goes on by
one token: a token is `Held` when it is live, when a handler is replacing it, or when a
handler is about to store it for the first time. `SerialInv`, on top of `Ind`, says
that a family holds one token at most (`OneHeld`), that a family which holds one was
not logged out and one not stored yet has not ended (`EndedInv`), and that a token gone
while its refresh was about to delete it has expired (`OvertakenInv`). `OneToken` and
`LogoutIsFinal` follow at once. `SessionsKeepPromise` is the refinement: `PhaseIs` and
`CurrentIs` say what the mapping shows of a session, `SameView` when a step leaves that
alone, and then each action is a step of the promise (CREATE's SET opens, the DEL of a
refresh, a logout and a tick retire, a refresh's SET hands over, an answer spends, a
failure abandons) or unseen.

**`SocialAccountsProofs`.** `Ind` says that what a running request has read stays true
(`RequestsAreSound`: accounts and memberships are never removed; a transaction about to
commit has written all that its rows refer to), and that a request which means to
register a social account that has since been registered is marked overtaken
(`RegisteringIsOvertaken`). It gives `NoDanglingRow`, `NoAccountAlone`, `MembersOnly`
and `NoOtherTakeover`. `LoneInd` adds what holds until two requests have overlapped: at
most one is running, it was not overtaken (`LoneRequest`), and a sign-up that has
inserted its account writes its identity too (`LoneSignUp`). It gives `NoneOrphaned`
and `SignInStable`. `SoleLoginKept` adds that an unlink which nobody has overlapped has
counted the login methods there still are (`CountStands`).

**`AccountRegistryProofs`.** `AloneImplementsRegistry` is the refinement for requests
that never overlap, `RegistryKept` the same step by step up to the first overlap. A
commit is one atomic sign-up only if what the request read at its start is still so:
`LoneReads` says of each running request that the account it inserts is new, that the
social account it signs in or joins with still leads to the account it read, which has not
joined the project yet, and that there is something to unlink. It holds until two requests have overlapped, because a request that ends or fails
forgets what it has read and one that starts finds no other (`OthersIdle`, `OneReads`).
One lemma for each action that can be seen gives the operation it is.

**`EmailAccountsProofs`.** `RequestsAreSound` says what a running request holds, and
`Undisturbed` what holds of an address two requests were never about at once: one
request at most is about it, what that one has read of the row is still so, and the row
waits for the code mailed last or about to be mailed. It gives `AddressesNameMembers`,
`MailedIsStored`, `SessionsProved` and `RowsKeptByOwner`. `LifeInd` adds what the
refinement needs: the row a sign-up is about to save is of an account that nobody has and
no other open sign-up has drawn (`Drafts`), so that its commit registers a new one; only
committed accounts are proved; and who mails a code or opens a session found the row as it
still is (`Settled`). Then each statement is a step of the address it is about
(`CommitRegisters`, `MailMails`, `UpdateVerifies`, `UpdateResends`, `AnswerOpens`) and leaves
the others alone. `LifeIsKept` is that for each address, `PoliteImplementsLife` the
refinement of `AddressLife` for clients that have one request about an address at a time.

**`ExampleCacheProofs`.** `Trusted` is the invariant of ids that are not `suspect`: one
request at most is about it, the entry is current unless a write has not yet been
followed by its DEL, and what a read is about to store is the row. `Undisturbed` says of
ids not `contended` that an update works on the row as it is and differs from it in the
fields of its dto only. They give `QuietIsCurrent`, `RemovedForGood` and
`OtherFieldsKept`. For the refinement `TasksFit` adds that the entity of an update is the
row as its dto changes it, and that the row behind an entry which is to be deleted is the
entry so changed, or gone: then a DEL or an expiry shows exactly the write that was asked
for (`HiddenIsChange`), and every other step shows it at once or nothing. `StoreIsKept`
and `PoliteImplementsStore` follow.

**`ServerProofs`.** First, lemmas about the routes themselves (`RoutesAreGuarded`,
`RoutesFit`): the interceptor runs once with only guards before it, only the routes of
`RedisUsers`, and readiness with its ping, have commands to Redis, only the sign-up with Google needs the pool inside
a transaction, and readiness asks for the flag first. The invariant `Ind` then says that
what a request still has before it is a rest of its route, and what context, answer and
log go with that; `ServiceInd` adds what is known of failures, of the pool and of the
requests in `late`. They give `ContextIsOwn`, `AnswersFit`, `StarvedBySignUps`,
`ShutdownSparesOthers` and `LateUnready`. The transactions under way keep no more
connections than the pool has (`PoolKept`, by counting: a transaction begins only with a
free connection). Hence `OnlyStarvationBlocks`: when all are kept and the pool is not
starved, one of them goes on; `StarvationIsForever`: those that starve it cannot be
failed, finished or joined by anything but the end of the process; and
`LargePoolNeverStarved`, the size that prevents it. `OwnSettings` has an invariant of its own: a
file that has been copied is this process's while no neighbour starts, and only copied
files are loaded.

**`SettingsProofs`.** What `loadConfigFiles` and `getClientIp` compute, for directories of
any length and addresses of any number of groups. A loop over a list is a function of the
number of steps taken, and what holds of all its values is shown by induction over the
set of numbers it holds for (`Induction`, from the well-foundedness of the naturals):
`LoopRuns` and `LoopIsDetermined` say that the loop has one result, `LoadedNext` and
`DirectoryIsLoaded` that this has every section of the `.yml` files as the last one states
it (`LastSectionAlwaysCounts`, `SettingsOfLastFile`). The addresses go by cases of the
forms they come in (`FormsOf`, `MappedFormOf`) and of what the patterns take off them.
`V4KnownByForm` says of each form which ranges decide, `V6KnownByForm` that the log has an
IPv6 address as it is if *and only if* it came with a port or does not end in a group of
digits: when it does, what is left of the text is shorter than the address.
`ClientsKnownByForm` is the property of the run.

The five modules about state that changes also prove their type invariant (`TypeCorrect`).
The only assumptions are those named in the modules
(`SessionsAssumption`, `SocialAssumption`, `EmailAssumption`, `RowAssumption`,
`CacheAssumption`, `ServerAssumption`, `AddressAssumption`): that the "none" values are not
members of their sets, that a piece of digits is not an address, that the TTL is positive
and the pool not empty, and that finitely many requests are made of a process, which
counting connections needs. TLC evaluates them in the runs.

**Model-checked only.** Liveness (`EventuallyCurrent`, `EveryRequestEnds`,
`RequestsEnd`, `ShutdownEnds`): the prover does not handle fairness. Every other property
of a passing run is a theorem. The refinements were also checked in the runs, as
`KeepsRegistry`, `LifeKept` and `StoreKept`, on instances in which requests do overlap; the
theorems about clients that never overlap are proved only.

## 5. Not modelled

- `identity_properties`: no handler reads it. That its upsert takes a second connection
  is modelled; that a profile survives a rollback is listed as a hazard only.
- Google's and passport's verification of tokens and the JWKS cache, bcrypt, RSA and the
  key document: library code and constants of a process. A guard, a verification or a
  pipe is a step that may refuse.
- The basic guard, a comparison of two strings, and the attachment of the IP guard: no
  route uses either. The IP guard's decision is modelled as an operator.
- Several Redis namespaces, `onClientReady`: the repository configures one client and
  registers no callback.
- Profile data, user agent and address in the session record: no caller passes or reads
  them. `lastLoginDate` and the account's `status`, which nothing reads.
- `findAll`'s result: it changes nothing and does not use the cache.
- Helmet, CORS, error bodies and codes, log formats and transports, Swagger, TypeORM's
  wiring: stateless, or run once before the first request.
- The load balancer: requests may arrive until the server is closed, whatever readiness
  says.
- The client of a misconfigured process: what it does with another application's
  settings is not followed (`misled`).

## 6. How the project was built, and what is left

In this order: `Sessions` with its promise and proofs, `SocialAccounts` with its proofs,
`EmailAccounts`, `ExampleCache`, then `Endpoints` and `Server` over both applications
with the operators of `ConfigFiles` and `ClientAddress`, the proofs of all modules, and
last the abstract specifications of the tables (`AccountRegistry`, `AddressLife`,
`RowStore`) with their refinements, and the proofs about the pool and the settings.
`Server` composes the routes; the data of each part stays in its own module, so
that its races can be checked with every interleaving in minutes.

Left, for who goes on:

1. `AuthServer`: the data of the account modules composed with the sessions (a sign-in, a
   verification or a sign-up with Google ends in `createSession`; link and unlink take
   the account of a bearer token). Question: what does a session outlive, such as an
   unlink of the identity it was opened with or a takeover?
2. Row locks in `Server`: sign-ups that wait for each other's keys while they hold
   connections, and the deadlock error that ends one of them.
3. `identity_properties`, once something reads it.

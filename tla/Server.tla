-------------------------------- MODULE Server --------------------------------
(***************************************************************************)
(* The life of one process of either application: it copies and loads its   *)
(* configuration, wires its modules, answers requests along the routes of   *)
(* Endpoints, and ends at a signal.  Requests share the pool of database    *)
(* connections and the Redis client.  A step of a request is what happens   *)
(* between two awaits.                                                      *)
(*                                                                         *)
(* What the steps read and write is in Sessions, SocialAccounts,            *)
(* EmailAccounts and ExampleCache; here a step is taken, refuses or fails.  *)
(* Nest runs the guards, the interceptor, the pipes, the handler and then   *)
(* the filters; at the signal the destroy hooks, and then it closes the     *)
(* server and waits for the requests under way.                             *)
(***************************************************************************)
EXTENDS Endpoints, Naturals, FiniteSets, SequencesExt

CONSTANTS
  Request,      \* requests under way at the same time
  SourceFile,   \* configuration files, which both applications name alike
  OldFile,      \* a file some earlier start has left in dist/config
  NoApp, NoContext, NoEndpoint,
  PoolSize,     \* connections of the pool
  MaxFaults     \* bound: how many commands the services reject

App == DOMAIN Application

ASSUME ServerAssumption ==
  /\ NoApp \notin App
  /\ NoContext \notin Request
  /\ IsFiniteSet(Request)
  /\ OldFile \notin SourceFile
  /\ NoEndpoint \notin UNION {DOMAIN Application[a].routes : a \in App}
  /\ PoolSize \in Nat \ {0}
  /\ MaxFaults \in Nat

File == SourceFile \cup {OldFile}
Endpoint == UNION {DOMAIN Application[a].routes : a \in App}

VARIABLES
  app,          \* the application this process runs
  neighbour,    \* whether the other one may start at the same time
  phase,        \* where the process stands
  dist,         \* dist/config: whose copy each file is
  toCopy, toLoad, \* files still to copy, to load
  config,       \* the applications whose settings have been loaded
  client,       \* the Redis client
  hooks,        \* destroy hooks that have not run
  terminating,  \* TerminationService.isTerminating
  endpoint,     \* what each request asks for
  todo,         \* the steps it still has before it
  context,      \* the request its RequestContext names
  outcome,      \* how its handling has ended
  status,       \* what it was answered
  lines,        \* what has been logged about it
  faults,       \* how many commands have been rejected
  late          \* history: those that asked for readiness after a destroy hook

startup == <<neighbour, dist, toCopy, toLoad, config>>
process == <<client, hooks, terminating>>
requests == <<endpoint, todo, context, outcome, status, lines, late>>
vars == <<app, phase, startup, process, requests, faults>>

TypeOK ==
  /\ app \in App
  /\ neighbour \in BOOLEAN
  /\ phase \in {"starting", "listening", "misled", "destroying", "closing", "stopped",
                "exited"}
  /\ dist \in [File -> App \cup {NoApp}]
  /\ toCopy \in SUBSET File /\ toLoad \in SUBSET File
  /\ config \in SUBSET App
  /\ client \in {"none", "open", "end"}
  /\ hooks \in SUBSET {"RedisService", "TerminationService"}
  /\ terminating \in BOOLEAN
  /\ endpoint \in [Request -> Endpoint \cup {NoEndpoint}]
  /\ todo \in [Request -> Seq(Step)]
  /\ context \in [Request -> Request \cup {NoContext}]
  /\ outcome \in [Request -> {"none", "pending", "returned", "HttpException", "Error",
                              "lost"}]
  /\ status \in [Request -> {"none", "success", "refused", "internal error"}]
  /\ lines \in [Request -> SUBSET {"request", "response", "error"}]
  /\ faults \in 0 .. MaxFaults
  /\ late \in SUBSET Request
  /\ \A r \in Request : outcome[r] # "pending" => todo[r] = <<>> /\ context[r] = NoContext

Init ==
  /\ app \in App
  /\ neighbour \in BOOLEAN
  /\ phase = "starting"
  /\ dist \in [File -> App \cup {NoApp}]
  /\ toCopy = SourceFile /\ toLoad = {}
  /\ config = {}
  /\ client = "none"
  /\ hooks = Application[app].hooks
  /\ terminating = FALSE
  /\ endpoint = [r \in Request |-> NoEndpoint]
  /\ todo = [r \in Request |-> <<>>]
  /\ context = [r \in Request |-> NoContext]
  /\ outcome = [r \in Request |-> "none"]
  /\ status = [r \in Request |-> "none"]
  /\ lines = [r \in Request |-> {}]
  /\ faults = 0
  /\ late = {}

-----------------------------------------------------------------------------
(* Start                                                                   *)

\* Mutant: what is in dist/config is loaded.
CopiedFromDist == File

\* The list copyConfigFiles returns.
Copied == SourceFile

CopyFile(f) ==
  /\ phase = "starting"
  /\ f \in toCopy
  /\ dist' = [dist EXCEPT ![f] = app]
  /\ toCopy' = toCopy \ {f}
  /\ toLoad' = IF toCopy' = {} THEN Copied ELSE {}
  /\ UNCHANGED <<app, phase, neighbour, config, process, requests, faults>>

LoadFile(f) ==
  /\ phase = "starting"
  /\ f \in toLoad
  /\ toLoad' = toLoad \ {f}
  /\ config' = config \cup ({dist[f]} \ {NoApp})
  /\ UNCHANGED <<app, phase, neighbour, dist, toCopy, process, requests, faults>>

\* The other application copies its file of that name.
NeighbourCopies(f) ==
  /\ phase = "starting" /\ neighbour
  /\ \E other \in App \ {app} : dist' = [dist EXCEPT ![f] = other]
  /\ UNCHANGED <<app, phase, neighbour, toCopy, toLoad, config, process, requests,
                 faults>>

\* createRedisClients: both applications name one.
CreateClients == client' = "open"

\* Build the modules and listen.  What a process does with settings of the other
\* application is not followed.  dist/config is not read again.
Listen ==
  /\ phase = "starting"
  /\ toCopy = {} /\ toLoad = {}
  /\ IF config = {app}
     THEN phase' = "listening" /\ CreateClients /\ neighbour' = FALSE
     ELSE phase' = "misled" /\ UNCHANGED <<client, neighbour>>
  /\ dist' = [f \in File |-> NoApp]
  /\ UNCHANGED <<app, toCopy, toLoad, config, hooks, terminating, requests, faults>>

-----------------------------------------------------------------------------
(* Requests                                                                *)

Pending(r) == outcome[r] = "pending"
Alive == phase \in {"listening", "destroying", "closing"}

At(r, steps) == Alive /\ Pending(r) /\ todo[r] # <<>> /\ Head(todo[r]) \in steps

\* A transaction keeps its connection until it ends.
InTransaction(r) == Contains(todo[r], "commit") /\ ~Contains(todo[r], "begin")
FreeConnection == Cardinality({q \in Request : InTransaction(q)}) < PoolSize

OnPool == {"project", "find", "sql", "begin", "select1"}
OnRedis == {"redis", "ping"}
Refusing == {"project", "bearer", "body", "find", "google", "check", "stub"}

Arrive(r, e) ==
  /\ phase \in {"listening", "destroying"}
  /\ ~Pending(r)
  /\ endpoint' = [endpoint EXCEPT ![r] = e]
  /\ todo' = [todo EXCEPT ![r] = Application[app].routes[e]]
  /\ outcome' = [outcome EXCEPT ![r] = "pending"]
  /\ status' = [status EXCEPT ![r] = "none"]
  /\ lines' = [lines EXCEPT ![r] = {}]
  /\ late' = IF e = "readiness" /\ hooks # Application[app].hooks
             THEN late \cup {r} ELSE late \ {r}
  /\ UNCHANGED <<app, phase, startup, process, context, faults>>

Advance(r) ==
  /\ todo' = [todo EXCEPT ![r] = Tail(@)]
  /\ UNCHANGED <<app, phase, startup, process, endpoint, outcome, status, late, faults>>

\* Mutant: one map for all requests.
RunInOneMap(r) ==
  context' = [q \in Request |-> IF context[q] # NoContext \/ q = r THEN r ELSE NoContext]

\* A new map, in which the request puts its identifier.
Run(r) == context' = [context EXCEPT ![r] = r]

\* HttpLoggerInterceptor.
Intercept(r) ==
  /\ At(r, {"context"})
  /\ Run(r)
  /\ lines' = [lines EXCEPT ![r] = @ \cup {"request"}]
  /\ Advance(r)

\* The step succeeds: a statement needs a connection no transaction keeps, a
\* command the client.
Succeed(r) ==
  /\ At(r, Step \ {"context", "stub", "terminating"})
  /\ At(r, OnPool) => FreeConnection
  /\ At(r, OnRedis) => client = "open"
  /\ Advance(r)
  /\ UNCHANGED <<context, lines>>

NotTerminating(r) ==
  /\ At(r, {"terminating"})
  /\ ~terminating
  /\ Advance(r)
  /\ UNCHANGED <<context, lines>>

-----------------------------------------------------------------------------
(* How a request ends                                                      *)

\* Mutant: the filter for everything is registered last.
FiltersSwapped == <<"HttpExceptionFilter", "GlobalExceptionFilter">>

\* In the order in which they are registered.
Filters == <<"GlobalExceptionFilter", "HttpExceptionFilter">>

Catches(filter, exception) ==
  filter = "GlobalExceptionFilter" \/ exception = "HttpException"

\* Nest asks the one registered last first.
FilterOf(exception) ==
  Filters[CHOOSE i \in DOMAIN Filters :
            /\ Catches(Filters[i], exception)
            /\ \A j \in DOMAIN Filters : j > i => ~Catches(Filters[j], exception)]

\* The status of the exception, or 500 and a line in the log.
Caught(exception) ==
  IF FilterOf(exception) = "HttpExceptionFilter"
  THEN [status |-> "refused", lines |-> {}]
  ELSE [status |-> "internal error", lines |-> {"error"}]

Answer(r, how) ==
  /\ outcome' = [outcome EXCEPT ![r] = how]
  /\ status' = [status EXCEPT ![r] = IF how = "returned" THEN "success"
                                     ELSE Caught(how).status]
  /\ lines' = [lines EXCEPT ![r] = @ \cup IF how = "returned" THEN {"response"}
                                          ELSE Caught(how).lines]
  /\ UNCHANGED <<app, phase, startup, process, endpoint, late>>

\* Mutant: the handler goes on after the answer.
EndGoesOn(r, how) == Answer(r, how) /\ UNCHANGED <<todo, context>>

\* Mutant: the interceptor does not pass errors on.
EndOfReturns(r, how) ==
  /\ how # "returned" => context[r] = NoContext
  /\ todo' = [todo EXCEPT ![r] = <<>>]
  /\ context' = [context EXCEPT ![r] = NoContext]
  /\ Answer(r, how)

\* The handler returns and the interceptor logs the response, or an exception
\* goes to its filter; an open transaction is rolled back.
End(r, how) ==
  /\ todo' = [todo EXCEPT ![r] = <<>>]
  /\ context' = [context EXCEPT ![r] = NoContext]
  /\ Answer(r, how)

Return(r) ==
  /\ \/ Alive /\ Pending(r) /\ todo[r] = <<>>
     \/ At(r, {"unless"})
  /\ End(r, "returned")
  /\ UNCHANGED faults

Refuse(r) ==
  /\ At(r, Refusing)
  /\ At(r, OnPool) => FreeConnection
  /\ End(r, "HttpException")
  /\ UNCHANGED faults

\* Readiness while the process terminates.
RefuseTerminating(r) ==
  /\ At(r, {"terminating"})
  /\ terminating
  /\ End(r, "HttpException")
  /\ UNCHANGED faults

\* Mutant: the indicators let errors through.
ThrownUncaught(step) == "Error"

\* A rejected command is an Error; an indicator reports it and readiness is a
\* ServiceUnavailableException.
Thrown(step) == IF step \in {"select1", "ping"} THEN "HttpException" ELSE "Error"

\* The client has been closed.
FailClosed(r) ==
  /\ At(r, OnRedis)
  /\ client = "end"
  /\ End(r, Thrown(Head(todo[r])))
  /\ UNCHANGED faults

\* MySQL or Redis rejects the command.
Fault(r) ==
  /\ faults < MaxFaults
  /\ At(r, OnPool \cup OnRedis \cup {"tx", "commit"})
  /\ At(r, OnPool) => FreeConnection
  /\ faults' = faults + 1
  /\ End(r, Thrown(Head(todo[r])))

-----------------------------------------------------------------------------
(* The end of the process                                                  *)

\* The process is gone, and with it what it had not answered.
Exit ==
  /\ phase' = "exited"
  /\ todo' = [r \in Request |-> <<>>]
  /\ context' = [r \in Request |-> NoContext]
  /\ outcome' = [r \in Request |-> IF Pending(r) THEN "lost" ELSE outcome[r]]
  /\ UNCHANGED <<app, startup, process, endpoint, status, lines, late>>

\* A file or a setting is missing, the port is taken.
BootFails ==
  /\ phase = "starting"
  /\ Exit
  /\ UNCHANGED faults

\* enableShutdownHooks.
Sigterm ==
  /\ phase = "listening"
  /\ phase' = "destroying"
  /\ UNCHANGED <<app, startup, process, requests, faults>>

\* Mutant: the hook waits until no request is under way.
TerminateWhenCalm ==
  /\ \A r \in Request : ~Pending(r)
  /\ terminating' = TRUE
  /\ UNCHANGED client

\* TerminationService.onModuleDestroy.
Terminate == terminating' = TRUE /\ UNCHANGED client

\* RedisService.onModuleDestroy.
QuitClients == client' = "end" /\ UNCHANGED terminating

\* Nest runs the destroy hooks.  Nothing in the code says in which order.
RunHook(hook) ==
  /\ phase = "destroying"
  /\ hook \in hooks
  /\ hooks' = hooks \ {hook}
  /\ \/ hook = "TerminationService" /\ Terminate
     \/ hook = "RedisService" /\ QuitClients
  /\ UNCHANGED <<app, phase, startup, requests, faults>>

\* Redis rejects QUIT; Nest gives up and ends the process.
QuitRejected ==
  /\ phase = "destroying"
  /\ "RedisService" \in hooks
  /\ faults < MaxFaults
  /\ faults' = faults + 1
  /\ Exit

\* Nest closes the server, which then waits for the requests under way.
Close ==
  /\ phase = "destroying"
  /\ hooks = {}
  /\ phase' = "closing"
  /\ UNCHANGED <<app, startup, process, requests, faults>>

Stop ==
  /\ phase = "closing"
  /\ \A r \in Request : ~Pending(r)
  /\ phase' = "stopped"
  /\ UNCHANGED <<app, startup, process, requests, faults>>

\* The grace period is over.
Kill ==
  /\ phase \in {"destroying", "closing"}
  /\ Exit
  /\ UNCHANGED faults

-----------------------------------------------------------------------------
Start ==
  \/ \E f \in File : CopyFile(f) \/ LoadFile(f) \/ NeighbourCopies(f)
  \/ Listen \/ BootFails

Shutdown ==
  \/ \E hook \in hooks : RunHook(hook)
  \/ Close \/ Stop

\* The process goes on with the request.
Handle(r) ==
  \/ Intercept(r) \/ Succeed(r) \/ NotTerminating(r)
  \/ Return(r) \/ Refuse(r) \/ RefuseTerminating(r) \/ FailClosed(r)

Next ==
  \/ Start \/ Shutdown \/ Sigterm \/ QuitRejected \/ Kill
  \/ \E r \in Request :
       Handle(r) \/ Fault(r) \/ \E e \in DOMAIN Application[app].routes : Arrive(r, e)

\* Every command is answered, the pool hands connections out in the order they
\* were asked for, and Nest goes on after each hook.  Nothing makes a client
\* come, a service fail or the platform end the process.
Fairness == (\A r \in Request : SF_vars(Handle(r))) /\ WF_vars(Shutdown)

Spec == Init /\ [][Next]_vars /\ Fairness

-----------------------------------------------------------------------------
(* Properties                                                              *)

\* Alone, a process runs with its own settings: those another application's
\* start has left in dist/config are overwritten or not read (config.module.ts,
\* which returns the paths it copied).
ConfigIsOwn == ~neighbour => config \subseteq {app}

\* From the interceptor to the answer RequestContext names the request that is
\* being handled, and before it none, whoever else is under way.
OwnContext ==
  \A r \in Request :
    context[r] = IF Pending(r) /\ ~Contains(todo[r], "context") THEN r ELSE NoContext

\* What the client is told and what the log says fit how the handler ended: an
\* HttpException is answered with its own status and is no error in the log, any
\* other error is a 500 in it, a success leaves both its lines.
AnswerFitsOutcome ==
  \A r \in Request :
    CASE outcome[r] = "returned" -> status[r] = "success" /\ lines[r] = {"request", "response"}
      [] outcome[r] = "HttpException" -> status[r] = "refused" /\ lines[r] \subseteq {"request"}
      [] outcome[r] = "Error" -> status[r] = "internal error" /\ "error" \in lines[r]
      [] OTHER -> status[r] = "none"

\* All connections are kept by transactions that wait for another one.
Starved ==
  /\ Cardinality({r \in Request : InTransaction(r)}) = PoolSize
  /\ \A r \in Request : InTransaction(r) => Head(todo[r]) \in OnPool

\* Only sign-ups with Google, which save the profile on a second connection, can
\* starve the pool (account.service.ts, line 113).
StarvedBySocialSignUps ==
  Starved => \A r \in Request : InTransaction(r) => endpoint[r] = "signUpWithGoogle"

\* Nothing ends a starvation but the end of the process: no request of it returns,
\* is refused or fails, whatever else arrives or shuts down.  The pool waits without a
\* limit (database.module.ts sets none).
StarvationLasts == [][Starved => Starved' \/ phase' = "exited"]_vars

\* Transactions keep no more connections than there are, and when they keep them all,
\* one of them goes on without asking for another, unless the pool is starved.
NoOtherDeadlock ==
  ~FreeConnection =>
    /\ Cardinality({r \in Request : InTransaction(r)}) = PoolSize
    /\ Starved \/ \E r \in Request : InTransaction(r) /\ Head(todo[r]) \notin OnPool

\* A pool with a connection more than there are sign-ups with Google under way is
\* never starved.
SparedBySize ==
  Cardinality({r \in Request : Pending(r) /\ endpoint[r] = "signUpWithGoogle"}) < PoolSize
    => ~Starved

\* The endpoints that send commands to Redis.
RedisUsers ==
  {"signInWithGoogle", "signInWithEmail", "signUpWithGoogle", "verify", "refresh", "logout",
   "findOne", "update", "remove"}

\* As long as no service rejects a command, a shutdown makes nothing fail but the
\* requests that need Redis after its client was closed.
ShutdownFailsOnlyRedisUsers ==
  \A r \in Request :
    outcome[r] = "Error" =>
      faults > 0 \/ (client = "end" /\ endpoint[r] \in RedisUsers)

\* Who asks for readiness once a destroy hook has run is told no, whichever
\* hook it was.
UnreadyAfterHooks ==
  \A r \in late : status[r] # "success"

\* A request is answered, or lost with the process, unless the pool is starved.
RequestsEnd == \A r \in Request : Pending(r) ~> (~Pending(r) \/ Starved)

\* A shutdown ends, however many requests keep coming: with every request
\* answered, unless the process is killed or Nest gave up; or the pool is starved.
ShutdownEnds ==
  (phase = "destroying") ~>
    \/ phase = "stopped" /\ \A r \in Request : outcome[r] # "lost"
    \/ phase = "exited"
    \/ Starved
=============================================================================

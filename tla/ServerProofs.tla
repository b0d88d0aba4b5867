---------------------------- MODULE ServerProofs ----------------------------
(* Proofs of the safety properties of Server for every number of requests,  *)
(* every size of the pool and every set of configuration files.             *)
EXTENDS Server, SequenceTheorems, FiniteSetTheorems, TLAPS

-----------------------------------------------------------------------------
(* Routes                                                                  *)

\* The steps of pipes and handlers.
Work == Step \ {"context"}

\* The interceptor runs once, and only guards before it.
Guarded(s) ==
  \A i \in 1 .. Len(s) :
    s[i] = "context" =>
      /\ \A j \in 1 .. i - 1 : s[j] \in {"project", "bearer"}
      /\ \A j \in i + 1 .. Len(s) : s[j] # "context"

Routes == {s \in Seq(Step) : Guarded(s)}

WholeRoutes == {s \in Routes : Contains(s, "context")}

\* A route of guards, the interceptor and work is guarded.
LEMMA RouteShape ==
  ASSUME NEW g \in Seq({"project", "bearer"}), NEW p \in Seq(Work), NEW h \in Seq(Work)
  PROVE  Route(g, p, h) \in WholeRoutes
<1> DEFINE s == Route(g, p, h)
<1>1. /\ s \in Seq(Step)
      /\ Len(s) = Len(g) + 1 + Len(p) + Len(h)
      /\ \A i \in 1 .. Len(g) : s[i] \in {"project", "bearer"}
      /\ \A i \in Len(g) + 2 .. Len(s) : s[i] # "context"
  BY DEF Route, Work, Step
<1>2. Guarded(s)
  BY <1>1, SMTT(30) DEF Guarded
<1>3. Contains(s, "context")
  <2>1. Len(g) + 1 \in 1 .. Len(s) /\ s[Len(g) + 1] = "context"
    BY DEF Route, Work, Step
  <2> QED BY <2>1 DEF Contains
<1> QED BY <1>1, <1>2, <1>3 DEF Routes, WholeRoutes

\* What the controllers hand over is work.
LEMMA HandlersWork ==
  /\ VerifyIdToken \o SignInWithSocial \o CreateSession \in Seq(Work)
  /\ AppleSignIn \o CreateSession \in Seq(Work)
  /\ EmailSignIn \o CreateSession \in Seq(Work)
  /\ VerifyIdToken \o SignUpWithSocial \o CreateSession \in Seq(Work)
  /\ EmailSignUp \in Seq(Work)
  /\ EmailVerify \o CreateSession \in Seq(Work)
  /\ EmailResend \in Seq(Work)
  /\ VerifyIdToken \o LinkSocial \in Seq(Work)
  /\ UnlinkSocial \in Seq(Work)
  /\ RefreshSession \in Seq(Work)
  /\ RevokeSession \in Seq(Work)
  /\ ExampleFindOne \in Seq(Work)
  /\ ExampleUpdate \in Seq(Work)
  /\ ExampleRemove \in Seq(Work)
  /\ Readiness \in Seq(Work)
  BY DEF Work, Step, VerifyIdToken, SignInWithSocial, CreateSession, AppleSignIn,
         EmailSignIn, SignUpWithSocial, EmailSignUp, EmailVerify, EmailResend,
         LinkSocial, UnlinkSocial, RefreshSession, RevokeSession, ExampleFindOne,
         ExampleUpdate, ExampleRemove, Readiness, UpsertProperties,
         DatabaseHealthIndicator, RedisHealthIndicator

\* Tables of routes together are a table of routes.
LEMMA TablesTogether ==
  ASSUME NEW C, \A c \in C : \A e \in DOMAIN c : c[e] \in WholeRoutes
  PROVE  \A e \in DOMAIN Together(C) : Together(C)[e] \in WholeRoutes
<1> TAKE e \in DOMAIN Together(C)
<1>1. PICK c \in C : e \in DOMAIN c
  BY DEF Together
<1>2. Together(C)[e] = (CHOOSE d \in C : e \in DOMAIN d)[e]
  BY DEF Together
<1>3. (CHOOSE d \in C : e \in DOMAIN d) \in C /\ e \in DOMAIN (CHOOSE d \in C : e \in DOMAIN d)
  BY <1>1
<1> QED BY <1>2, <1>3

LEMMA PipesWork == ValidationPipe \in Seq(Work) /\ <<>> \in Seq(Work) /\ <<"sql">> \in Seq(Work)
  BY DEF ValidationPipe, Work, Step

LEMMA GuardsGuard ==
  /\ ProjectGuard \in Seq({"project", "bearer"})
  /\ BearerGuard \in Seq({"project", "bearer"})
  /\ <<>> \in Seq({"project", "bearer"})
  BY DEF ProjectGuard, BearerGuard

LEMMA RoutesOfHandlers ==
  /\ \A h \in Seq(Work) :
       /\ ForProject(h) \in WholeRoutes
       /\ ForAccount(ValidationPipe, h) \in WholeRoutes
       /\ ForAccount(<<>>, h) \in WholeRoutes
       /\ ForAnyone(ValidationPipe, h) \in WholeRoutes
       /\ ForAnyone(<<>>, h) \in WholeRoutes
  /\ Route(ProjectGuard, <<>>, <<>>) \in WholeRoutes
  BY RouteShape, PipesWork, GuardsGuard DEF ForProject, ForAccount, ForAnyone

LEMMA EndpointsRoute ==
  /\ ForProject(VerifyIdToken \o SignInWithSocial \o CreateSession) \in WholeRoutes
  /\ ForProject(AppleSignIn \o CreateSession) \in WholeRoutes
  /\ ForProject(EmailSignIn \o CreateSession) \in WholeRoutes
  /\ ForProject(VerifyIdToken \o SignUpWithSocial \o CreateSession) \in WholeRoutes
  /\ ForProject(EmailSignUp) \in WholeRoutes
  /\ ForProject(EmailVerify \o CreateSession) \in WholeRoutes
  /\ ForProject(EmailResend) \in WholeRoutes
  /\ ForAccount(ValidationPipe, VerifyIdToken \o LinkSocial) \in WholeRoutes
  /\ ForAccount(<<>>, UnlinkSocial) \in WholeRoutes
  /\ ForAnyone(<<>>, <<>>) \in WholeRoutes
  /\ ForAnyone(<<>>, <<"sql">>) \in WholeRoutes
  /\ ForAnyone(ValidationPipe, <<"sql">>) \in WholeRoutes
  BY RoutesOfHandlers, HandlersWork, PipesWork, Zenon

LEMMA ControllersRoute ==
  \A c \in {SigninController, SignupController, EmailController, LinkController,
            SessionController, TokenController, WellKnownController, ExampleController,
            HealthController} :
    \A e \in DOMAIN c : c[e] \in WholeRoutes
<1>1. \A e \in DOMAIN SigninController : SigninController[e] \in WholeRoutes
  BY EndpointsRoute, RoutesOfHandlers, HandlersWork DEF SigninController
<1>2. \A e \in DOMAIN SignupController : SignupController[e] \in WholeRoutes
  BY EndpointsRoute, RoutesOfHandlers, HandlersWork DEF SignupController
<1>3. \A e \in DOMAIN EmailController : EmailController[e] \in WholeRoutes
  BY EndpointsRoute, RoutesOfHandlers, HandlersWork DEF EmailController
<1>4. \A e \in DOMAIN LinkController : LinkController[e] \in WholeRoutes
  BY EndpointsRoute, RoutesOfHandlers, HandlersWork DEF LinkController
<1>5. \A e \in DOMAIN SessionController : SessionController[e] \in WholeRoutes
  BY EndpointsRoute, RoutesOfHandlers, HandlersWork DEF SessionController
<1>6. \A e \in DOMAIN TokenController : TokenController[e] \in WholeRoutes
  BY EndpointsRoute, RoutesOfHandlers DEF TokenController
<1>7. \A e \in DOMAIN WellKnownController : WellKnownController[e] \in WholeRoutes
  BY EndpointsRoute, RoutesOfHandlers DEF WellKnownController
<1>8. \A e \in DOMAIN ExampleController : ExampleController[e] \in WholeRoutes
  BY EndpointsRoute, RoutesOfHandlers, HandlersWork DEF ExampleController
<1>9. \A e \in DOMAIN HealthController : HealthController[e] \in WholeRoutes
  BY EndpointsRoute, RoutesOfHandlers, HandlersWork DEF HealthController
<1> QED BY <1>1, <1>2, <1>3, <1>4, <1>5, <1>6, <1>7, <1>8, <1>9

\* Every endpoint of either application has a guarded route.
LEMMA RoutesAreGuarded ==
  \A a \in App : \A e \in DOMAIN Application[a].routes : Application[a].routes[e] \in WholeRoutes
<1>1. \A e \in DOMAIN AuthModule.routes : AuthModule.routes[e] \in WholeRoutes
  BY TablesTogether, ControllersRoute DEF AuthModule
<1>2. \A e \in DOMAIN ExampleModule.routes : ExampleModule.routes[e] \in WholeRoutes
  BY TablesTogether, ControllersRoute DEF ExampleModule
<1> QED BY <1>1, <1>2 DEF App, Application

\* What is left of a guarded route after its first step.
LEMMA TailGuarded ==
  ASSUME NEW s \in Routes, s # <<>>
  PROVE  /\ Tail(s) \in Routes
         /\ Head(s) = "context" => ~Contains(Tail(s), "context")
         /\ Head(s) # "context" => (Contains(Tail(s), "context") <=> Contains(s, "context"))
         /\ Contains(s, "context") => Head(s) \in {"project", "bearer", "context"}
<1>1. /\ Tail(s) \in Seq(Step)
      /\ Len(Tail(s)) = Len(s) - 1
      /\ \A i \in 1 .. Len(s) - 1 : Tail(s)[i] = s[i + 1]
      /\ Head(s) = s[1]
      /\ Len(s) \in Nat \ {0}
  BY DEF Routes
<1>2. \A i \in 2 .. Len(s) : s[i] = Tail(s)[i - 1]
  BY <1>1
<1>3. Guarded(s)
  BY DEF Routes
<1>4. Guarded(Tail(s))
  BY <1>1, <1>3 DEF Guarded
<1>5. Head(s) = "context" => ~Contains(Tail(s), "context")
  BY <1>1, <1>3 DEF Guarded, Contains
<1>6. Head(s) # "context" => (Contains(Tail(s), "context") <=> Contains(s, "context"))
  BY <1>1, <1>2 DEF Contains
<1>7. Contains(s, "context") => Head(s) \in {"project", "bearer", "context"}
  BY <1>1, <1>3 DEF Guarded, Contains
<1> QED BY <1>1, <1>4, <1>5, <1>6, <1>7 DEF Routes

-----------------------------------------------------------------------------
(* Requests, their contexts and their answers                              *)

TodoGuarded == \A r \in Request : todo[r] \in Routes

\* Of a request under way only the interceptor has logged a line.
LinesSoFar ==
  \A r \in Request :
    Pending(r) => lines[r] = IF Contains(todo[r], "context") THEN {} ELSE {"request"}

Ind == TypeOK /\ TodoGuarded /\ OwnContext /\ LinesSoFar /\ AnswerFitsOutcome

LEMMA EmptyRoute == <<>> \in Routes /\ ~Contains(<<>>, "context")
  BY DEF Routes, Guarded, Contains

\* Each exception comes to its own filter.
LEMMA OwnFilter ==
  \A how :
    /\ how = "HttpException" => Caught(how).status = "refused" /\ Caught(how).lines = {}
    /\ how = "Error" =>
         Caught(how).status = "internal error" /\ Caught(how).lines = {"error"}
<1>1. DOMAIN Filters = {1, 2}
  BY DEF Filters
<1>2. /\ ~Catches("HttpExceptionFilter", "Error")
      /\ Catches("HttpExceptionFilter", "HttpException")
      /\ Catches("GlobalExceptionFilter", "Error")
  BY DEF Catches
<1>3. FilterOf("HttpException") = "HttpExceptionFilter"
  <2>1. Filters[2] = "HttpExceptionFilter"
    BY DEF Filters
  <2>2. \A i \in DOMAIN Filters :
          (/\ Catches(Filters[i], "HttpException")
           /\ \A j \in DOMAIN Filters : j > i => ~Catches(Filters[j], "HttpException"))
          <=> i = 2
    BY <1>1, <1>2, <2>1
  <2> QED BY <1>1, <2>1, <2>2 DEF FilterOf
<1>4. FilterOf("Error") = "GlobalExceptionFilter"
  <2>1. Filters[1] = "GlobalExceptionFilter" /\ Filters[2] = "HttpExceptionFilter"
    BY DEF Filters
  <2>2. \A i \in DOMAIN Filters :
          (/\ Catches(Filters[i], "Error")
           /\ \A j \in DOMAIN Filters : j > i => ~Catches(Filters[j], "Error"))
          <=> i = 1
    BY <1>1, <1>2, <2>1
  <2> QED BY <1>1, <2>1, <2>2 DEF FilterOf
<1> QED BY <1>3, <1>4 DEF Caught

\* The initial states.
LEMMA InitInd == Init => Ind
<1> SUFFICES ASSUME Init PROVE Ind
  OBVIOUS
<1>1. TypeOK
  <2>1. \A a \in App : Application[a].hooks \subseteq {"RedisService", "TerminationService"}
    BY DEF App, Application, AuthModule, ExampleModule
  <2>2. <<>> \in Seq(Step) /\ 0 \in 0 .. MaxFaults
    BY ServerAssumption
  <2> QED BY <2>1, <2>2 DEF Init, TypeOK, File
<1>2. TodoGuarded /\ OwnContext /\ LinesSoFar /\ AnswerFitsOutcome
  BY EmptyRoute DEF Init, TodoGuarded, OwnContext, LinesSoFar, AnswerFitsOutcome, Pending
<1> QED BY <1>1, <1>2 DEF Ind

\* A step that leaves the requests alone.
LEMMA RequestsKept ==
  ASSUME Ind, UNCHANGED requests, TypeOK'
  PROVE  Ind'
  BY DEF Ind, requests, TodoGuarded, OwnContext, LinesSoFar, AnswerFitsOutcome, Pending

\* A request goes on to its next step, through the interceptor or after or before it.
LEMMA AdvanceInd ==
  ASSUME Ind, NEW r \in Request, Pending(r), todo[r] # <<>>, Advance(r),
         \/ Head(todo[r]) = "context" /\ Run(r) /\ lines' = [lines EXCEPT ![r] = @ \cup {"request"}]
         \/ Head(todo[r]) # "context" /\ UNCHANGED <<context, lines>>
  PROVE  Ind'
<1> USE DEF Ind
<1>1. todo[r] \in Routes /\ Tail(todo[r]) \in Routes /\ Tail(todo[r]) \in Seq(Step)
  BY TailGuarded DEF TodoGuarded, Routes
<1>2. todo' = [todo EXCEPT ![r] = Tail(todo[r])]
  BY DEF Advance
<1>3. /\ context' = [context EXCEPT ![r] = context'[r]]
      /\ lines' = [lines EXCEPT ![r] = lines'[r]]
      /\ context'[r] = IF Contains(Tail(todo[r]), "context") THEN NoContext ELSE r
      /\ lines'[r] = IF Contains(Tail(todo[r]), "context") THEN {} ELSE {"request"}
  <2>1. CASE Head(todo[r]) = "context"
    <3>1. Contains(todo[r], "context")
      BY <1>1, <2>1 DEF Contains, Routes
    <3> QED BY <1>1, <2>1, <3>1, TailGuarded DEF Run, TypeOK, LinesSoFar
  <2>2. CASE Head(todo[r]) # "context"
    BY <1>1, <2>2, TailGuarded DEF TypeOK, OwnContext, LinesSoFar
  <2> QED BY <2>1, <2>2
<1>4. TypeOK'
  <2>1. UNCHANGED <<app, phase, startup, process, endpoint, outcome, status, late, faults>>
    BY DEF Advance
  <2>2. /\ todo' \in [Request -> Seq(Step)]
        /\ context' \in [Request -> Request \cup {NoContext}]
        /\ lines' \in [Request -> SUBSET {"request", "response", "error"}]
    <3>1. todo' \in [Request -> Seq(Step)]
      BY <1>1, <1>2 DEF TypeOK
    <3>2. context'[r] \in Request \cup {NoContext}
      BY <1>3
    <3>3. context' \in [Request -> Request \cup {NoContext}]
      BY <1>3, <3>2 DEF TypeOK
    <3>4. lines'[r] \in SUBSET {"request", "response", "error"}
      BY <1>3
    <3>5. lines' \in [Request -> SUBSET {"request", "response", "error"}]
      BY <1>3, <3>4 DEF TypeOK
    <3> QED BY <3>1, <3>3, <3>5
  <2>3. \A q \in Request : outcome'[q] # "pending" => todo'[q] = <<>> /\ context'[q] = NoContext
    BY <1>2, <1>3, <2>1 DEF TypeOK, Pending
  <2> QED BY <2>1, <2>2, <2>3 DEF TypeOK, startup, process
<1>5. TodoGuarded'
  BY <1>1, <1>2 DEF TodoGuarded, TypeOK
<1>6. OwnContext' /\ LinesSoFar'
  <2>1. outcome' = outcome
    BY DEF Advance
  <2>2. todo'[r] = Tail(todo[r]) /\ \A q \in Request \ {r} : todo'[q] = todo[q]
    BY <1>2 DEF TypeOK
  <2>3. \A q \in Request \ {r} : context'[q] = context[q] /\ lines'[q] = lines[q]
    BY <1>3 DEF TypeOK
  <2>4. \A q \in Request \ {r} :
          /\ context'[q] = IF Pending(q)' /\ ~Contains(todo'[q], "context") THEN q ELSE NoContext
          /\ Pending(q)' => lines'[q] = IF Contains(todo'[q], "context") THEN {} ELSE {"request"}
    BY <2>1, <2>2, <2>3 DEF OwnContext, LinesSoFar, Pending
  <2>5. /\ context'[r] = IF Pending(r)' /\ ~Contains(todo'[r], "context") THEN r ELSE NoContext
        /\ lines'[r] = IF Contains(todo'[r], "context") THEN {} ELSE {"request"}
    BY <1>3, <2>1, <2>2 DEF Pending
  <2> QED BY <2>4, <2>5 DEF OwnContext, LinesSoFar
<1>7. AnswerFitsOutcome'
  <2>1. UNCHANGED <<outcome, status>>
    BY DEF Advance
  <2>2. \A q \in Request \ {r} : lines'[q] = lines[q]
    BY <1>3 DEF TypeOK
  <2> QED BY <2>1, <2>2 DEF AnswerFitsOutcome, Pending
<1> QED BY <1>4, <1>5, <1>6, <1>7

\* The handling of a request ends.
LEMMA EndInd ==
  ASSUME Ind, NEW r \in Request, NEW how \in {"returned", "HttpException", "Error"}, Pending(r),
         how = "returned" => ~Contains(todo[r], "context"),
         End(r, how), faults' \in 0 .. MaxFaults
  PROVE  Ind'
<1> USE DEF Ind
<1>1. /\ todo' = [todo EXCEPT ![r] = <<>>]
      /\ context' = [context EXCEPT ![r] = NoContext]
      /\ outcome' = [outcome EXCEPT ![r] = how]
      /\ UNCHANGED <<app, phase, startup, process, endpoint, late>>
  BY DEF End, Answer
<1>2. /\ status' = [status EXCEPT ![r] = status'[r]]
      /\ lines' = [lines EXCEPT ![r] = lines'[r]]
      /\ how = "returned" =>
           status'[r] = "success" /\ lines'[r] = {"request", "response"}
      /\ how = "HttpException" => status'[r] = "refused" /\ lines'[r] \subseteq {"request"}
      /\ how = "Error" =>
           /\ status'[r] = "internal error"
           /\ "error" \in lines'[r] /\ lines'[r] \subseteq {"request", "error"}
  <2>1. lines[r] \subseteq {"request"} /\ (how = "returned" => lines[r] = {"request"})
    BY DEF LinesSoFar
  <2>2. /\ status' = [status EXCEPT ![r] = IF how = "returned" THEN "success"
                                            ELSE Caught(how).status]
        /\ lines' = [lines EXCEPT ![r] = @ \cup IF how = "returned" THEN {"response"}
                                                 ELSE Caught(how).lines]
    BY DEF End, Answer
  <2>3. /\ how = "HttpException" => Caught(how).status = "refused" /\ Caught(how).lines = {}
        /\ how = "Error" =>
             Caught(how).status = "internal error" /\ Caught(how).lines = {"error"}
    BY OwnFilter
  <2> QED BY <2>1, <2>2, <2>3 DEF TypeOK
<1>3. TypeOK'
  <2>1. /\ outcome' \in [Request -> {"none", "pending", "returned", "HttpException", "Error",
                                      "lost"}]
        /\ todo' \in [Request -> Seq(Step)]
        /\ context' \in [Request -> Request \cup {NoContext}]
    <3>0. /\ todo \in [Request -> Seq(Step)]
          /\ outcome \in [Request -> {"none", "pending", "returned", "HttpException",
                                      "Error", "lost"}]
      BY DEF TypeOK
    <3>1. outcome' \in [Request -> {"none", "pending", "returned", "HttpException", "Error",
                                    "lost"}]
      BY <1>1, <3>0
    <3>2. <<>> \in Seq(Step)
      OBVIOUS
    <3>3. todo' \in [Request -> Seq(Step)]
      BY <1>1, <3>0, <3>2, Zenon
    <3>4. context' \in [Request -> Request \cup {NoContext}]
      BY <1>1 DEF TypeOK
    <3> QED BY <3>1, <3>3, <3>4
  <2>2. /\ status' \in [Request -> {"none", "success", "refused", "internal error"}]
        /\ lines' \in [Request -> SUBSET {"request", "response", "error"}]
    <3>1. /\ status'[r] \in {"none", "success", "refused", "internal error"}
          /\ lines'[r] \in SUBSET {"request", "response", "error"}
      BY <1>2
    <3> QED BY <1>2, <3>1 DEF TypeOK
  <2>3. \A q \in Request : outcome'[q] # "pending" => todo'[q] = <<>> /\ context'[q] = NoContext
    BY <1>1 DEF TypeOK
  <2> QED BY <1>1, <2>1, <2>2, <2>3 DEF TypeOK, startup, process
<1>4. TodoGuarded'
  BY <1>1, EmptyRoute DEF TodoGuarded, TypeOK
<1>5. OwnContext' /\ LinesSoFar'
  BY <1>1, <1>2 DEF OwnContext, LinesSoFar, Pending, TypeOK
<1>6. AnswerFitsOutcome'
  <2>1. \A q \in Request \ {r} :
          outcome'[q] = outcome[q] /\ status'[q] = status[q] /\ lines'[q] = lines[q]
    BY <1>1, <1>2 DEF TypeOK
  <2>2. outcome'[r] = how
    BY <1>1 DEF TypeOK
  <2> QED BY <1>2, <2>1, <2>2 DEF AnswerFitsOutcome
<1> QED BY <1>3, <1>4, <1>5, <1>6

\* The process is gone.
LEMMA ExitInd ==
  ASSUME Ind, Exit, faults' \in 0 .. MaxFaults
  PROVE  Ind'
<1> USE DEF Ind
<1>1. TypeOK'
  <2>1. UNCHANGED <<app, startup, process, endpoint, status, lines, late>> /\ phase' = "exited"
    BY DEF Exit
  <2>2. /\ todo' \in [Request -> Seq(Step)]
        /\ context' \in [Request -> Request \cup {NoContext}]
        /\ outcome' \in [Request -> {"none", "pending", "returned", "HttpException", "Error",
                                      "lost"}]
        /\ \A q \in Request : todo'[q] = <<>> /\ context'[q] = NoContext
    <3>1. outcome' \in [Request -> {"none", "pending", "returned", "HttpException", "Error",
                                    "lost"}]
      BY DEF Exit, TypeOK
    <3>2. <<>> \in Seq(Step)
      OBVIOUS
    <3>3. todo' \in [Request -> Seq(Step)] /\ \A q \in Request : todo'[q] = <<>>
      BY <3>2 DEF Exit
    <3>4. context' \in [Request -> Request \cup {NoContext}]
      BY DEF Exit
    <3>5. \A q \in Request : context'[q] = NoContext
      BY DEF Exit
    <3> QED BY <3>1, <3>3, <3>4, <3>5
  <2> QED BY <2>1, <2>2 DEF TypeOK, startup, process
<1>2. TodoGuarded' /\ OwnContext' /\ LinesSoFar'
  BY EmptyRoute DEF TodoGuarded, OwnContext, LinesSoFar, Exit, Pending, TypeOK
<1>3. AnswerFitsOutcome'
  BY DEF AnswerFitsOutcome, Exit, Pending, TypeOK
<1> QED BY <1>1, <1>2, <1>3

LEMMA FaultsBounded ==
  ASSUME Ind
  PROVE  /\ faults \in 0 .. MaxFaults
         /\ faults < MaxFaults => faults + 1 \in 0 .. MaxFaults
<1>1. faults \in 0 .. MaxFaults
  BY DEF Ind, TypeOK
<1>2. MaxFaults \in Nat
  BY ServerAssumption
<1> QED BY <1>1, <1>2

\* A request comes.
LEMMA ArriveInd ==
  ASSUME Ind, NEW r \in Request, NEW e \in DOMAIN Application[app].routes, Arrive(r, e)
  PROVE  Ind'
<1> USE DEF Ind
<1> DEFINE route == Application[app].routes[e]
<1>1. app \in App /\ route \in Routes /\ route \in Seq(Step) /\ e \in Endpoint
  BY RoutesAreGuarded DEF TypeOK, Routes, WholeRoutes, Endpoint
<1> HIDE DEF route
<1>2. /\ endpoint' = [endpoint EXCEPT ![r] = e]
      /\ todo' = [todo EXCEPT ![r] = route]
      /\ outcome' = [outcome EXCEPT ![r] = "pending"]
      /\ status' = [status EXCEPT ![r] = "none"]
      /\ lines' = [lines EXCEPT ![r] = {}]
      /\ late' \in {late \ {r}, late \cup {r}}
      /\ UNCHANGED <<app, phase, startup, process, context, faults>>
  BY DEF Arrive, route
<1>3. context[r] = NoContext
  BY DEF Arrive, OwnContext
<1>4. TypeOK'
  <2>1. todo' \in [Request -> Seq(Step)]
    BY <1>1, <1>2 DEF TypeOK
  <2>2. endpoint' \in [Request -> Endpoint \cup {NoEndpoint}]
    BY <1>1, <1>2 DEF TypeOK
  <2>3. outcome' \in [Request -> {"none", "pending", "returned", "HttpException", "Error",
                                  "lost"}]
    BY <1>2 DEF TypeOK
  <2>4. /\ status' \in [Request -> {"none", "success", "refused", "internal error"}]
        /\ lines' \in [Request -> SUBSET {"request", "response", "error"}]
        /\ late' \in SUBSET Request
    BY <1>2 DEF TypeOK
  <2>5. \A q \in Request : outcome'[q] # "pending" => todo'[q] = <<>> /\ context'[q] = NoContext
    BY <1>2 DEF TypeOK
  <2> QED BY <1>2, <2>1, <2>2, <2>3, <2>4, <2>5 DEF TypeOK, startup, process
<1>5. TodoGuarded'
  BY <1>1, <1>2 DEF TodoGuarded, TypeOK
<1>6. /\ outcome'[r] = "pending" /\ todo'[r] = route /\ lines'[r] = {} /\ status'[r] = "none"
      /\ \A q \in Request \ {r} :
           /\ outcome'[q] = outcome[q] /\ todo'[q] = todo[q] /\ lines'[q] = lines[q]
           /\ status'[q] = status[q]
  BY <1>2 DEF TypeOK
<1>7. Contains(route, "context")
  BY RoutesAreGuarded, <1>1 DEF WholeRoutes, route
<1>8. OwnContext' /\ LinesSoFar'
  BY <1>2, <1>3, <1>6, <1>7 DEF OwnContext, LinesSoFar, Pending
<1>9. AnswerFitsOutcome'
  BY <1>6 DEF AnswerFitsOutcome
<1> QED BY <1>4, <1>5, <1>8, <1>9

\* A request under way with a step before it.
LEMMA AtStep ==
  ASSUME Ind, NEW r \in Request, NEW S, At(r, S)
  PROVE  /\ Pending(r) /\ todo[r] # <<>> /\ Head(todo[r]) \in S
         /\ todo[r] \in Routes
         /\ Head(todo[r]) \notin {"project", "bearer", "context"} =>
              ~Contains(todo[r], "context")
  BY TailGuarded DEF At, Ind, TodoGuarded

\* The process goes on with a request.
LEMMA HandleInd ==
  ASSUME Ind, NEW r \in Request, Handle(r)
  PROVE  Ind'
<1>0. faults \in 0 .. MaxFaults
  BY DEF Ind, TypeOK
<1>1. CASE Intercept(r)
  <2>1. At(r, {"context"}) /\ Advance(r) /\ Run(r)
        /\ lines' = [lines EXCEPT ![r] = @ \cup {"request"}]
    BY <1>1 DEF Intercept
  <2>2. Pending(r) /\ todo[r] # <<>> /\ Head(todo[r]) = "context"
    BY <2>1, AtStep
  <2> QED BY <2>1, <2>2, AdvanceInd
<1>2. CASE Succeed(r)
  <2>1. At(r, Step \ {"context", "stub", "terminating"}) /\ Advance(r)
        /\ UNCHANGED <<context, lines>>
    BY <1>2 DEF Succeed
  <2>2. Pending(r) /\ todo[r] # <<>> /\ Head(todo[r]) # "context"
    BY <2>1, AtStep
  <2> QED BY <2>1, <2>2, AdvanceInd
<1>3. CASE NotTerminating(r)
  <2>1. At(r, {"terminating"}) /\ Advance(r) /\ UNCHANGED <<context, lines>>
    BY <1>3 DEF NotTerminating
  <2>2. Pending(r) /\ todo[r] # <<>> /\ Head(todo[r]) # "context"
    BY <2>1, AtStep
  <2> QED BY <2>1, <2>2, AdvanceInd
<1>4. CASE Return(r)
  <2>1. Pending(r) /\ ~Contains(todo[r], "context")
    <3>1. CASE Pending(r) /\ todo[r] = <<>>
      BY <3>1, EmptyRoute
    <3>2. CASE At(r, {"unless"})
      BY <3>2, AtStep
    <3> QED BY <1>4, <3>1, <3>2 DEF Return
  <2> QED BY <1>0, <1>4, <2>1, EndInd DEF Return
<1>5. CASE Refuse(r)
  <2>1. Pending(r)
    BY <1>5, AtStep DEF Refuse
  <2> QED BY <1>0, <1>5, <2>1, EndInd DEF Refuse
<1>6. CASE RefuseTerminating(r)
  <2>1. Pending(r)
    BY <1>6, AtStep DEF RefuseTerminating
  <2> QED BY <1>0, <1>6, <2>1, EndInd DEF RefuseTerminating
<1>7. CASE FailClosed(r)
  <2>1. Pending(r)
    BY <1>7, AtStep DEF FailClosed
  <2>2. Thrown(Head(todo[r])) \in {"HttpException", "Error"}
    BY DEF Thrown
  <2> QED BY <1>0, <1>7, <2>1, <2>2, EndInd DEF FailClosed
<1> QED BY <1>1, <1>2, <1>3, <1>4, <1>5, <1>6, <1>7 DEF Handle

\* A step that is about no request: the start and the shutdown of the process.
LEMMA ProcessInd ==
  ASSUME Ind, Start \/ Shutdown \/ Sigterm \/ QuitRejected \/ Kill
  PROVE  Ind'
<1>0. TypeOK
  BY DEF Ind
<1>1. CASE \E f \in File : CopyFile(f)
  <2>1. UNCHANGED requests
    BY <1>1 DEF CopyFile
  <2>2. TypeOK'
    <3>1. dist' \in [File -> App \cup {NoApp}]
      BY <1>0, <1>1 DEF CopyFile, TypeOK
    <3>2. toCopy' \in SUBSET File /\ toLoad' \in SUBSET File
      BY <1>0, <1>1 DEF CopyFile, TypeOK, File, Copied
    <3> QED BY <1>0, <1>1, <2>1, <3>1, <3>2 DEF CopyFile, TypeOK, process, requests
  <2> QED BY <2>1, <2>2, RequestsKept
<1>2. CASE \E f \in File : LoadFile(f)
  <2>1. UNCHANGED requests
    BY <1>2 DEF LoadFile
  <2>2. TypeOK'
    BY <1>0, <1>2, <2>1 DEF LoadFile, TypeOK, process, requests
  <2> QED BY <2>1, <2>2, RequestsKept
<1>3. CASE \E f \in File : NeighbourCopies(f)
  <2>1. UNCHANGED requests
    BY <1>3 DEF NeighbourCopies
  <2>2. TypeOK'
    <3>1. dist' \in [File -> App \cup {NoApp}]
      BY <1>0, <1>3 DEF NeighbourCopies, TypeOK
    <3> QED BY <1>0, <1>3, <2>1, <3>1 DEF NeighbourCopies, TypeOK, process, requests
  <2> QED BY <2>1, <2>2, RequestsKept
<1>4. CASE Listen
  <2>1. UNCHANGED requests
    BY <1>4 DEF Listen
  <2>2. TypeOK'
    BY <1>0, <1>4, <2>1 DEF Listen, CreateClients, TypeOK, process, requests
  <2> QED BY <2>1, <2>2, RequestsKept
<1>5. CASE BootFails \/ QuitRejected \/ Kill
  <2>1. Exit /\ faults' \in 0 .. MaxFaults
    BY <1>5, FaultsBounded DEF BootFails, QuitRejected, Kill
  <2> QED BY <2>1, ExitInd
<1>6. CASE Shutdown \/ Sigterm
  <2>1. UNCHANGED requests
    BY <1>6 DEF Shutdown, Sigterm, RunHook, Close, Stop
  <2>2. TypeOK'
    <3>1. CASE \E hook \in hooks : RunHook(hook)
      BY <1>0, <2>1, <3>1 DEF RunHook, Terminate, QuitClients, TypeOK, startup, requests
    <3>2. CASE Close \/ Stop \/ Sigterm
      BY <1>0, <2>1, <3>2 DEF Close, Stop, Sigterm, TypeOK, startup, process, requests
    <3> QED BY <1>6, <3>1, <3>2 DEF Shutdown
  <2> QED BY <2>1, <2>2, RequestsKept
<1> QED BY <1>1, <1>2, <1>3, <1>4, <1>5, <1>6 DEF Start

LEMMA NextInd == Ind /\ [Next]_vars => Ind'
<1> SUFFICES ASSUME Ind, [Next]_vars PROVE Ind'
  OBVIOUS
<1>1. CASE UNCHANGED vars
  <2>1. UNCHANGED requests
    BY <1>1 DEF vars
  <2>2. TypeOK'
    BY <1>1 DEF Ind, TypeOK, vars, startup, process, requests
  <2> QED BY <2>1, <2>2, RequestsKept
<1>2. ASSUME NEW r \in Request, Fault(r)
      PROVE  Ind'
  <2>1. Pending(r)
    BY <1>2, AtStep DEF Fault
  <2>2. Thrown(Head(todo[r])) \in {"HttpException", "Error"}
    BY DEF Thrown
  <2>3. faults' \in 0 .. MaxFaults
    BY <1>2, FaultsBounded DEF Fault
  <2> QED BY <1>2, <2>1, <2>2, <2>3, EndInd DEF Fault
<1> QED BY <1>1, <1>2, ArriveInd, HandleInd, ProcessInd DEF Next

\* The invariant of the requests.
THEOREM Requests == Spec => []Ind
<1>1. Init => Ind
  BY InitInd
<1>2. Ind /\ [Next]_vars => Ind'
  BY NextInd
<1> QED BY <1>1, <1>2, PTL DEF Spec

\* Every variable keeps its type, and a request that has ended has no step before
\* it and no context.
THEOREM TypeCorrect == Spec => []TypeOK
<1>1. Ind => TypeOK
  BY DEF Ind
<1> QED BY <1>1, Requests, PTL

\* However requests overlap, RequestContext names the one that is being handled.
THEOREM ContextIsOwn == Spec => []OwnContext
<1>1. Ind => OwnContext
  BY DEF Ind
<1> QED BY <1>1, Requests, PTL

\* Answers and log lines fit how the handlers ended.
THEOREM AnswersFit == Spec => []AnswerFitsOutcome
<1>1. Ind => AnswerFitsOutcome
  BY DEF Ind
<1> QED BY <1>1, Requests, PTL

-----------------------------------------------------------------------------
(* What single routes do with the services                                 *)

\* No command to Redis comes before the handler has refused.
NoRedis(s) ==
  \E i \in 1 .. Len(s) + 1 :
    /\ \A j \in 1 .. i - 1 : s[j] # "redis"
    /\ i <= Len(s) => s[i] = "stub"

\* A step that needs a connection of the pool is not inside a transaction.
PoolOutsideTransactions(s) ==
  \A j \in 1 .. Len(s) :
    s[j] = "commit" =>
      \A i \in 1 .. j - 1 : s[i] \in OnPool => \E k \in i .. j - 1 : s[k] = "begin"

ReadinessSteps == {"context", "terminating", "select1", "ping"}

Fits(e, s) ==
  /\ e \notin RedisUsers => NoRedis(s)
  /\ e # "signUpWithGoogle" => PoolOutsideTransactions(s)
  /\ Contains(s, "commit") => Contains(s, "begin")
  /\ e = "readiness" =>
       s \in Seq(ReadinessSteps) /\ Contains(s, "terminating") /\ Contains(s, "ping")

\* Guards, interceptor and pipes add none of these steps.
LEMMA RouteOver ==
  ASSUME NEW S, {"project", "bearer", "context", "body"} \subseteq S
  PROVE  /\ \A h \in Seq(S) :
              /\ ForProject(h) \in Seq(S)
              /\ ForAccount(ValidationPipe, h) \in Seq(S)
              /\ ForAccount(<<>>, h) \in Seq(S)
              /\ ForAnyone(ValidationPipe, h) \in Seq(S)
              /\ ForAnyone(<<>>, h) \in Seq(S)
         /\ Route(ProjectGuard, <<>>, <<>>) \in Seq(S)
<1>1. /\ ProjectGuard \in Seq(S) /\ BearerGuard \in Seq(S) /\ ValidationPipe \in Seq(S)
      /\ <<>> \in Seq(S) /\ <<"context">> \in Seq(S)
  BY DEF ProjectGuard, BearerGuard, ValidationPipe
<1>2. \A g, p, h \in Seq(S) : Route(g, p, h) \in Seq(S)
  BY <1>1 DEF Route
<1> QED BY <1>1, <1>2 DEF ForProject, ForAccount, ForAnyone

LEMMA WithoutRedis == \A s \in Seq(Step \ {"redis"}) : NoRedis(s)
<1> TAKE s \in Seq(Step \ {"redis"})
<1>1. Len(s) + 1 \in 1 .. Len(s) + 1 /\ ~(Len(s) + 1 <= Len(s))
  OBVIOUS
<1>2. \A j \in 1 .. Len(s) + 1 - 1 : s[j] # "redis"
  OBVIOUS
<1> QED BY <1>1, <1>2 DEF NoRedis

LEMMA WithoutCommit ==
  \A s \in Seq(Step \ {"commit"}) : PoolOutsideTransactions(s) /\ ~Contains(s, "commit")
  BY DEF PoolOutsideTransactions, Contains

LEMMA HandlersWithoutRedis ==
  /\ EmailSignUp \in Seq(Step \ {"redis"})
  /\ EmailResend \in Seq(Step \ {"redis"})
  /\ VerifyIdToken \o LinkSocial \in Seq(Step \ {"redis"})
  /\ UnlinkSocial \in Seq(Step \ {"redis"})
  /\ <<"sql">> \in Seq(Step \ {"redis"})
  /\ <<>> \in Seq(Step \ {"redis"})
  /\ Readiness \in Seq(Step \ {"redis"})
  BY DEF Step, EmailSignUp, EmailResend, VerifyIdToken, LinkSocial, UnlinkSocial, Readiness,
         DatabaseHealthIndicator, RedisHealthIndicator

LEMMA HandlersWithoutCommit ==
  /\ VerifyIdToken \o SignInWithSocial \o CreateSession \in Seq(Step \ {"commit"})
  /\ AppleSignIn \o CreateSession \in Seq(Step \ {"commit"})
  /\ EmailSignIn \o CreateSession \in Seq(Step \ {"commit"})
  /\ EmailVerify \o CreateSession \in Seq(Step \ {"commit"})
  /\ EmailResend \in Seq(Step \ {"commit"})
  /\ VerifyIdToken \o LinkSocial \in Seq(Step \ {"commit"})
  /\ UnlinkSocial \in Seq(Step \ {"commit"})
  /\ RefreshSession \in Seq(Step \ {"commit"})
  /\ RevokeSession \in Seq(Step \ {"commit"})
  /\ ExampleFindOne \in Seq(Step \ {"commit"})
  /\ ExampleUpdate \in Seq(Step \ {"commit"})
  /\ ExampleRemove \in Seq(Step \ {"commit"})
  /\ <<"sql">> \in Seq(Step \ {"commit"})
  /\ <<>> \in Seq(Step \ {"commit"})
  /\ Readiness \in Seq(Step \ {"commit"})
  BY DEF Step, VerifyIdToken, SignInWithSocial, CreateSession, AppleSignIn,
         EmailSignIn, EmailVerify, EmailResend, LinkSocial, UnlinkSocial, RefreshSession,
         RevokeSession, ExampleFindOne, ExampleUpdate, ExampleRemove, Readiness,
         UpsertProperties, DatabaseHealthIndicator, RedisHealthIndicator

\* The elements of a route for a project.
LEMMA ForProjectIs ==
  ASSUME NEW h \in Seq(Step)
  PROVE  /\ Len(ForProject(h)) = 3 + Len(h)
         /\ ForProject(h)[1] = "project"
         /\ ForProject(h)[2] = "context"
         /\ ForProject(h)[3] = "body"
         /\ \A i \in 4 .. 3 + Len(h) : ForProject(h)[i] = h[i - 3]
<1> DEFINE g == (<<"project">> \o <<"context">>) \o <<"body">>
<1>1. g \in Seq(Step) /\ Len(g) = 3 /\ g[1] = "project" /\ g[2] = "context" /\ g[3] = "body"
  BY DEF Step
<1>2. ForProject(h) = g \o h
  BY DEF ForProject, Route, ProjectGuard, ValidationPipe
<1> HIDE DEF g
<1>3. /\ Len(g \o h) = Len(g) + Len(h)
      /\ \A i \in 1 .. Len(g) + Len(h) :
           (g \o h)[i] = IF i <= Len(g) THEN g[i] ELSE h[i - Len(g)]
  BY <1>1, ConcatProperties
<1> QED BY <1>1, <1>2, <1>3

\* The routes that come near: Apple's stub refuses before a session is created, and
\* the sign-up by email takes its connection before it begins.
LEMMA AppleRefusesFirst == NoRedis(ForProject(AppleSignIn \o CreateSession))
<1> DEFINE h == AppleSignIn \o CreateSession
           s == ForProject(h)
<1>1. h \in Seq(Step) /\ Len(h) = 2 /\ h[1] = "stub"
  BY DEF AppleSignIn, CreateSession, Step
<1> HIDE DEF h
<1>0. /\ Len(s) = 3 + Len(h) /\ s[1] = "project" /\ s[2] = "context" /\ s[3] = "body"
      /\ \A i \in 4 .. 3 + Len(h) : s[i] = h[i - 3]
  BY <1>1, ForProjectIs
<1> HIDE DEF s
<1>2. Len(s) = 5 /\ s[1] = "project" /\ s[2] = "context" /\ s[3] = "body" /\ s[4] = "stub"
  BY <1>1, <1>0
<1>3. 4 \in 1 .. Len(s) + 1 /\ \A j \in 1 .. 4 - 1 : s[j] # "redis"
  BY <1>2
<1>4. NoRedis(s)
  BY <1>2, <1>3 DEF NoRedis
<1> QED BY <1>4 DEF s, h

LEMMA EmailSignUpOnOneConnection == PoolOutsideTransactions(ForProject(EmailSignUp))
<1> DEFINE s == ForProject(EmailSignUp)
<1>1. /\ EmailSignUp \in Seq(Step) /\ Len(EmailSignUp) = 4
      /\ EmailSignUp[1] = "find" /\ EmailSignUp[2] = "begin"
      /\ EmailSignUp[3] = "tx" /\ EmailSignUp[4] = "commit"
  BY DEF EmailSignUp, Step
<1>0. /\ Len(s) = 3 + Len(EmailSignUp)
      /\ s[1] = "project" /\ s[2] = "context" /\ s[3] = "body"
      /\ \A i \in 4 .. 3 + Len(EmailSignUp) : s[i] = EmailSignUp[i - 3]
  BY <1>1, ForProjectIs
<1> HIDE DEF s
<1>2. /\ Len(s) = 7 /\ s[1] = "project" /\ s[2] = "context" /\ s[3] = "body"
      /\ s[4] = "find" /\ s[5] = "begin" /\ s[6] = "tx"
  BY <1>1, <1>0
<1>3. \A j \in 1 .. Len(s) : s[j] = "commit" => j = 7
  BY <1>2
<1>4. \A i \in 1 .. 6 : s[i] \in OnPool => \E k \in i .. 6 : s[k] = "begin"
  BY <1>2 DEF OnPool
<1>5. PoolOutsideTransactions(s)
  BY <1>3, <1>4 DEF PoolOutsideTransactions
<1> QED BY <1>5 DEF s

\* Each part of a sequence is found in the whole.
LEMMA PartContained ==
  ASSUME NEW s \in Seq(Step), NEW t \in Seq(Step), NEW x, Contains(s, x) \/ Contains(t, x)
  PROVE  s \o t \in Seq(Step) /\ Contains(s \o t, x)
<1>1. /\ s \o t \in Seq(Step)
      /\ Len(s \o t) = Len(s) + Len(t)
      /\ \A i \in 1 .. Len(s) + Len(t) :
           (s \o t)[i] = IF i <= Len(s) THEN s[i] ELSE t[i - Len(s)]
  BY ConcatProperties
<1>2. CASE Contains(s, x)
  <2>1. PICK i \in 1 .. Len(s) : s[i] = x
    BY <1>2 DEF Contains
  <2>2. i \in 1 .. Len(s \o t) /\ (s \o t)[i] = x
    BY <1>1, <2>1
  <2> QED BY <1>1, <2>2 DEF Contains
<1>3. CASE Contains(t, x)
  <2>1. PICK i \in 1 .. Len(t) : t[i] = x
    BY <1>3 DEF Contains
  <2>2. /\ i + Len(s) \in 1 .. Len(s \o t)
        /\ ~(i + Len(s) <= Len(s)) /\ (i + Len(s)) - Len(s) = i
    BY <1>1, <2>1
  <2>3. (s \o t)[i + Len(s)] = x
    BY <1>1, <2>1, <2>2
  <2> QED BY <1>1, <2>2, <2>3 DEF Contains
<1> QED BY <1>2, <1>3

\* Who commits has begun.
LEMMA SignUpsBegin ==
  /\ Contains(ForProject(EmailSignUp), "begin")
  /\ Contains(ForProject(VerifyIdToken \o SignUpWithSocial \o CreateSession), "begin")
<1>1. ASSUME NEW h \in Seq(Step), Contains(h, "begin")
      PROVE  Contains(ForProject(h), "begin")
  <2> DEFINE g == (ProjectGuard \o <<"context">>) \o ValidationPipe
  <2>1. g \in Seq(Step) /\ ForProject(h) = g \o h
    BY DEF ForProject, Route, ProjectGuard, ValidationPipe, Step
  <2> HIDE DEF g
  <2> QED BY <1>1, <2>1, PartContained
<1>2. EmailSignUp \in Seq(Step) /\ Contains(EmailSignUp, "begin")
  <2>1. EmailSignUp \in Seq(Step) /\ 2 \in 1 .. Len(EmailSignUp) /\ EmailSignUp[2] = "begin"
    BY DEF EmailSignUp, Step
  <2> QED BY <2>1 DEF Contains
<1>3. SignUpWithSocial \in Seq(Step) /\ Contains(SignUpWithSocial, "begin")
  <2> DEFINE t == <<"find", "begin", "tx">>
  <2>1. t \in Seq(Step) /\ 2 \in 1 .. Len(t) /\ t[2] = "begin"
    BY DEF Step
  <2> HIDE DEF t
  <2>2. Contains(t, "begin")
    BY <2>1 DEF Contains
  <2>3. UpsertProperties \in Seq(Step) /\ <<"commit">> \in Seq(Step)
    BY DEF UpsertProperties, Step
  <2>4. t \o UpsertProperties \in Seq(Step) /\ Contains(t \o UpsertProperties, "begin")
    BY <2>1, <2>2, <2>3, PartContained
  <2>5. SignUpWithSocial = (t \o UpsertProperties) \o <<"commit">>
    BY DEF SignUpWithSocial, t
  <2> HIDE DEF t
  <2> QED BY <2>3, <2>4, <2>5, PartContained
<1>4. VerifyIdToken \in Seq(Step) /\ CreateSession \in Seq(Step)
  BY DEF VerifyIdToken, CreateSession, Step
<1>5. /\ (VerifyIdToken \o SignUpWithSocial) \o CreateSession \in Seq(Step)
      /\ Contains((VerifyIdToken \o SignUpWithSocial) \o CreateSession, "begin")
  BY <1>3, <1>4, PartContained
<1> QED BY <1>1, <1>2, <1>5

LEMMA RoutesWithoutRedis ==
  LET S == Seq(Step \ {"redis"}) IN
  /\ ForProject(EmailSignUp) \in S
  /\ ForProject(EmailResend) \in S
  /\ ForAccount(ValidationPipe, VerifyIdToken \o LinkSocial) \in S
  /\ ForAccount(<<>>, UnlinkSocial) \in S
  /\ Route(ProjectGuard, <<>>, <<>>) \in S
  /\ ForAnyone(<<>>, <<>>) \in S
  /\ ForAnyone(ValidationPipe, <<"sql">>) \in S
  /\ ForAnyone(<<>>, <<"sql">>) \in S
  /\ ForAnyone(<<>>, Readiness) \in S
<1>1. {"project", "bearer", "context", "body"} \subseteq Step \ {"redis"}
  BY DEF Step
<1> QED BY <1>1, RouteOver, HandlersWithoutRedis, Zenon

LEMMA RoutesWithoutCommit ==
  LET S == Seq(Step \ {"commit"}) IN
  /\ ForProject(VerifyIdToken \o SignInWithSocial \o CreateSession) \in S
  /\ ForProject(AppleSignIn \o CreateSession) \in S
  /\ ForProject(EmailSignIn \o CreateSession) \in S
  /\ ForProject(EmailVerify \o CreateSession) \in S
  /\ ForProject(EmailResend) \in S
  /\ ForAccount(ValidationPipe, VerifyIdToken \o LinkSocial) \in S
  /\ ForAccount(<<>>, UnlinkSocial) \in S
  /\ ForAnyone(ValidationPipe, RefreshSession) \in S
  /\ ForAnyone(ValidationPipe, RevokeSession) \in S
  /\ Route(ProjectGuard, <<>>, <<>>) \in S
  /\ ForAnyone(<<>>, <<>>) \in S
  /\ ForAnyone(ValidationPipe, <<"sql">>) \in S
  /\ ForAnyone(<<>>, <<"sql">>) \in S
  /\ ForAnyone(ValidationPipe, ExampleFindOne) \in S
  /\ ForAnyone(ValidationPipe, ExampleUpdate) \in S
  /\ ForAnyone(ValidationPipe, ExampleRemove) \in S
  /\ ForAnyone(<<>>, Readiness) \in S
<1>1. {"project", "bearer", "context", "body"} \subseteq Step \ {"commit"}
  BY DEF Step
<1> QED BY <1>1, RouteOver, HandlersWithoutCommit, Zenon

LEMMA ReadinessRoute ==
  LET s == ForAnyone(<<>>, Readiness) IN
  s \in Seq(ReadinessSteps) /\ Contains(s, "terminating") /\ Contains(s, "ping")
<1> DEFINE s == ForAnyone(<<>>, Readiness)
<1>1. /\ Readiness \in Seq(ReadinessSteps) /\ Len(Readiness) = 3
      /\ Readiness[1] = "terminating" /\ Readiness[3] = "ping"
  BY DEF Readiness, DatabaseHealthIndicator, RedisHealthIndicator, ReadinessSteps
<1> DEFINE g == (<<>> \o <<"context">>) \o <<>>
<1>2. g \in Seq(ReadinessSteps) /\ Len(g) = 1
  BY DEF ReadinessSteps
<1>3. s = g \o Readiness
  BY DEF ForAnyone, Route
<1> HIDE DEF g
<1>0. /\ g \o Readiness \in Seq(ReadinessSteps)
      /\ Len(g \o Readiness) = Len(g) + Len(Readiness)
      /\ \A i \in 1 .. Len(g) + Len(Readiness) :
           (g \o Readiness)[i] = IF i <= Len(g) THEN g[i] ELSE Readiness[i - Len(g)]
  BY <1>1, <1>2, ConcatProperties
<1> HIDE DEF s
<1>4. Len(s) = 4 /\ s[2] = "terminating" /\ s[4] = "ping" /\ s \in Seq(ReadinessSteps)
  BY <1>1, <1>2, <1>3, <1>0
<1>5. 2 \in 1 .. Len(s) /\ 4 \in 1 .. Len(s)
  BY <1>4
<1>6. Contains(s, "terminating") /\ Contains(s, "ping")
  BY <1>4, <1>5 DEF Contains
<1> QED BY <1>4, <1>6 DEF s

LEMMA ControllersFit ==
  \A c \in {SigninController, SignupController, EmailController, LinkController,
            SessionController, TokenController, WellKnownController, ExampleController,
            HealthController} :
    \A e \in DOMAIN c : Fits(e, c[e])
<1> USE WithoutRedis, WithoutCommit, RoutesWithoutRedis, RoutesWithoutCommit
    DEF Fits, RedisUsers
<1>1. \A e \in DOMAIN SigninController : Fits(e, SigninController[e])
  BY AppleRefusesFirst DEF SigninController
<1>2. \A e \in DOMAIN SignupController : Fits(e, SignupController[e])
  BY EmailSignUpOnOneConnection, SignUpsBegin DEF SignupController
<1>3. \A e \in DOMAIN EmailController : Fits(e, EmailController[e])
  BY DEF EmailController
<1>4. \A e \in DOMAIN LinkController : Fits(e, LinkController[e])
  BY DEF LinkController
<1>5. \A e \in DOMAIN SessionController : Fits(e, SessionController[e])
  BY DEF SessionController
<1>6. \A e \in DOMAIN TokenController : Fits(e, TokenController[e])
  BY DEF TokenController
<1>7. \A e \in DOMAIN WellKnownController : Fits(e, WellKnownController[e])
  BY DEF WellKnownController
<1>8. \A e \in DOMAIN ExampleController : Fits(e, ExampleController[e])
  BY DEF ExampleController
<1>9. \A e \in DOMAIN HealthController : Fits(e, HealthController[e])
  BY ReadinessRoute DEF HealthController
<1> QED BY <1>1, <1>2, <1>3, <1>4, <1>5, <1>6, <1>7, <1>8, <1>9

LEMMA RoutesFit ==
  \A a \in App : \A e \in DOMAIN Application[a].routes : Fits(e, Application[a].routes[e])
<1>1. ASSUME NEW C, \A c \in C : \A e \in DOMAIN c : Fits(e, c[e])
      PROVE  \A e \in DOMAIN Together(C) : Fits(e, Together(C)[e])
  <2> TAKE e \in DOMAIN Together(C)
  <2>1. PICK c \in C : e \in DOMAIN c
    BY DEF Together
  <2>2. Together(C)[e] = (CHOOSE d \in C : e \in DOMAIN d)[e]
    BY DEF Together
  <2>3. (CHOOSE d \in C : e \in DOMAIN d) \in C /\ e \in DOMAIN (CHOOSE d \in C : e \in DOMAIN d)
    BY <2>1
  <2> QED BY <1>1, <2>2, <2>3
<1>2. \A e \in DOMAIN AuthModule.routes : Fits(e, AuthModule.routes[e])
  BY <1>1, ControllersFit DEF AuthModule
<1>3. \A e \in DOMAIN ExampleModule.routes : Fits(e, ExampleModule.routes[e])
  BY <1>1, ControllersFit DEF ExampleModule
<1> QED BY <1>2, <1>3 DEF App, Application

-----------------------------------------------------------------------------
(* Requests and the services they need                                     *)

\* What is left of a route fits its endpoint.
RestFits ==
  \A r \in Request :
    Pending(r) =>
      /\ endpoint[r] \notin RedisUsers => NoRedis(todo[r])
      /\ endpoint[r] # "signUpWithGoogle" => PoolOutsideTransactions(todo[r])
      /\ endpoint[r] = "readiness" => todo[r] \in Seq(ReadinessSteps)

\* A hook that has run has done its work.
HooksDone ==
  /\ phase = "starting" =>
       /\ hooks = Application[app].hooks /\ late = {}
       /\ client # "end"
  /\ hooks \subseteq Application[app].hooks
  /\ "TerminationService" \in Application[app].hooks \ hooks => terminating
  /\ "RedisService" \in Application[app].hooks \ hooks => client = "end"

\* Who came late still has the step before it that will refuse it.
LateIsRefused ==
  \A r \in late :
    /\ status[r] # "success"
    /\ Pending(r) =>
         /\ endpoint[r] = "readiness"
         /\ \/ terminating /\ Contains(todo[r], "terminating")
            \/ client = "end" /\ Contains(todo[r], "ping")

ServiceInd == RestFits /\ HooksDone /\ LateIsRefused /\ ShutdownFailsOnlyRedisUsers

LEMMA TailFits ==
  ASSUME NEW s \in Seq(Step), s # <<>>
  PROVE  /\ NoRedis(s) => Head(s) # "redis"
         /\ NoRedis(s) /\ Head(s) # "stub" => NoRedis(Tail(s))
         /\ PoolOutsideTransactions(s) => PoolOutsideTransactions(Tail(s))
         /\ s \in Seq(ReadinessSteps) =>
              Tail(s) \in Seq(ReadinessSteps) /\ Head(s) \in ReadinessSteps
         /\ \A x : Contains(s, x) /\ Head(s) # x => Contains(Tail(s), x)
<1>1. /\ Tail(s) \in Seq(Step)
      /\ Len(Tail(s)) = Len(s) - 1
      /\ \A i \in 1 .. Len(s) - 1 : Tail(s)[i] = s[i + 1]
      /\ Head(s) = s[1]
      /\ Len(s) \in Nat \ {0}
  OBVIOUS
<1>2. \A i \in 2 .. Len(s) : s[i] = Tail(s)[i - 1]
  BY <1>1
<1>3. ASSUME NoRedis(s)
      PROVE  Head(s) # "redis" /\ (Head(s) # "stub" => NoRedis(Tail(s)))
  <2>1. PICK i \in 1 .. Len(s) + 1 :
          (\A j \in 1 .. i - 1 : s[j] # "redis") /\ (i <= Len(s) => s[i] = "stub")
    BY <1>3 DEF NoRedis
  <2>2. Head(s) # "redis"
    BY <1>1, <2>1
  <2>3. ASSUME Head(s) # "stub"
        PROVE  NoRedis(Tail(s))
    <3>1. i > 1 /\ i - 1 \in 1 .. Len(Tail(s)) + 1
      BY <1>1, <2>1, <2>3
    <3>2. \A j \in 1 .. i - 1 - 1 : Tail(s)[j] # "redis"
      BY <1>1, <2>1, <3>1
    <3>3. i - 1 <= Len(Tail(s)) => Tail(s)[i - 1] = "stub"
      BY <1>1, <2>1, <3>1
    <3> QED BY <3>1, <3>2, <3>3 DEF NoRedis
  <2> QED BY <2>2, <2>3
<1>4. ASSUME PoolOutsideTransactions(s)
      PROVE  PoolOutsideTransactions(Tail(s))
  <2> SUFFICES ASSUME NEW j \in 1 .. Len(Tail(s)), Tail(s)[j] = "commit",
                      NEW i \in 1 .. j - 1, Tail(s)[i] \in OnPool
               PROVE  \E k \in i .. j - 1 : Tail(s)[k] = "begin"
    BY DEF PoolOutsideTransactions
  <2>1. /\ j + 1 \in 1 .. Len(s) /\ s[j + 1] = "commit"
        /\ i + 1 \in 1 .. j + 1 - 1 /\ s[i + 1] \in OnPool
    BY <1>1
  <2>2. PICK k \in i + 1 .. j + 1 - 1 : s[k] = "begin"
    BY <1>4, <2>1 DEF PoolOutsideTransactions
  <2>3. k - 1 \in i .. j - 1 /\ Tail(s)[k - 1] = "begin"
    BY <1>1, <2>2
  <2> QED BY <2>3
<1>5. s \in Seq(ReadinessSteps) => Tail(s) \in Seq(ReadinessSteps) /\ Head(s) \in ReadinessSteps
  OBVIOUS
<1>6. ASSUME NEW x, Contains(s, x), Head(s) # x
      PROVE  Contains(Tail(s), x)
  <2>1. PICK i \in 1 .. Len(s) : s[i] = x
    BY <1>6 DEF Contains
  <2>2. i - 1 \in 1 .. Len(Tail(s)) /\ Tail(s)[i - 1] = x
    BY <1>1, <1>6, <2>1
  <2> QED BY <2>2 DEF Contains
<1> QED BY <1>3, <1>4, <1>5, <1>6

LEMMA InitServiceInd == Init => ServiceInd
<1> SUFFICES ASSUME Init PROVE ServiceInd
  OBVIOUS
<1> QED BY DEF Init, ServiceInd, RestFits, HooksDone, LateIsRefused,
               ShutdownFailsOnlyRedisUsers, Pending

\* A step of the process that leaves the requests alone.
LEMMA RequestsKeptService ==
  ASSUME Ind, ServiceInd, UNCHANGED <<requests, faults>>, HooksDone',
         terminating => terminating', client = "end" => client' = "end"
  PROVE  ServiceInd'
<1>1. RestFits'
  BY DEF ServiceInd, RestFits, requests, Pending
<1>2. LateIsRefused'
  BY DEF ServiceInd, LateIsRefused, requests, Pending
<1>3. ShutdownFailsOnlyRedisUsers'
  BY DEF ServiceInd, ShutdownFailsOnlyRedisUsers, requests
<1> QED BY <1>1, <1>2, <1>3 DEF ServiceInd

\* A request goes on to its next step.
LEMMA AdvanceService ==
  ASSUME Ind, ServiceInd, NEW r \in Request, Pending(r), todo[r] # <<>>, Advance(r),
         Head(todo[r]) # "stub",
         Head(todo[r]) = "terminating" => ~terminating,
         Head(todo[r]) = "ping" => client # "end"
  PROVE  ServiceInd'
<1>1. /\ todo' = [todo EXCEPT ![r] = Tail(todo[r])]
      /\ UNCHANGED <<app, phase, startup, process, endpoint, outcome, status, late, faults>>
  BY DEF Advance
<1>2. todo[r] \in Seq(Step) /\ todo \in [Request -> Seq(Step)] /\ late \subseteq Request
  BY DEF Ind, TypeOK
<1>3. todo'[r] = Tail(todo[r]) /\ \A q \in Request \ {r} : todo'[q] = todo[q]
  BY <1>1, <1>2
<1>4. \A q \in Request : Pending(q)' <=> Pending(q)
  BY <1>1 DEF Pending
<1>5. RestFits'
  BY <1>1, <1>2, <1>3, <1>4, TailFits DEF ServiceInd, RestFits
<1>6. HooksDone'
  BY <1>1 DEF ServiceInd, HooksDone, process
<1>7. LateIsRefused'
  <2>1. /\ terminating /\ Contains(todo[r], "terminating") => Contains(todo'[r], "terminating")
        /\ client = "end" /\ Contains(todo[r], "ping") => Contains(todo'[r], "ping")
    BY <1>2, <1>3, TailFits
  <2> QED BY <1>1, <1>2, <1>3, <1>4, <2>1 DEF ServiceInd, LateIsRefused, process
<1>8. ShutdownFailsOnlyRedisUsers'
  BY <1>1 DEF ServiceInd, ShutdownFailsOnlyRedisUsers, process
<1> QED BY <1>5, <1>6, <1>7, <1>8 DEF ServiceInd

\* The handling of a request ends.
LEMMA EndService ==
  ASSUME Ind, ServiceInd, NEW r \in Request, NEW how \in {"returned", "HttpException", "Error"},
         Pending(r), End(r, how), how = "returned" => r \notin late,
         how = "Error" => faults' > 0 \/ (client = "end" /\ endpoint[r] \in RedisUsers),
         faults > 0 => faults' > 0
  PROVE  ServiceInd'
<1>1. /\ todo' = [todo EXCEPT ![r] = <<>>]
      /\ outcome' = [outcome EXCEPT ![r] = how]
      /\ status' = [status EXCEPT ![r] = IF how = "returned" THEN "success"
                                         ELSE Caught(how).status]
      /\ UNCHANGED <<app, phase, startup, process, endpoint, late>>
  BY DEF End, Answer
<1>2. /\ outcome'[r] = how
      /\ \A q \in Request \ {r} :
           outcome'[q] = outcome[q] /\ todo'[q] = todo[q] /\ status'[q] = status[q]
      /\ how # "returned" => status'[r] # "success"
      /\ late \subseteq Request
  BY <1>1, OwnFilter DEF Ind, TypeOK
<1>3. RestFits'
  BY <1>1, <1>2 DEF ServiceInd, RestFits, Pending
<1>4. HooksDone'
  BY <1>1 DEF ServiceInd, HooksDone, process
<1>5. LateIsRefused'
  BY <1>1, <1>2 DEF ServiceInd, LateIsRefused, process, Pending
<1>6. ShutdownFailsOnlyRedisUsers'
  BY <1>1, <1>2 DEF ServiceInd, ShutdownFailsOnlyRedisUsers, process
<1> QED BY <1>3, <1>4, <1>5, <1>6 DEF ServiceInd

LEMMA ArriveService ==
  ASSUME Ind, ServiceInd, NEW r \in Request, NEW e \in DOMAIN Application[app].routes,
         Arrive(r, e)
  PROVE  ServiceInd'
<1> DEFINE route == Application[app].routes[e]
<1>1. app \in App /\ Fits(e, route)
  BY RoutesFit DEF Ind, TypeOK
<1> HIDE DEF route
<1>2. /\ phase # "starting"
      /\ endpoint' = [endpoint EXCEPT ![r] = e]
      /\ todo' = [todo EXCEPT ![r] = route]
      /\ outcome' = [outcome EXCEPT ![r] = "pending"]
      /\ status' = [status EXCEPT ![r] = "none"]
      /\ late' = IF e = "readiness" /\ hooks # Application[app].hooks
                 THEN late \cup {r} ELSE late \ {r}
      /\ UNCHANGED <<app, phase, startup, process, context, faults>>
  BY DEF Arrive, route
<1>3. /\ outcome'[r] = "pending" /\ todo'[r] = route /\ endpoint'[r] = e /\ status'[r] = "none"
      /\ \A q \in Request \ {r} :
           /\ outcome'[q] = outcome[q] /\ todo'[q] = todo[q]
           /\ endpoint'[q] = endpoint[q] /\ status'[q] = status[q]
      /\ late \subseteq Request
  BY <1>2 DEF Ind, TypeOK
<1>4. RestFits'
  BY <1>1, <1>3 DEF ServiceInd, RestFits, Pending, Fits
<1>5. HooksDone'
  BY <1>2 DEF ServiceInd, HooksDone, process
<1>6. LateIsRefused'
  <2>1. hooks # Application[app].hooks => terminating \/ client = "end"
    BY <1>1 DEF ServiceInd, HooksDone, App, Application, AuthModule, ExampleModule
  <2>2. \A q \in late' \ {r} : q \in late /\ q \in Request
    BY <1>2, <1>3
  <2>3. r \in late' => e = "readiness" /\ (terminating \/ client = "end")
    BY <1>2, <2>1
  <2> QED BY <1>1, <1>2, <1>3, <2>2, <2>3 DEF ServiceInd, LateIsRefused, process, Pending, Fits
<1>7. ShutdownFailsOnlyRedisUsers'
  BY <1>2, <1>3 DEF ServiceInd, ShutdownFailsOnlyRedisUsers, process
<1> QED BY <1>4, <1>5, <1>6, <1>7 DEF ServiceInd

\* The process is gone.
LEMMA ExitService ==
  ASSUME Ind, ServiceInd, Exit, faults > 0 => faults' > 0
  PROVE  ServiceInd'
<1>1. /\ phase' = "exited"
      /\ \A r \in Request : outcome'[r] = IF Pending(r) THEN "lost" ELSE outcome[r]
      /\ UNCHANGED <<app, startup, process, endpoint, status, lines, late>>
      /\ late \subseteq Request
  BY DEF Exit, Ind, TypeOK
<1>2. \A r \in Request : ~Pending(r)'
  BY <1>1 DEF Pending
<1>3. RestFits' /\ LateIsRefused'
  BY <1>1, <1>2 DEF RestFits, LateIsRefused, ServiceInd, Pending
<1>4. HooksDone'
  BY <1>1 DEF ServiceInd, HooksDone, process
<1>5. ShutdownFailsOnlyRedisUsers'
  BY <1>1 DEF ServiceInd, ShutdownFailsOnlyRedisUsers, process, Pending
<1> QED BY <1>3, <1>4, <1>5 DEF ServiceInd

LEMMA HandleService ==
  ASSUME Ind, ServiceInd, NEW r \in Request, Handle(r)
  PROVE  ServiceInd'
<1>1. CASE Intercept(r)
  <2>1. At(r, {"context"}) /\ Advance(r)
    BY <1>1 DEF Intercept
  <2>2. Pending(r) /\ todo[r] # <<>> /\ Head(todo[r]) = "context"
    BY <2>1, AtStep
  <2> QED BY <2>1, <2>2, AdvanceService
<1>2. CASE Succeed(r)
  <2>1. /\ At(r, Step \ {"context", "stub", "terminating"}) /\ Advance(r)
        /\ At(r, OnRedis) => client = "open"
    BY <1>2 DEF Succeed
  <2>2. /\ Pending(r) /\ todo[r] # <<>>
        /\ Head(todo[r]) \notin {"stub", "terminating"}
    BY <2>1, AtStep
  <2>3. Head(todo[r]) = "ping" => client # "end"
    BY <2>1 DEF At, OnRedis
  <2> QED BY <2>1, <2>2, <2>3, AdvanceService
<1>3. CASE NotTerminating(r)
  <2>1. At(r, {"terminating"}) /\ Advance(r) /\ ~terminating
    BY <1>3 DEF NotTerminating
  <2>2. Pending(r) /\ todo[r] # <<>> /\ Head(todo[r]) = "terminating"
    BY <2>1, AtStep
  <2> QED BY <2>1, <2>2, AdvanceService
<1>4. CASE Return(r)
  <2>1. Pending(r) /\ (todo[r] = <<>> \/ (todo[r] # <<>> /\ Head(todo[r]) = "unless"))
    <3>1. CASE At(r, {"unless"})
      BY <3>1, AtStep
    <3> QED BY <1>4, <3>1 DEF Return
  <2>2. r \notin late
    <3> SUFFICES ASSUME r \in late PROVE FALSE
      OBVIOUS
    <3>1. /\ endpoint[r] = "readiness"
          /\ Contains(todo[r], "terminating") \/ Contains(todo[r], "ping")
      BY <2>1 DEF ServiceInd, LateIsRefused
    <3>2. todo[r] \in Seq(ReadinessSteps) /\ todo[r] # <<>>
      BY <2>1, <3>1 DEF ServiceInd, RestFits, Contains
    <3>3. Head(todo[r]) \in ReadinessSteps
      BY <3>2
    <3> QED BY <2>1, <3>2, <3>3 DEF ReadinessSteps
  <2> QED BY <1>4, <2>1, <2>2, EndService DEF Return
<1>5. CASE Refuse(r)
  <2>1. Pending(r)
    BY <1>5, AtStep DEF Refuse
  <2> QED BY <1>5, <2>1, EndService DEF Refuse
<1>6. CASE RefuseTerminating(r)
  <2>1. Pending(r)
    BY <1>6, AtStep DEF RefuseTerminating
  <2> QED BY <1>6, <2>1, EndService DEF RefuseTerminating
<1>7. CASE FailClosed(r)
  <2>1. /\ Pending(r) /\ todo[r] # <<>> /\ Head(todo[r]) \in {"redis", "ping"}
        /\ todo[r] \in Seq(Step) /\ client = "end"
    BY <1>7, AtStep DEF FailClosed, OnRedis, Routes
  <2>2. Thrown(Head(todo[r])) = "Error" => Head(todo[r]) = "redis"
    BY <2>1 DEF Thrown
  <2>3. Head(todo[r]) = "redis" => endpoint[r] \in RedisUsers
    BY <2>1, TailFits DEF ServiceInd, RestFits
  <2>4. Thrown(Head(todo[r])) \in {"HttpException", "Error"}
    BY DEF Thrown
  <2> QED BY <1>7, <2>1, <2>2, <2>3, <2>4, EndService DEF FailClosed
<1> QED BY <1>1, <1>2, <1>3, <1>4, <1>5, <1>6, <1>7 DEF Handle

LEMMA ProcessService ==
  ASSUME Ind, ServiceInd, Start \/ Shutdown \/ Sigterm \/ QuitRejected \/ Kill
  PROVE  ServiceInd'
<1>0. faults \in Nat
  BY FaultsBounded
<1>1. CASE BootFails \/ QuitRejected \/ Kill
  <2>1. Exit /\ (faults > 0 => faults' > 0)
    BY <1>0, <1>1 DEF BootFails, QuitRejected, Kill
  <2> QED BY <2>1, ExitService
<1>2. CASE (\E f \in File : CopyFile(f) \/ LoadFile(f) \/ NeighbourCopies(f)) \/ Listen
  <2>1. /\ UNCHANGED <<requests, faults, hooks, terminating, app>> /\ phase = "starting"
        /\ phase' \in {"starting", "listening", "misled"}
        /\ client' = client \/ phase' = "listening"
    BY <1>2 DEF CopyFile, LoadFile, NeighbourCopies, Listen, process
  <2>2. HooksDone' /\ hooks = Application[app].hooks /\ late = {}
    BY <2>1 DEF ServiceInd, HooksDone, requests
  <2>3. RestFits' /\ LateIsRefused'
    BY <2>1, <2>2 DEF ServiceInd, RestFits, LateIsRefused, requests, Pending
  <2>4. ShutdownFailsOnlyRedisUsers'
    BY <2>1 DEF ServiceInd, HooksDone, ShutdownFailsOnlyRedisUsers, requests
  <2> QED BY <2>2, <2>3, <2>4 DEF ServiceInd
<1>3. CASE Shutdown \/ Sigterm
  <2>1. /\ UNCHANGED <<requests, faults, app>> /\ phase # "starting" /\ phase' # "starting"
        /\ terminating => terminating'
        /\ client = "end" => client' = "end"
    BY <1>3 DEF Shutdown, Sigterm, RunHook, Terminate, QuitClients, Close, Stop, process
  <2>2. HooksDone'
    <3>1. CASE \E hook \in hooks : RunHook(hook)
      BY <2>1, <3>1 DEF RunHook, Terminate, QuitClients, ServiceInd, HooksDone, requests
    <3>2. CASE Close \/ Stop \/ Sigterm
      BY <2>1, <3>2 DEF Close, Stop, Sigterm, ServiceInd, HooksDone, process, requests
    <3> QED BY <1>3, <3>1, <3>2 DEF Shutdown
  <2> QED BY <2>1, <2>2, RequestsKeptService
<1> QED BY <1>1, <1>2, <1>3 DEF Start

LEMMA NextService == Ind /\ ServiceInd /\ [Next]_vars => ServiceInd'
<1> SUFFICES ASSUME Ind, ServiceInd, [Next]_vars PROVE ServiceInd'
  OBVIOUS
<1>1. CASE UNCHANGED vars
  <2>1. UNCHANGED <<requests, faults>> /\ UNCHANGED <<app, phase, process>>
    BY <1>1 DEF vars
  <2>2. HooksDone'
    BY <2>1 DEF ServiceInd, HooksDone, process, requests
  <2> QED BY <2>1, <2>2, RequestsKeptService DEF process
<1>2. ASSUME NEW r \in Request, Fault(r)
      PROVE  ServiceInd'
  <2>1. Pending(r)
    BY <1>2, AtStep DEF Fault
  <2>2. Thrown(Head(todo[r])) \in {"HttpException", "Error"}
    BY DEF Thrown
  <2>3. faults' > 0
    BY <1>2, FaultsBounded DEF Fault
  <2> QED BY <1>2, <2>1, <2>2, <2>3, EndService DEF Fault
<1> QED BY <1>1, <1>2, ArriveService, HandleService, ProcessService DEF Next

\* The invariant of requests and services.
THEOREM Services == Spec => []ServiceInd
<1>1. Init => ServiceInd
  BY InitServiceInd
<1>2. Ind /\ ServiceInd /\ [Next]_vars => ServiceInd'
  BY NextService
<1> QED BY <1>1, <1>2, Requests, PTL DEF Spec

\* Readiness asked for after any destroy hook is refused.
THEOREM LateUnready == Spec => []UnreadyAfterHooks
<1>1. ServiceInd => UnreadyAfterHooks
  BY DEF ServiceInd, LateIsRefused, UnreadyAfterHooks
<1> QED BY <1>1, Services, PTL

\* Without a rejected command a shutdown fails only requests that need Redis.
THEOREM ShutdownSparesOthers == Spec => []ShutdownFailsOnlyRedisUsers
<1>1. ServiceInd => ShutdownFailsOnlyRedisUsers
  BY DEF ServiceInd
<1> QED BY <1>1, Services, PTL

\* Whatever the size of the pool, only sign-ups with Google can starve it.
THEOREM StarvedBySignUps == Spec => []StarvedBySocialSignUps
<1>1. Ind /\ ServiceInd => StarvedBySocialSignUps
  <2> SUFFICES ASSUME Ind, ServiceInd, Starved, NEW r \in Request, InTransaction(r)
               PROVE  endpoint[r] = "signUpWithGoogle"
    BY DEF StarvedBySocialSignUps
  <2>1. /\ Head(todo[r]) \in OnPool /\ todo[r] \in Seq(Step)
        /\ Contains(todo[r], "commit") /\ ~Contains(todo[r], "begin")
    BY DEF Starved, InTransaction, Ind, TypeOK
  <2>2. PICK j \in 1 .. Len(todo[r]) : todo[r][j] = "commit"
    BY <2>1 DEF Contains
  <2>3. Pending(r)
    <3>1. outcome[r] # "pending" => todo[r] = <<>>
      BY DEF Ind, TypeOK
    <3>2. todo[r] # <<>>
      BY <2>2
    <3> QED BY <3>1, <3>2 DEF Pending
  <2>4. 1 \in 1 .. j - 1 /\ todo[r][1] \in OnPool
    BY <2>1, <2>2 DEF OnPool
  <2>5. ~PoolOutsideTransactions(todo[r])
    <3> SUFFICES ASSUME PoolOutsideTransactions(todo[r]) PROVE FALSE
      OBVIOUS
    <3>1. PICK k \in 1 .. j - 1 : todo[r][k] = "begin"
      BY <2>2, <2>4 DEF PoolOutsideTransactions
    <3> QED BY <2>1, <2>2, <3>1 DEF Contains
  <2> QED BY <2>3, <2>5 DEF ServiceInd, RestFits
<1> QED BY <1>1, Requests, Services, PTL

-----------------------------------------------------------------------------
(* The pool                                                                *)

Transactions == {r \in Request : InTransaction(r)}

LEMMA FiniteTransactions ==
  ASSUME NEW T \in SUBSET Request
  PROVE  IsFiniteSet(T) /\ Cardinality(T) \in Nat
  BY ServerAssumption, FS_Subset, FS_CardinalityType

LEMMA SmallerSet ==
  ASSUME NEW T \in SUBSET Request, NEW S \in SUBSET T
  PROVE  Cardinality(S) <= Cardinality(T)
  BY FiniteTransactions, FS_Subset

\* Who is in a transaction is under way and has a step before it.
LEMMA TransactionPending ==
  ASSUME Ind, NEW r \in Request, InTransaction(r)
  PROVE  Pending(r) /\ todo[r] # <<>> /\ Head(todo[r]) # "begin"
<1>1. PICK j \in 1 .. Len(todo[r]) : todo[r][j] = "commit"
  BY DEF InTransaction, Contains
<1>2. todo[r] \in Seq(Step) /\ (outcome[r] # "pending" => todo[r] = <<>>)
  BY DEF Ind, TypeOK
<1>3. todo[r] # <<>> /\ Head(todo[r]) = todo[r][1] /\ 1 \in 1 .. Len(todo[r])
  BY <1>1, <1>2
<1>4. Head(todo[r]) # "begin"
  BY <1>3 DEF InTransaction, Contains
<1> QED BY <1>2, <1>3, <1>4 DEF Pending

LEMMA NothingInTransaction ==
  ASSUME NEW r \in Request, todo[r] = <<>>
  PROVE  ~InTransaction(r)
  BY DEF InTransaction, Contains

\* Only the step that begins puts a request in a transaction.
LEMMA TailInTransaction ==
  ASSUME NEW s \in Seq(Step), s # <<>>, Head(s) # "begin",
         Contains(Tail(s), "commit"), ~Contains(Tail(s), "begin")
  PROVE  Contains(s, "commit") /\ ~Contains(s, "begin")
<1>1. /\ Len(Tail(s)) = Len(s) - 1 /\ Head(s) = s[1] /\ Len(s) \in Nat \ {0}
      /\ \A i \in 1 .. Len(s) - 1 : Tail(s)[i] = s[i + 1]
  OBVIOUS
<1>2. \A i \in 2 .. Len(s) : i - 1 \in 1 .. Len(Tail(s)) /\ s[i] = Tail(s)[i - 1]
  BY <1>1
<1>3. Contains(s, "commit")
  <2>1. PICK i \in 1 .. Len(Tail(s)) : Tail(s)[i] = "commit"
    BY DEF Contains
  <2>2. i + 1 \in 1 .. Len(s) /\ s[i + 1] = "commit"
    BY <1>1, <2>1
  <2> QED BY <2>2 DEF Contains
<1>4. ~Contains(s, "begin")
  <2> SUFFICES ASSUME NEW i \in 1 .. Len(s), s[i] = "begin" PROVE FALSE
    BY DEF Contains
  <2>1. i \in 2 .. Len(s)
    BY <1>1
  <2> QED BY <1>2, <2>1 DEF Contains
<1> QED BY <1>3, <1>4

\* Who starts with a route has no transaction yet.
LEMMA ArrivesOutside ==
  ASSUME Ind, NEW r \in Request, NEW e \in DOMAIN Application[app].routes, Arrive(r, e)
  PROVE  ~InTransaction(r)' /\ \A q \in Request \ {r} : todo'[q] = todo[q]
<1>1. /\ todo' = [todo EXCEPT ![r] = Application[app].routes[e]]
      /\ todo \in [Request -> Seq(Step)] /\ app \in App
  BY DEF Arrive, Ind, TypeOK
<1>2. Fits(e, Application[app].routes[e])
  BY <1>1, RoutesFit
<1>3. todo'[r] = Application[app].routes[e]
  BY <1>1
<1>4. Contains(todo'[r], "commit") => Contains(todo'[r], "begin")
  BY <1>2, <1>3 DEF Fits
<1> QED BY <1>1, <1>4 DEF InTransaction

\* Who begins, and who asks for the pool in a transaction, gets a free connection.
LEMMA TransactionStep ==
  ASSUME Ind, NEW r \in Request,
         \/ Handle(r) \/ Fault(r)
         \/ \E e \in DOMAIN Application[app].routes : Arrive(r, e)
  PROVE  /\ \A q \in Request \ {r} : todo'[q] = todo[q]
         /\ InTransaction(r)' => InTransaction(r) \/ FreeConnection
         /\ InTransaction(r) /\ Head(todo[r]) \in OnPool => FreeConnection
<1>1. todo \in [Request -> Seq(Step)] /\ todo[r] \in Seq(Step)
  BY DEF Ind, TypeOK
<1>2. ASSUME todo' = [todo EXCEPT ![r] = <<>>]
      PROVE  ~InTransaction(r)' /\ \A q \in Request \ {r} : todo'[q] = todo[q]
  BY <1>1, <1>2 DEF InTransaction, Contains
<1>3. ASSUME Advance(r), todo[r] # <<>>
      PROVE  /\ \A q \in Request \ {r} : todo'[q] = todo[q]
             /\ InTransaction(r)' => InTransaction(r) \/ Head(todo[r]) = "begin"
  <2>1. todo'[r] = Tail(todo[r]) /\ \A q \in Request \ {r} : todo'[q] = todo[q]
    BY <1>1, <1>3 DEF Advance
  <2> QED BY <1>1, <1>3, <2>1, TailInTransaction DEF InTransaction
<1>4. CASE Intercept(r)
  <2>1. Advance(r) /\ todo[r] # <<>> /\ Head(todo[r]) = "context"
    BY <1>4, AtStep DEF Intercept
  <2> QED BY <1>3, <2>1 DEF OnPool
<1>5. CASE Succeed(r)
  <2>1. /\ Advance(r) /\ todo[r] # <<>>
        /\ Head(todo[r]) \in OnPool => FreeConnection
    BY <1>5 DEF Succeed, At
  <2> QED BY <1>3, <2>1 DEF OnPool
<1>6. CASE NotTerminating(r)
  <2>1. Advance(r) /\ todo[r] # <<>> /\ Head(todo[r]) = "terminating"
    BY <1>6, AtStep DEF NotTerminating
  <2> QED BY <1>3, <2>1 DEF OnPool
<1>7. CASE Return(r)
  <2>1. InTransaction(r) => Head(todo[r]) = "unless"
    BY <1>7, AtStep, NothingInTransaction DEF Return
  <2> QED BY <1>2, <1>7, <2>1 DEF Return, End, OnPool
<1>8. CASE Refuse(r) \/ RefuseTerminating(r) \/ FailClosed(r) \/ Fault(r)
  <2>1. todo' = [todo EXCEPT ![r] = <<>>]
    BY <1>8 DEF Refuse, RefuseTerminating, FailClosed, Fault, End
  <2>2. Head(todo[r]) \in OnPool => FreeConnection
    BY <1>8 DEF Refuse, RefuseTerminating, FailClosed, Fault, At, OnPool, OnRedis
  <2> QED BY <1>2, <2>1, <2>2
<1>9. CASE \E e \in DOMAIN Application[app].routes : Arrive(r, e)
  <2>1. ~InTransaction(r)
    BY <1>9, TransactionPending DEF Arrive
  <2> QED BY <1>9, <2>1, ArrivesOutside
<1> QED BY <1>4, <1>5, <1>6, <1>7, <1>8, <1>9 DEF Handle

\* What the process does beside the requests.
LEMMA ProcessStep ==
  ASSUME \/ Start \/ Shutdown \/ Sigterm \/ QuitRejected \/ Kill
         \/ UNCHANGED vars
  PROVE  todo' = todo \/ (phase' = "exited" /\ \A r \in Request : todo'[r] = <<>>)
<1>1. CASE BootFails \/ QuitRejected \/ Kill
  BY <1>1 DEF BootFails, QuitRejected, Kill, Exit
<1>2. CASE (\E f \in File : CopyFile(f) \/ LoadFile(f) \/ NeighbourCopies(f)) \/ Listen
  BY <1>2 DEF CopyFile, LoadFile, NeighbourCopies, Listen, requests
<1>3. CASE Shutdown \/ Sigterm \/ UNCHANGED vars
  BY <1>3 DEF Shutdown, RunHook, Close, Stop, Sigterm, vars, requests
<1> QED BY <1>1, <1>2, <1>3 DEF Start

\* Transactions keep no more connections than the pool has.
PoolKept == Cardinality(Transactions) <= PoolSize

LEMMA NextPool == Ind /\ PoolKept /\ [Next]_vars => PoolKept'
<1> SUFFICES ASSUME Ind, PoolKept, [Next]_vars PROVE PoolKept'
  OBVIOUS
<1>0. Transactions \in SUBSET Request /\ Transactions' \in SUBSET Request
  BY DEF Transactions
<1>1. ASSUME Transactions' \subseteq Transactions
      PROVE  PoolKept'
  <2>1. /\ Cardinality(Transactions') <= Cardinality(Transactions)
        /\ Cardinality(Transactions') \in Nat /\ Cardinality(Transactions) \in Nat
    BY <1>0, <1>1, SmallerSet, FiniteTransactions
  <2> QED BY <2>1, ServerAssumption DEF PoolKept
<1>2. ASSUME NEW r \in Request,
             \/ Handle(r) \/ Fault(r)
             \/ \E e \in DOMAIN Application[app].routes : Arrive(r, e)
      PROVE  PoolKept'
  <2>1. /\ \A q \in Request \ {r} : todo'[q] = todo[q]
        /\ InTransaction(r)' => InTransaction(r) \/ FreeConnection
    BY <1>2, TransactionStep
  <2>2. Transactions' \subseteq Transactions \cup {r}
    BY <2>1 DEF Transactions, InTransaction
  <2>3. CASE FreeConnection
    <3>1. Cardinality(Transactions) < PoolSize /\ IsFiniteSet(Transactions)
      BY <1>0, <2>3, FiniteTransactions DEF FreeConnection, Transactions
    <3>2. Cardinality(Transactions \cup {r}) <= Cardinality(Transactions) + 1
      BY <1>0, <3>1, FS_AddElement, FiniteTransactions
    <3>3. Transactions \cup {r} \in SUBSET Request
      BY <1>0
    <3>4. /\ Cardinality(Transactions') <= Cardinality(Transactions \cup {r})
          /\ Cardinality(Transactions') \in Nat /\ Cardinality(Transactions) \in Nat
          /\ Cardinality(Transactions \cup {r}) \in Nat
      BY <1>0, <2>2, <3>3, SmallerSet, FiniteTransactions
    <3> QED BY <3>1, <3>2, <3>4, ServerAssumption DEF PoolKept
  <2>4. CASE ~FreeConnection
    <3>1. Transactions' \subseteq Transactions
      BY <2>1, <2>4 DEF Transactions, InTransaction
    <3> QED BY <1>1, <3>1
  <2> QED BY <2>3, <2>4
<1>3. CASE \/ Start \/ Shutdown \/ Sigterm \/ QuitRejected \/ Kill
           \/ UNCHANGED vars
  <2>1. Transactions' \subseteq Transactions
    BY <1>3, ProcessStep DEF Transactions, InTransaction, Contains
  <2> QED BY <1>1, <2>1
<1> QED BY <1>2, <1>3 DEF Next

\* Every connection a transaction keeps is one of the pool's.
THEOREM PoolNeverOverdrawn == Spec => []PoolKept
<1>1. Init => PoolKept
  <2> SUFFICES ASSUME Init PROVE PoolKept
    OBVIOUS
  <2>1. Transactions = {}
    BY NothingInTransaction DEF Init, Transactions
  <2> QED BY <2>1, FS_EmptySet, ServerAssumption DEF PoolKept
<1>2. Ind /\ PoolKept /\ [Next]_vars => PoolKept'
  BY NextPool
<1> QED BY <1>1, <1>2, Requests, PTL DEF Spec

\* While transactions keep every connection, one of them can go on without another
\* one, or the pool is starved: the requests have no other way to wait for each
\* other.
THEOREM OnlyStarvationBlocks == Spec => []NoOtherDeadlock
<1>1. PoolKept => NoOtherDeadlock
  <2> SUFFICES ASSUME PoolKept, ~FreeConnection
               PROVE  /\ Cardinality(Transactions) = PoolSize
                      /\ Starved \/ \E r \in Transactions : Head(todo[r]) \notin OnPool
    BY DEF NoOtherDeadlock, Transactions
  <2>1. Cardinality(Transactions) \in Nat
    BY FiniteTransactions DEF Transactions
  <2>2. Cardinality(Transactions) = PoolSize
    BY <2>1, ServerAssumption DEF PoolKept, FreeConnection, Transactions
  <2> QED BY <2>2 DEF Starved, Transactions
<1> QED BY <1>1, PoolNeverOverdrawn, PTL

\* A starvation ends only with the process.
THEOREM StarvationIsForever == Spec => StarvationLasts
<1>1. Ind /\ [Next]_vars => [Starved => Starved' \/ phase' = "exited"]_vars
  <2> SUFFICES ASSUME Ind, [Next]_vars, Starved, phase' # "exited"
               PROVE  Starved'
    OBVIOUS
  <2>1. /\ Cardinality(Transactions) = PoolSize
        /\ \A q \in Transactions : Head(todo[q]) \in OnPool
    BY DEF Starved, Transactions
  <2>2. ~FreeConnection
    BY <2>1, ServerAssumption DEF FreeConnection, Transactions
  <2>3. ASSUME Transactions' = Transactions, \A q \in Transactions : todo'[q] = todo[q]
        PROVE  Starved'
    <3>1. Cardinality(Transactions') = PoolSize
      BY <2>1, <2>3
    <3>2. \A q \in Transactions' : Head(todo'[q]) \in OnPool
      BY <2>1, <2>3
    <3> QED BY <3>1, <3>2 DEF Starved, Transactions
  <2>4. ASSUME NEW r \in Request,
               \/ Handle(r) \/ Fault(r)
               \/ \E e \in DOMAIN Application[app].routes : Arrive(r, e)
        PROVE  Starved'
    <3>1. /\ \A q \in Request \ {r} : todo'[q] = todo[q]
          /\ InTransaction(r)' => InTransaction(r)
          /\ r \notin Transactions
      BY <2>1, <2>2, <2>4, TransactionStep DEF Transactions
    <3>2. Transactions' = Transactions /\ \A q \in Transactions : todo'[q] = todo[q]
      BY <3>1 DEF Transactions, InTransaction
    <3> QED BY <2>3, <3>2
  <2>5. CASE \/ Start \/ Shutdown \/ Sigterm \/ QuitRejected \/ Kill
             \/ UNCHANGED vars
    <3>1. todo' = todo
      BY <2>5, ProcessStep
    <3> QED BY <2>3, <3>1 DEF Transactions, InTransaction
  <2> QED BY <2>4, <2>5 DEF Next
<1> QED BY <1>1, Requests, PTL DEF Spec, StarvationLasts

\* A connection more than there are sign-ups with Google under way prevents it.
THEOREM LargePoolNeverStarved == Spec => []SparedBySize
<1>1. Ind /\ StarvedBySocialSignUps => SparedBySize
  <2> SUFFICES ASSUME Ind, StarvedBySocialSignUps, Starved
               PROVE  ~(Cardinality({r \in Request :
                                       Pending(r) /\ endpoint[r] = "signUpWithGoogle"})
                          < PoolSize)
    BY DEF SparedBySize
  <2> DEFINE G == {r \in Request : Pending(r) /\ endpoint[r] = "signUpWithGoogle"}
  <2>1. G \in SUBSET Request /\ Transactions \in SUBSET G
    BY TransactionPending DEF StarvedBySocialSignUps, Transactions
  <2>2. Cardinality(Transactions) = PoolSize
    BY DEF Starved, Transactions
  <2> HIDE DEF G
  <2>3. Cardinality(Transactions) <= Cardinality(G) /\ Cardinality(G) \in Nat
    BY <2>1, SmallerSet, FiniteTransactions
  <2>4. ~(Cardinality(G) < PoolSize)
    BY <2>2, <2>3, ServerAssumption
  <2> QED BY <2>4 DEF G
<1> QED BY <1>1, Requests, StarvedBySignUps, PTL

-----------------------------------------------------------------------------
(* The start                                                               *)

\* What has been copied is this application's, and only that is loaded.
CopiesAreOwn ==
  phase = "starting" =>
    /\ toLoad \subseteq SourceFile
    /\ toLoad # {} => toCopy = {}
    /\ ~neighbour => \A f \in SourceFile \ toCopy : dist[f] = app

StartInd == CopiesAreOwn /\ ConfigIsOwn

LEMMA NextStart == TypeOK /\ StartInd /\ [Next]_vars => StartInd'
<1> SUFFICES ASSUME TypeOK, StartInd, [Next]_vars PROVE StartInd'
  OBVIOUS
<1>1. ASSUME NEW f \in File, CopyFile(f)
      PROVE  StartInd'
  <2>1. /\ dist' = [dist EXCEPT ![f] = app] /\ dist \in [File -> App \cup {NoApp}]
        /\ toCopy' = toCopy \ {f}
        /\ toLoad' = IF toCopy' = {} THEN SourceFile ELSE {}
        /\ UNCHANGED <<app, phase, neighbour, config>>
    BY <1>1 DEF CopyFile, Copied, TypeOK
  <2>2. phase = "starting"
    BY <1>1 DEF CopyFile
  <2>3. ~neighbour => \A g \in SourceFile \ toCopy' : dist'[g] = app
    BY <2>1, <2>2 DEF StartInd, CopiesAreOwn, File
  <2> QED BY <2>1, <2>3 DEF StartInd, CopiesAreOwn, ConfigIsOwn
<1>2. ASSUME NEW f \in File, LoadFile(f)
      PROVE  StartInd'
  <2>1. f \in SourceFile \ toCopy
    BY <1>2 DEF LoadFile, StartInd, CopiesAreOwn
  <2>2. ~neighbour => dist[f] = app
    BY <1>2, <2>1 DEF LoadFile, StartInd, CopiesAreOwn
  <2> QED BY <1>2, <2>2 DEF LoadFile, StartInd, CopiesAreOwn, ConfigIsOwn
<1>3. ASSUME NEW f \in File, NeighbourCopies(f)
      PROVE  StartInd'
  BY <1>3 DEF NeighbourCopies, StartInd, CopiesAreOwn, ConfigIsOwn
<1>4. CASE Listen
  BY <1>4 DEF Listen, StartInd, CopiesAreOwn, ConfigIsOwn
<1>5. CASE UNCHANGED <<app, startup>> /\ (phase' = phase \/ phase' # "starting")
  BY <1>5 DEF startup, StartInd, CopiesAreOwn, ConfigIsOwn
<1>6. CASE BootFails \/ Shutdown \/ Sigterm \/ QuitRejected \/ Kill \/ UNCHANGED vars
  BY <1>5, <1>6 DEF BootFails, Shutdown, RunHook, Close, Stop, Sigterm, QuitRejected, Kill, Exit,
                    vars
<1>7. ASSUME NEW r \in Request,
             \/ Handle(r) \/ Fault(r)
             \/ \E e \in DOMAIN Application[app].routes : Arrive(r, e)
      PROVE  StartInd'
  BY <1>5, <1>7 DEF Handle, Intercept, Succeed, NotTerminating, Advance, Return, Refuse,
                    RefuseTerminating, FailClosed, Fault, End, Answer, Arrive
<1> QED BY <1>1, <1>2, <1>3, <1>4, <1>6, <1>7 DEF Next, Start

\* A process that starts alone runs with its own settings, whatever lay in
\* dist/config before.
THEOREM OwnSettings == Spec => []ConfigIsOwn
<1>1. Init => StartInd
  BY DEF Init, StartInd, CopiesAreOwn, ConfigIsOwn
<1>2. TypeOK /\ StartInd /\ [Next]_vars => StartInd'
  BY NextStart
<1>3. StartInd => ConfigIsOwn
  BY DEF StartInd
<1> QED BY <1>1, <1>2, <1>3, TypeCorrect, PTL DEF Spec
=============================================================================

------------------------------ MODULE Endpoints ------------------------------
(***************************************************************************)
(* The routes of both applications.  A route is the sequence of steps that *)
(* answers a request; the module Server says what a step does.  Steps that *)
(* only compute are left out, statements in a row that none could tell     *)
(* apart from one are one step.                                            *)
(*                                                                         *)
(*   project, bearer   a guard, which may refuse                           *)
(*   context           the logging interceptor                             *)
(*   body              the pipes of the parameters, which may refuse       *)
(*   find              SELECTs, after which the handler may refuse         *)
(*   sql               statements on any connection of the pool            *)
(*   begin tx commit   a transaction, on a connection of its own           *)
(*   google            a call of Google's library, which may refuse        *)
(*   redis             commands to Redis                                   *)
(*   check, unless     the handler may refuse, may return                  *)
(*   stub              the handler refuses                                 *)
(*   terminating select1 ping   what readiness asks                        *)
(***************************************************************************)
EXTENDS Sequences

Step == {"project", "bearer", "context", "body", "find", "sql", "begin", "tx",
         "commit", "google", "redis", "check", "unless", "stub", "terminating",
         "select1", "ping"}

-----------------------------------------------------------------------------
(* Guards, interceptor and pipes, in the order Nest runs them              *)

ProjectGuard == <<"project">>
BearerGuard == <<"bearer">>
ValidationPipe == <<"body">>

Route(guards, pipes, handler) == guards \o <<"context">> \o pipes \o handler

-----------------------------------------------------------------------------
(* Services of the auth application                                        *)

CreateSession == <<"redis">>
RefreshSession == <<"redis", "check", "redis">>
RevokeSession == <<"redis">>

VerifyIdToken == <<"find", "google">>

\* The profile, through the repository and so on a connection of the pool.
UpsertProperties == <<"sql">>

SignInWithSocial == <<"find", "sql">> \o UpsertProperties

SignUpWithSocial == <<"find", "begin", "tx">> \o UpsertProperties \o <<"commit">>

AppleSignIn == <<"stub">>

EmailSignIn == <<"find", "sql">>

\* Mutant: the membership is saved through its repository.
EmailSignUpOnTwoConnections == <<"find", "begin", "tx", "sql", "commit">>

EmailSignUp == <<"find", "begin", "tx", "commit">>

EmailVerify == <<"find", "sql">>
EmailResend == <<"find", "sql">>

LinkSocial == <<"find", "unless", "sql">>
UnlinkSocial == <<"find", "sql">>

-----------------------------------------------------------------------------
(* Controllers of the auth application                                     *)

ForProject(handler) == Route(ProjectGuard, ValidationPipe, handler)
ForAccount(pipes, handler) == Route(BearerGuard, pipes, handler)
ForAnyone(pipes, handler) == Route(<<>>, pipes, handler)

SigninController ==
  [signInWithGoogle |-> ForProject(VerifyIdToken \o SignInWithSocial \o CreateSession),
   signInWithApple |-> ForProject(AppleSignIn \o CreateSession),
   signInWithEmail |-> ForProject(EmailSignIn \o CreateSession)]

SignupController ==
  [signUpWithGoogle |-> ForProject(VerifyIdToken \o SignUpWithSocial \o CreateSession),
   signUpWithEmail |-> ForProject(EmailSignUp)]

EmailController ==
  [verify |-> ForProject(EmailVerify \o CreateSession),
   resend |-> ForProject(EmailResend)]

LinkController ==
  [linkGoogle |-> ForAccount(ValidationPipe, VerifyIdToken \o LinkSocial),
   unlinkGoogle |-> ForAccount(<<>>, UnlinkSocial)]

SessionController ==
  [refresh |-> ForAnyone(ValidationPipe, RefreshSession),
   logout |-> ForAnyone(ValidationPipe, RevokeSession)]

TokenController == [getPublicKey |-> Route(ProjectGuard, <<>>, <<>>)]
WellKnownController == [getJwks |-> ForAnyone(<<>>, <<>>)]
-----------------------------------------------------------------------------
(* The example application                                                 *)

ExampleFindOne == <<"redis", "unless", "find", "redis">>
ExampleUpdate == <<"find", "sql", "redis">>
ExampleRemove == <<"find", "sql", "redis">>

ExampleController ==
  [create |-> ForAnyone(ValidationPipe, <<"sql">>),
   findAll |-> ForAnyone(<<>>, <<"sql">>),
   findOne |-> ForAnyone(ValidationPipe, ExampleFindOne),
   update |-> ForAnyone(ValidationPipe, ExampleUpdate),
   remove |-> ForAnyone(ValidationPipe, ExampleRemove)]

DatabaseHealthIndicator == <<"select1">>
RedisHealthIndicator == <<"ping">>

\* Mutant: readiness asks the indicators only.
ReadinessOfIndicators == DatabaseHealthIndicator \o RedisHealthIndicator

Readiness == <<"terminating">> \o DatabaseHealthIndicator \o RedisHealthIndicator

HealthController ==
  [liveness |-> ForAnyone(<<>>, <<>>),
   readiness |-> ForAnyone(<<>>, Readiness)]

-----------------------------------------------------------------------------
(* The applications: their routes, and what runs when they are to end      *)

Together(controllers) ==
  [e \in UNION {DOMAIN c : c \in controllers} |->
    (CHOOSE c \in controllers : e \in DOMAIN c)[e]]

AuthModule ==
  [routes |-> Together({SigninController, SignupController, EmailController, LinkController,
                        SessionController, TokenController, WellKnownController}),
   hooks |-> {"RedisService"}]

ExampleModule ==
  [routes |-> Together({ExampleController, HealthController}),
   hooks |-> {"RedisService", "TerminationService"}]

Application == [auth |-> AuthModule, example |-> ExampleModule]
=============================================================================

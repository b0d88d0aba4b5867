----------------------------- MODULE MCShutdown -----------------------------
(* Small instances of Server that remember which requests were under way   *)
(* when the shutdown began.                                                *)
EXTENDS Server

VARIABLE inFlight

\* What SIGTERM finds under way, until its place is taken by another request.
Remember ==
  inFlight' = IF phase = "listening" /\ phase' = "destroying"
              THEN {r \in Request : Pending(r)}
              ELSE {r \in inFlight : Pending(r) \/ ~Pending(r)'}

RememberingSpec == (Init /\ inFlight = {}) /\ [][Next /\ Remember]_<<vars, inFlight>>

\* "Until it ends it handles the requests in flight" (main.ts:17 of apps/example,
\* README.md:79 of libs/health): while MySQL and Redis reject no command, none of the
\* requests that SIGTERM finds under way in the example application fails.
ShutdownHandlesRequests ==
  app = "example" => \A r \in inFlight : outcome[r] = "Error" => faults > 0
=============================================================================

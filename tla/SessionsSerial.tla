--------------------------- MODULE SessionsSerial ---------------------------
(***************************************************************************)
(* Sessions with clients that never have two requests for one refresh      *)
(* token under way.  Under this discipline, which the service itself does  *)
(* not enforce, it keeps the promise of SessionPromise.                    *)
(***************************************************************************)
EXTENDS Sessions

Serial ==
  \A r1, r2 \in Request :
    tok[r1] = tok[r2] /\ tok[r1] # NoToken => r1 = r2

SerialNext == Next /\ Serial'

SerialSpec == Init /\ [][SerialNext]_vars

-----------------------------------------------------------------------------
(* The refinement mapping                                                  *)

Rotating(r) == pc[r] \in {"refreshDel", "rotate", "refreshSet"}

Phase(s) ==
  CASE \E t \in Token : Live(t) /\ family[t] = s -> "open"
    [] /\ \A t \in Token : Live(t) => family[t] # s
       /\ \E r \in Request : Rotating(r) /\ family[tok[r]] = s -> "handover"
    [] /\ \A t \in Token : Live(t) => family[t] # s
       /\ \A r \in Request : Rotating(r) => family[tok[r]] # s ->
         IF ended[s] # {} THEN "closed" ELSE "unopened"

CurrentToken(s) ==
  IF Phase(s) = "open" THEN CHOOSE t \in Token : Live(t) /\ family[t] = s
  ELSE NoToken

Promise == INSTANCE SessionPromise WITH
  phase <- [s \in Token |-> Phase(s)],
  current <- [s \in Token |-> CurrentToken(s)]

\* Rotation, logout and expiry, as Redis and the handlers carry them out, are
\* steps of the promise: a session never has two current tokens, never comes
\* back once closed, and a token answered for is never current again.
KeepsPromise == Promise!Spec
=============================================================================

--------------------------- MODULE SessionPromise ---------------------------
(***************************************************************************)
(* What the session endpoints promise a client, without Redis, handlers or *)
(* clocks.  A session, named by the token its sign-in returned, has one    *)
(* current refresh token or none; a refresh hands it over to a new token;  *)
(* once it is closed it stays closed; a token that was answered for is     *)
(* never current again.                                                    *)
(***************************************************************************)
CONSTANTS Token, NoToken

VARIABLES
  phase,     \* of each session
  current,   \* the refresh token of each session
  spent      \* tokens a refresh or a logout has answered for

vars == <<phase, current, spent>>

In(p) == {s \in Token : phase[s] = p}
Current == {current[s] : s \in In("open")}

Init ==
  /\ phase = [s \in Token |-> "unopened"]
  /\ current = [s \in Token |-> NoToken]
  /\ spent = {}

Open(s) ==
  /\ phase[s] = "unopened"
  /\ s \notin Current \cup spent
  /\ phase' = [phase EXCEPT ![s] = "open"]
  /\ current' = [current EXCEPT ![s] = s]
  /\ UNCHANGED spent

\* The current tokens of some sessions go: a handler that is refreshing will
\* hand over those in H, the ones in C are over.
Retire(H, C) ==
  /\ H \cap C = {}
  /\ phase' = [s \in Token |-> IF s \in H THEN "handover"
                               ELSE IF s \in C THEN "closed" ELSE phase[s]]
  /\ current' = [s \in Token |-> IF s \in H \cup C THEN NoToken ELSE current[s]]
  /\ UNCHANGED spent

HandOver(s, t) ==
  /\ phase[s] = "handover"
  /\ t \notin Current \cup spent
  /\ phase' = [phase EXCEPT ![s] = "open"]
  /\ current' = [current EXCEPT ![s] = t]
  /\ UNCHANGED spent

Abandon(s) ==
  /\ phase[s] = "handover"
  /\ phase' = [phase EXCEPT ![s] = "closed"]
  /\ UNCHANGED <<current, spent>>

Answer(t) ==
  /\ t \notin Current
  /\ spent' = spent \cup {t}
  /\ UNCHANGED <<phase, current>>

Next ==
  \/ \E s \in Token : Open(s) \/ Abandon(s) \/ Answer(s)
  \/ \E s, t \in Token : HandOver(s, t)
  \/ \E H, C \in SUBSET In("open") : Retire(H, C)

Spec == Init /\ [][Next]_vars
=============================================================================

--------------------------- MODULE AccountRegistry ---------------------------
(***************************************************************************)
(* What the account endpoints promise, without SQL statements, transactions *)
(* or failures: every request takes effect at once or not at all.  A social *)
(* account is free or leads to one account; it becomes somebody's by a      *)
(* sign-up or a link that finds it free, and free again only by its owner's *)
(* unlink, which is refused when it is the only login method.               *)
(***************************************************************************)
EXTENDS Naturals, FiniteSets

CONSTANTS Uid, Social, Project, NoUid

VARIABLES
  account,     \* the accounts there are
  identity,    \* the account each social account leads to, or none
  member,      \* who has joined which project: <<project, uid>>
  emailOwner,  \* accounts with an email address
  issued,      \* sessions handed out: <<project, uid>>
  unlinked     \* accounts whose owner has unlinked

vars == <<account, identity, member, emailOwner, issued, unlinked>>

Init ==
  /\ account = {} /\ member = {} /\ emailOwner = {} /\ issued = {} /\ unlinked = {}
  /\ identity = [s \in Social |-> NoUid]

Linked(u) == {s \in Social : identity[s] = u}

SignIn(p, s) ==
  /\ identity[s] # NoUid
  /\ <<p, identity[s]>> \in member
  /\ issued' = issued \cup {<<p, identity[s]>>}
  /\ UNCHANGED <<account, identity, member, emailOwner, unlinked>>

\* A new account, its social account, its first project and its first session.
SignUp(p, s, u) ==
  /\ u \notin account
  /\ identity[s] = NoUid
  /\ account' = account \cup {u}
  /\ identity' = [identity EXCEPT ![s] = u]
  /\ member' = member \cup {<<p, u>>}
  /\ issued' = issued \cup {<<p, u>>}
  /\ UNCHANGED <<emailOwner, unlinked>>

\* A known social account signs up for another project.
Join(p, s) ==
  /\ identity[s] # NoUid
  /\ <<p, identity[s]>> \notin member
  /\ member' = member \cup {<<p, identity[s]>>}
  /\ issued' = issued \cup {<<p, identity[s]>>}
  /\ UNCHANGED <<account, identity, emailOwner, unlinked>>

\* The account is not usable before its address is verified: no session.
EmailSignUp(p, u) ==
  /\ u \notin account
  /\ account' = account \cup {u}
  /\ member' = member \cup {<<p, u>>}
  /\ emailOwner' = emailOwner \cup {u}
  /\ UNCHANGED <<identity, issued, unlinked>>

Link(u, s) ==
  /\ u \in account
  /\ identity[s] = NoUid
  /\ identity' = [identity EXCEPT ![s] = u]
  /\ UNCHANGED <<account, member, emailOwner, issued, unlinked>>

Unlink(u) ==
  /\ u \in account
  /\ Linked(u) # {}
  /\ Cardinality(Linked(u)) > 1 \/ u \in emailOwner
  /\ identity' = [s \in Social |-> IF s \in Linked(u) THEN NoUid ELSE identity[s]]
  /\ unlinked' = unlinked \cup {u}
  /\ UNCHANGED <<account, member, emailOwner, issued>>

Next ==
  \/ \E p \in Project, s \in Social : SignIn(p, s) \/ Join(p, s)
  \/ \E p \in Project, s \in Social, u \in Uid : SignUp(p, s, u)
  \/ \E p \in Project, u \in Uid : EmailSignUp(p, u)
  \/ \E u \in Uid, s \in Social : Link(u, s)
  \/ \E u \in Uid : Unlink(u)

Spec == Init /\ [][Next]_vars
=============================================================================

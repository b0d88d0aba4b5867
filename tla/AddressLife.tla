----------------------------- MODULE AddressLife -----------------------------
(***************************************************************************)
(* What the email endpoints promise the owner of an address, without SQL    *)
(* statements, transactions, lost mails or requests that overlap.  An       *)
(* address is registered once, for an account of its own; it waits for the  *)
(* code that was mailed last; it is verified once, after that account's     *)
(* code was presented in time, and keeps account and password for good; and *)
(* only a verified address opens sessions, for its own account.             *)
(***************************************************************************)
EXTENDS Naturals

CONSTANTS Email, Uid, Password, Code, Project, NoRow, NoCode, Window

VARIABLES
  row,       \* what is registered for each address, or none
  mailbox,   \* the code mailed last to each address, or none
  sessions,  \* sessions opened with each address
  proved,    \* accounts whose code was presented in time
  now

vars == <<row, mailbox, sessions, proved, now>>

Init ==
  /\ row = [e \in Email |-> NoRow]
  /\ mailbox = [e \in Email |-> NoCode]
  /\ sessions = [e \in Email |-> {}]
  /\ proved = {}
  /\ now = 0

Waiting(e) == row[e] # NoRow /\ ~row[e].verified

Taken == proved \cup {row[e].uid : e \in {d \in Email : row[d] # NoRow}}

\* A code is never good for longer than the window.
Register(e) ==
  /\ row[e] = NoRow
  /\ row'[e] \in [uid : Uid \ Taken, password : Password, verified : {FALSE},
                  code : Code, until : 0 .. now + Window]
  /\ mailbox'[e] = mailbox[e] /\ sessions'[e] = sessions[e]

Mail(e) ==
  /\ Waiting(e)
  /\ mailbox'[e] = row[e].code
  /\ row'[e] = row[e] /\ sessions'[e] = sessions[e]

Resend(e) ==
  /\ Waiting(e)
  /\ \E c \in Code : row'[e] = [row[e] EXCEPT !.code = c, !.until = now + Window]
  /\ mailbox'[e] = mailbox[e] /\ sessions'[e] = sessions[e]

Verify(e) ==
  /\ Waiting(e)
  /\ row[e].uid \in proved
  /\ row'[e] = [row[e] EXCEPT !.verified = TRUE, !.code = NoCode, !.until = 0]
  /\ mailbox'[e] = mailbox[e] /\ sessions'[e] = sessions[e]

OpenSession(e) ==
  /\ row[e] # NoRow /\ row[e].verified
  /\ \E p \in Project :
       sessions'[e] = sessions[e] \cup {[project |-> p, uid |-> row[e].uid, email |-> e]}
  /\ row'[e] = row[e] /\ mailbox'[e] = mailbox[e]

\* What can become of one address, and that nothing does.
Lives(e) == Register(e) \/ Mail(e) \/ Resend(e) \/ Verify(e) \/ OpenSession(e)
Same(e) == row'[e] = row[e] /\ mailbox'[e] = mailbox[e] /\ sessions'[e] = sessions[e]

\* The code is presented before it expires.
Present(e) ==
  /\ Waiting(e)
  /\ now <= row[e].until
  /\ proved' = proved \cup {row[e].uid}
  /\ UNCHANGED <<row, mailbox, sessions, now>>

Tick == now' = now + 1 /\ UNCHANGED <<row, mailbox, sessions, proved>>

Next ==
  \/ \E e \in Email :
       /\ Lives(e)
       /\ \A d \in Email \ {e} : Same(d)
       /\ UNCHANGED <<proved, now>>
  \/ \E e \in Email : Present(e)
  \/ Tick

Spec == Init /\ [][Next]_vars
=============================================================================

------------------------------ MODULE ReplyOnce ------------------------------
(***************************************************************************)
(* What the realtime reply service promises, seen from the chat: a trigger   *)
(* is answered at most once, a contact has one reply in flight at a time, a  *)
(* reply that was given up is never submitted, one that may have been        *)
(* submitted is never given up or tried again, and one that is reported as   *)
(* verified was submitted.                                                  *)
(***************************************************************************)
EXTENDS Naturals

CONSTANT Key        \* triggers: records with a field "contact"

VARIABLES
  phase,            \* per trigger: none, open, fenced, dropped or verified
  submissions       \* per trigger: replies to it in the chat

replyVars == <<phase, submissions>>

ReplyInit ==
  /\ phase = [k \in Key |-> "none"]
  /\ submissions = [k \in Key |-> 0]

InFlight(c) == \E k \in Key : k.contact = c /\ phase[k] \in {"open", "fenced"}

Only(k, f, g) == \A j \in Key \ {k} : g[j] = f[j]

Move(k, from, to) ==
  /\ phase[k] = from /\ phase'[k] = to
  /\ Only(k, phase, phase')
  /\ UNCHANGED submissions

Open(k) == Move(k, "none", "open") /\ ~InFlight(k.contact)
Drop(k) == Move(k, "open", "dropped")
FenceOff(k) == Move(k, "open", "fenced")
Verify(k) == Move(k, "fenced", "verified") /\ submissions[k] = 1

Submit(k) ==
  /\ phase[k] = "fenced"
  /\ submissions[k] = 0 /\ submissions'[k] = 1
  /\ Only(k, submissions, submissions')
  /\ UNCHANGED phase

ReplyNext == \E k \in Key : Open(k) \/ Drop(k) \/ FenceOff(k) \/ Submit(k) \/ Verify(k)

ReplySpec == ReplyInit /\ [][ReplyNext]_replyVars

=============================================================================

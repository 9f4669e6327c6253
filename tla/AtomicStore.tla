----------------------------- MODULE AtomicStore -----------------------------
(***************************************************************************)
(* What a transaction of the encrypted store promises its callers: it      *)
(* takes effect as one step, on the file the transaction before it left,   *)
(* and not after its caller was answered or killed.  A caller told "done"  *)
(* has had its effect; one told "failed", or killed, may have.             *)
(***************************************************************************)
EXTENDS Sequences

CONSTANTS Calls

VARIABLES
  ledger,           \* the transactions that took effect, in their order
  answer            \* of each call: open, done, failed or killed

Effective == {ledger[n] : n \in DOMAIN ledger}

Init == ledger = <<>> /\ answer = [c \in Calls |-> "open"]

TakesEffect(c) ==
  /\ answer[c] = "open" /\ c \notin Effective
  /\ ledger' = Append(ledger, c)
  /\ UNCHANGED answer

Answers(c) ==
  /\ answer[c] = "open"
  /\ \/ c \in Effective /\ answer' = [answer EXCEPT ![c] = "done"]
     \/ answer' = [answer EXCEPT ![c] = "failed"]
  /\ UNCHANGED ledger

\* The calls of one process die together.
Dies(calls) ==
  /\ answer' = [c \in Calls |-> IF c \in calls /\ answer[c] = "open" THEN "killed" ELSE answer[c]]
  /\ UNCHANGED ledger

Next ==
  \/ \E c \in Calls : TakesEffect(c) \/ Answers(c)
  \/ \E calls \in SUBSET Calls : Dies(calls)

Spec == Init /\ [][Next]_<<ledger, answer>>
=============================================================================

----------------------------- MODULE MCAdmission -----------------------------
(* The two gates a scheduled cycle passes: the durable record that claims its *)
(* tick, and the dispatcher that admits it.  They share no state, so each is   *)
(* explored while the other rests.                                          *)
(*                                                                         *)
(* Two scheduled cycles and a reply: p0 meets itself and p1.  Two replies     *)
(* meet as two cycles do once they have their owners, and the acceptance lane *)
(* is a p1 that takes over nobody.                                          *)
EXTENDS DispatcherAdmission, SingleScheduler

VARIABLE gate

MCCallers == {"cycle1", "cycle2", "reply"}
MCLane == [c \in MCCallers |-> IF c = "reply" THEN "p1" ELSE "p0"]

recordVars == <<now, scheduler, claim, misses>>
MCVars == <<gate, vars, recordVars>>

MCInit ==
  /\ Init /\ SchedulerInit
  /\ gate \in {"dispatcher", "record"}
  /\ gate = "record" => ~durable

AtDispatcher == Next /\ gate = "dispatcher" /\ UNCHANGED <<gate, recordVars>>
AtRecord     == SchedulerNext /\ gate = "record" /\ UNCHANGED <<gate, vars>>
TimeIsOver   == gate = "record" /\ now = MaxTime /\ UNCHANGED MCVars

MCNext == AtDispatcher \/ AtRecord \/ TimeIsOver

MCSpec == MCInit /\ [][MCNext]_MCVars /\ Fairness
=============================================================================

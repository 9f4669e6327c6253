--------------------------- MODULE MCServiceScopes ---------------------------
(* Several instances of the service in one run.  A scope limits the tasks    *)
(* that take part, the positions that are written at, the starts of the      *)
(* process, its failures and enrollments; every state lies in one of them.   *)
EXTENDS MCRealtimeReplyService

Scope(deliverers, positions, starts) ==
  [deliverers |-> deliverers, positions |-> positions, starts |-> starts,
   p0 |-> FALSE, stops |-> FALSE, revisions |-> 1, faults |-> 0]

Within(scope) ==
  /\ epoch <= scope.starts
  /\ faults <= scope.faults
  /\ scope.stops \/ lifecycle # "stopping"
  /\ scope.p0 \/ gate \cap {P0, P0Asking} = {}
  /\ \A c \in Contacts : revision[c] <= scope.revisions
  /\ \A c \in Contacts : scope.positions < MaxPosition =>
       \A n \in DOMAIN chat[c] : n > scope.positions => chat[c][n].from = "bot"
  /\ \A d \in Deliverers \ scope.deliverers : \A p \in Procs : p[1] = d => At(p, "idle")

(* What a tick must settle alone; one message with every task, a crash and a  *)
(* failed call; a stop and the next start; two messages with the recovery; a  *)
(* re-enrollment while either kind of task delivers, with a second message    *)
(* where the generation does; a P0 cycle beside one message.                *)
DrainScope    == Scope({"flush", "tick"}, 2, 1)
FailureScope  == [Scope({"flush", "tick", "recovery"}, 1, 2) EXCEPT !.faults = 1]
StopScope     == [Scope({"flush", "recovery"}, 1, 2) EXCEPT !.stops = TRUE]
RecoverScope  == Scope({"flush", "recovery"}, 2, 1)
ReenrollScope == [Scope({"flush"}, 2, 1) EXCEPT !.revisions = 2]
ReplacedScope == [Scope({"flush", "tick"}, 1, 1) EXCEPT !.revisions = 2]
BesideP0Scope == [Scope({"flush"}, 1, 1) EXCEPT !.p0 = TRUE]
DeliveryScopes ==
  {FailureScope, StopScope, RecoverScope, ReenrollScope, ReplacedScope, DrainScope,
   BesideP0Scope}

InDeliveryScope == \E scope \in DeliveryScopes : Within(scope)

=============================================================================

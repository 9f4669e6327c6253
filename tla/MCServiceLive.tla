---------------------------- MODULE MCServiceLive ----------------------------
(* Liveness in two scopes: what a tick must settle alone, and what recovery    *)
(* must settle in the process that left it or after a restart.  A history     *)
(* stays in the scope it begins in.                                         *)
EXTENDS MCServiceScopes

VARIABLE scope

RestartScope == [Scope({"flush", "recovery"}, 1, 2) EXCEPT !.p0 = TRUE, !.stops = TRUE]
LiveScopes   == {DrainScope, RestartScope}

TakesPart(d) == d \in scope.deliverers

ScopedNext == Next /\ UNCHANGED scope /\ Within(scope)'

(* What is limited happens under no fairness, the tick and the recovery      *)
(* excepted.                                                               *)
ScopedSpec ==
  /\ Init /\ scope \in LiveScopes
  /\ [][ScopedNext]_<<vars, scope>>
  /\ LoopFairness
  /\ \A c \in Contacts : /\ WF_vars(TakesPart("tick") /\ TickDelivers(c))
                         /\ WF_vars(TakesPart("recovery") /\ RecoveryLists(c))

=============================================================================

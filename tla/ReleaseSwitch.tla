---------------------------- MODULE ReleaseSwitch -----------------------------
(***************************************************************************)
(* What the release manager promises: the installation is a pair, the      *)
(* release `bin` names and the one `bin.previous` names, that changes at   *)
(* once, by an install or by a rollback, and never while a runtime that    *)
(* was started from it is running.  Crashes and recoveries do not show.    *)
(***************************************************************************)
CONSTANTS Releases, Absent, Legacy, None

VARIABLES
  pair,     \* the current release and the previous one
  running   \* what the runtime was started from, or None

switchVars == <<pair, running>>

Installed(current, previous) == [current |-> current, previous |-> previous]

Init ==
  /\ pair \in {Installed(c, p) : c \in Releases \union {Absent, Legacy},
                                 p \in Releases \union {Absent}}
  /\ running = None

\* Only a validated release becomes the previous one.
Install(r) ==
  /\ running = None
  /\ pair' = Installed(r, IF pair.current \in Releases THEN pair.current ELSE Absent)
  /\ UNCHANGED running

Rollback ==
  /\ running = None
  /\ {pair.current, pair.previous} \subseteq Releases
  /\ pair' = Installed(pair.previous, pair.current)
  /\ UNCHANGED running

Start ==
  /\ running = None /\ pair.current # Absent
  /\ running' = pair.current
  /\ UNCHANGED pair

Stop == running # None /\ running' = None /\ UNCHANGED pair

Next == (\E r \in Releases : Install(r)) \/ Rollback \/ Start \/ Stop

Spec == Init /\ [][Next]_switchVars
=============================================================================

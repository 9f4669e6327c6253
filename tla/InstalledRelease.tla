--------------------------- MODULE InstalledRelease ---------------------------
(* What the clean install and the upgrades promise of an installed runtime.    *)
(* Its pointer names a whole and sealed release or nothing, it moves at once   *)
(* and never while the runtime runs, and what the archive says of an upgrade   *)
(* is where the pointer was when it was written.                             *)
CONSTANTS Releases, Nobody

VARIABLES
  pointer,    \* the release that would be started
  sealed,     \* the releases that are whole and no longer change
  running,    \* a runtime is running
  verdict     \* what each upgrade said of itself

releaseVars == <<pointer, sealed, running, verdict>>

ReleaseInit ==
  /\ pointer = Nobody /\ sealed = {} /\ ~running
  /\ \A r \in DOMAIN verdict : verdict[r] = "none"

Seal(r) ==
  /\ sealed' = sealed \cup {r}
  /\ UNCHANGED <<pointer, running, verdict>>

Move(r) ==
  /\ r \in sealed /\ ~running
  /\ pointer' = r
  /\ UNCHANGED <<sealed, running, verdict>>

Report(r) ==
  /\ verdict' = [verdict EXCEPT ![r] = IF pointer = r THEN "complete" ELSE "undone"]
  /\ UNCHANGED <<pointer, sealed, running>>

Run ==
  /\ pointer # Nobody
  /\ running' = ~running
  /\ UNCHANGED <<pointer, sealed, verdict>>

ReleaseNext ==
  \/ \E r \in Releases : Seal(r) \/ Move(r)
  \/ \E r \in DOMAIN verdict : Report(r)
  \/ Run

ReleaseSpec == ReleaseInit /\ [][ReleaseNext]_releaseVars
=============================================================================

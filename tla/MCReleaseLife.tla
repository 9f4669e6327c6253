---------------------------- MODULE MCReleaseLife ----------------------------
(* The life of a release: the first install of a runtime and its upgrades,    *)
(* the install and rollback of releases in an installed one, and the           *)
(* acceptance of the one that is current.  They work on different roots, or    *)
(* see of one another only that the current release changes, so each is        *)
(* explored while the others rest.                                          *)
(*                                                                         *)
(* Two commands and the runtime over three releases, two of one manifest, from*)
(* nothing installed, a legacy bin, or two releases installed.  Acceptance of *)
(* two releases, from one to the other and back.  Two installs and two         *)
(* upgrades of one root.                                                    *)
EXTENDS ReleaseTransaction, SupervisedAcceptance, RuntimeInstall

CONSTANTS r1, r2, r3, a, b, l1, one, two, ca, cb, i1, i2, u1, u2
VARIABLE subject

MCReleases == {r1, r2, r3}
MCManifest == [r \in MCReleases |-> IF r = r3 THEN r2 ELSE r]
MCStarts == {Pair(Absent, Absent), Pair(Legacy, r1), Pair(r2, r1)}

MCInit ==
  /\ Init /\ AcceptanceInit /\ InstallInit
  /\ subject \in {"disk", "acceptance", "root"}
  /\ subject = "disk" => installed = one
  /\ subject # "disk" => Observed = Pair(Absent, Absent) /\ locks = {} /\ installed = one
  /\ subject # "root" => laid = {}

OnDisk == Next /\ subject = "disk" /\ UNCHANGED <<subject, acceptanceVars, installVars>>
OfAcceptance == AcceptanceNext /\ subject = "acceptance" /\ UNCHANGED <<subject, vars, installVars>>
OfRoot == InstallNext /\ subject = "root" /\ UNCHANGED <<subject, vars, acceptanceVars>>

MCNext == OnDisk \/ OfAcceptance \/ OfRoot

MCSpec == MCInit /\ [][MCNext]_<<subject, vars, acceptanceVars, installVars>>

-----------------------------------------------------------------------------
\* Two transactions of one command, killed or failing twice; and two commands
\* that race over one transaction and its recovery.
Histories == cmd[b] = Idle /\ locks \union movedLocks = {}
Races == transactions + faults <= 2 /\ locks \union movedLocks = {}
OldLocks == cmd[b] = Idle /\ transactions <= 1 /\ faults <= 1

\* Failures over one acceptance in a chat that moves on; failures over two
\* acceptances; and two commands at once.
Written == \E c \in Sending : Occurrences(chat[c], Foreign) > 0
Moving  == switches = 0 /\ failures <= 1
Failing == failures + switches <= 2 /\ ~Written

\* Two mishaps of an install and of an upgrade; one of them with another one
\* beside it and a build; none with all of them.
Crowd == {p \in {i2, u2} : step[p] # "idle"}

InScope ==
  /\ mishaps = 2 => Crowd = {}
  /\ candidate = 3 => mishaps + Cardinality(Crowd) <= 1
  /\ mishaps = 1 => Cardinality(Crowd) <= 1
  /\ Histories \/ Races \/ OldLocks
  /\ \/ asked[cb] = NoRun /\ (Moving \/ Failing)
     \/ failures = 0 /\ ~Written
=============================================================================

---------------------------- MODULE RuntimeInstall ----------------------------
(* The first install of a runtime and its upgrades, one step per durable       *)
(* step: scripts/runtime-v2-clean-install.mjs with its container and its       *)
(* journal, and scripts/runtime-v2-upgrade.mjs.  Every process that is not the *)
(* first finds the files as another one, alive or killed, has left them.       *)
(*                                                                         *)
(* A release is named by the process that makes it.  A build may put another   *)
(* candidate into the directory while it is read: the data of a container or   *)
(* of a release are the two halves that were read, each of the version it then *)
(* had.                                                                     *)
EXTENDS Naturals, Sequences, FiniteSets

CONSTANTS
  Installers,   \* the runs of runtime-v2-clean-install
  Upgraders,    \* the runs of runtime-v2-upgrade
  Nobody,
  MaxVersion,   \* bound: builds of the candidate
  MaxMishaps    \* bound: calls that fail, and kills

Processes == Installers \cup Upgraders
Purposes  == {"release-installer", "live-operation"}

ASSUME InstallAssumption ==
  /\ Installers \cap Upgraders = {}
  /\ {Nobody, "runtime"} \cap Processes = {} /\ Nobody # "runtime"
  /\ MaxVersion \in Nat \ {0} /\ MaxMishaps \in Nat

VARIABLES
  candidate,   \* the version in the candidate directory
  install,     \* the install journal beside the root
  container,   \* the data in the container of each installer
  laid,        \* what the root holds besides releases
  release,     \* the release of each process: its data and its mode
  receipts,    \* who has left a receipt in the state directory
  current,     \* the release the pointer names
  gate,        \* who has the kernel lock of each purpose
  wal,         \* the upgrade journal in the state directory
  archived,    \* what the archive says of each upgrade
  step,        \* where each process is
  found,       \* what it read: the version of the candidate, the pointer
  mishaps

diskVars == <<install, container, laid, release, receipts, current, wal, archived>>
installVars == <<candidate, diskVars, gate, step, found, mishaps>>

-----------------------------------------------------------------------------
(* The steps in their order.  A step that is a phase writes it to a journal.   *)
CleanSteps ==
  <<"ask", "create-journal", "intent-recorded", "create-container", "container-created",
    "scan", "population-started", "fill", "container-validated",
    "root", "state", "tombstones", "gate-directory", "gates", "catalog",
    "release-installer", "live-operation", "gates-held", "releases",
    "create-release", "materialize", "materialized", "seal", "release-validated",
    "receipt", "ready-to-link", "link", "current-published", "complete", "close">>

UpgradeSteps ==
  <<"validate", "release-installer", "live-operation", "drift", "create-wal",
    "create-release", "copy", "seal", "release-validated", "next-pointer",
    "ready-to-switch", "switch", "current-switched", "installed-validated",
    "receipt", "complete", "archive", "close">>

Layout == {"root", "state", "tombstones", "gate-directory", "gates", "catalog", "releases"}

InstallPhases ==
  {"intent-recorded", "container-created", "population-started", "container-validated",
   "gates-held", "materialized", "release-validated", "ready-to-link",
   "current-published", "complete"}

\* The phases for which a later installer takes both gates to look at the rest.
GatePhases ==
  {"gates-held", "materialized", "release-validated", "ready-to-link",
   "current-published", "complete"}

StepsOf(p)   == IF p \in Installers THEN CleanSteps ELSE UpgradeSteps
Place(p, s)  == CHOOSE i \in DOMAIN StepsOf(p) : StepsOf(p)[i] = s
AtStep(p, s)     == step[p] = s
Ends(p, s)   == step' = [step EXCEPT ![p] = s]
Proceeds(p)      == Ends(p, StepsOf(p)[Place(p, step[p]) + 1])
Over         == {"idle", "ended", "killed"}

-----------------------------------------------------------------------------
(* Kernel locks.                                                           *)
NoWal == [by |-> Nobody, phase |-> "none"]

Drops(p) == gate' = [x \in Purposes |-> IF gate[x] = p THEN Nobody ELSE gate[x]]

\* The clean install locks the files of the gates itself; the upgrade takes leases,
\* and there are none without a whole catalogue, nor a live one beside a pending
\* upgrade.
MayLock(p, x) ==
  /\ gate[x] = Nobody
  /\ p \in Upgraders =>
       /\ "catalog" \in laid
       /\ x = "live-operation" => wal = NoWal

TakesLock(p, x) ==
  /\ AtStep(p, x)
  /\ IF MayLock(p, x) THEN gate' = [gate EXCEPT ![x] = p] /\ Proceeds(p)
                      ELSE UNCHANGED gate /\ Ends(p, IF p \in Installers THEN "error" ELSE "close")
  /\ UNCHANGED <<candidate, diskVars, found, mishaps>>

GivesUpLocks(p) ==
  /\ AtStep(p, "close")
  /\ Drops(p) /\ Ends(p, "ended")
  /\ UNCHANGED <<candidate, diskVars, found, mishaps>>

-----------------------------------------------------------------------------
(* Releases.                                                               *)
Whole(v) == <<v, v>>
Valid(data) == \E v \in 1 .. MaxVersion : data = Whole(v)
Sealed == {p \in Processes : release[p].sealed /\ Valid(release[p].data)}

CreatesRelease(p) ==
  /\ AtStep(p, "create-release")
  /\ release' = [release EXCEPT ![p].made = TRUE]
  /\ Proceeds(p)
  /\ UNCHANGED <<candidate, install, container, laid, receipts, current, wal, archived, gate,
                 found, mishaps>>

\* A half of the payload: from the container, or as the candidate is by now.
Puts(p) ==
  /\ AtStep(p, IF p \in Installers THEN "materialize" ELSE "copy")
  /\ LET data == release[p].data
         half == IF p \in Installers THEN container[p][Len(data) + 1] ELSE candidate
     IN /\ release' = [release EXCEPT ![p].data = Append(data, half)]
        /\ IF Len(data) = 1 THEN Proceeds(p) ELSE UNCHANGED step
  /\ UNCHANGED <<candidate, install, container, laid, receipts, current, wal, archived, gate,
                 found, mishaps>>

\* Made immutable, and then validated against the manifest that was read first.
Unread(p)     == TRUE                               \* the bug: the copy is trusted
AsExpected(p) == release[p].data = Whole(found[p].version)

Failed(p) == IF p \in Installers THEN "error" ELSE "abort"

Seals(p) ==
  /\ AtStep(p, "seal")
  /\ release' = [release EXCEPT ![p].sealed = TRUE]
  /\ IF AsExpected(p) THEN Proceeds(p) ELSE Ends(p, Failed(p))
  /\ UNCHANGED <<candidate, install, container, laid, receipts, current, wal, archived, gate,
                 found, mishaps>>

LeavesReceipt(p) ==
  /\ AtStep(p, "receipt")
  /\ receipts' = receipts \cup {p}
  /\ Proceeds(p)
  /\ UNCHANGED <<candidate, install, container, laid, release, current, wal, archived, gate,
                 found, mishaps>>

-----------------------------------------------------------------------------
(* The clean install.                                                      *)
NoInstall == [by |-> Nobody, phase |-> "none", error |-> FALSE]

\* A journal that is there ends every later install: it is verified and never
\* taken up again.  The look at the gates takes both for that moment.
AsksJournal(p) ==
  /\ AtStep(p, "ask")
  /\ \/ /\ install = NoInstall
        /\ Proceeds(p) /\ UNCHANGED gate
     \/ /\ install # NoInstall
        /\ install.phase \in GatePhases /\ \A x \in Purposes : gate[x] = Nobody
        /\ gate' = [x \in Purposes |-> p] /\ Ends(p, "close")
     \/ /\ install # NoInstall
        /\ install.phase \notin GatePhases \/ \E x \in Purposes : gate[x] # Nobody
        /\ Ends(p, "ended") /\ UNCHANGED gate
  /\ UNCHANGED <<candidate, diskVars, found, mishaps>>

\* The file must not be there; it holds nothing until the intent is recorded.
CreatesJournal(p) ==
  /\ AtStep(p, "create-journal")
  /\ IF install = NoInstall
       THEN install' = [NoInstall EXCEPT !.by = p, !.phase = "empty"] /\ Proceeds(p)
       ELSE UNCHANGED install /\ Ends(p, "error")
  /\ UNCHANGED <<candidate, container, laid, release, receipts, current, wal, archived, gate,
                 found, mishaps>>

Records(p) ==
  /\ p \in Installers /\ step[p] \in InstallPhases
  /\ install' = [install EXCEPT !.phase = step[p]]
  /\ Proceeds(p)
  /\ UNCHANGED <<candidate, container, laid, release, receipts, current, wal, archived, gate,
                 found, mishaps>>

CreatesContainer(p) ==
  /\ AtStep(p, "create-container")
  /\ container' = [container EXCEPT ![p] = <<>>]
  /\ Proceeds(p)
  /\ UNCHANGED <<candidate, install, laid, release, receipts, current, wal, archived, gate,
                 found, mishaps>>

Scans(p) ==
  /\ AtStep(p, "scan")
  /\ found' = [found EXCEPT ![p].version = candidate]
  /\ Proceeds(p)
  /\ UNCHANGED <<candidate, diskVars, gate, mishaps>>

\* Every file is hashed again while it is copied.
Fills(p) ==
  /\ AtStep(p, "fill")
  /\ IF candidate # found[p].version
       THEN UNCHANGED container /\ Ends(p, "error")
       ELSE /\ container' = [container EXCEPT ![p] = Append(@, candidate)]
            /\ IF Len(container[p]) = 1 THEN Proceeds(p) ELSE UNCHANGED step
  /\ UNCHANGED <<candidate, install, laid, release, receipts, current, wal, archived, gate,
                 found, mishaps>>

\* An empty root may be there already; nothing else may.
MayLay(p) == IF AtStep(p, "root") THEN laid \subseteq {"root"} ELSE step[p] \notin laid
Lays(p) ==
  /\ p \in Installers /\ step[p] \in Layout
  /\ IF MayLay(p) THEN laid' = laid \cup {step[p]} /\ Proceeds(p)
                  ELSE UNCHANGED laid /\ Ends(p, "error")
  /\ UNCHANGED <<candidate, install, container, release, receipts, current, wal, archived, gate,
                 found, mishaps>>

Links(p) ==
  /\ AtStep(p, "link")
  /\ IF current = Nobody THEN current' = p /\ Proceeds(p) ELSE UNCHANGED current /\ Ends(p, "error")
  /\ UNCHANGED <<candidate, install, container, laid, release, receipts, wal, archived, gate,
                 found, mishaps>>

\* The catch of the install; the record of the error may itself fail.
RecordsError(p) ==
  /\ AtStep(p, "error")
  /\ \/ install.by = p /\ install.phase \notin {"empty", "complete"}
        /\ install' = [install EXCEPT !.error = TRUE]
     \/ UNCHANGED install
  /\ Ends(p, "close")
  /\ UNCHANGED <<candidate, container, laid, release, receipts, current, wal, archived, gate,
                 found, mishaps>>

-----------------------------------------------------------------------------
(* The upgrade.                                                            *)
\* Before any lease: what is installed, and what is to be.
Validates(p) ==
  /\ AtStep(p, "validate")
  /\ IF current \in Sealed /\ release[current].data # Whole(candidate)
       THEN found' = [found EXCEPT ![p] = [version |-> candidate, previous |-> current]] /\ Proceeds(p)
       ELSE UNCHANGED found /\ Ends(p, "ended")
  /\ UNCHANGED <<candidate, diskVars, gate, mishaps>>

Bound(p) == current = found[p].previous

ChecksDrift(p) ==
  /\ AtStep(p, "drift")
  /\ IF Bound(p) THEN Proceeds(p) ELSE Ends(p, "close")
  /\ UNCHANGED <<candidate, diskVars, gate, found, mishaps>>

CreatesWal(p) ==
  /\ AtStep(p, "create-wal")
  /\ IF wal = NoWal THEN wal' = [by |-> p, phase |-> "intent-recorded"] /\ Proceeds(p)
                    ELSE UNCHANGED wal /\ Ends(p, "close")
  /\ UNCHANGED <<candidate, install, container, laid, release, receipts, current, archived, gate,
                 found, mishaps>>

PreparesPointer(p) ==
  /\ AtStep(p, "next-pointer")
  /\ IF Bound(p) /\ AsExpected(p) THEN Proceeds(p) ELSE Ends(p, "abort")
  /\ UNCHANGED <<candidate, diskVars, gate, found, mishaps>>

SwitchesPointer(p) ==
  /\ AtStep(p, "switch")
  /\ IF Bound(p) THEN current' = p /\ Proceeds(p) ELSE UNCHANGED current /\ Ends(p, "abort")
  /\ UNCHANGED <<candidate, install, container, laid, release, receipts, wal, archived, gate,
                 found, mishaps>>

UpgradePhases ==
  {"release-validated", "ready-to-switch", "current-switched", "installed-validated", "complete"}

Installed(p) == current = p /\ p \in Sealed

WritesPhase(p) ==
  /\ p \in Upgraders /\ step[p] \in UpgradePhases
  /\ IF AtStep(p, "installed-validated") => Installed(p)
       THEN wal' = [wal EXCEPT !.phase = step[p]] /\ Proceeds(p)
       ELSE UNCHANGED wal /\ Ends(p, "restore")
  /\ UNCHANGED <<candidate, install, container, laid, release, receipts, current, archived, gate,
                 found, mishaps>>

Archives(p) ==
  /\ step[p] \in {"archive", "archive-undone"}
  /\ archived' = [archived EXCEPT ![p] = IF AtStep(p, "archive") THEN "complete" ELSE "undone"]
  /\ wal' = NoWal
  /\ Ends(p, "close")
  /\ UNCHANGED <<candidate, install, container, laid, release, receipts, current, gate,
                 found, mishaps>>

\* The catch of the upgrade: before the switch the pointer must still be what it
\* was; after it the previous release is validated and put back.
AbortsUpgrade(p) ==
  /\ AtStep(p, "abort")
  /\ IF Bound(p)
       THEN wal' = [wal EXCEPT !.phase = "aborted-before-switch"] /\ Ends(p, "archive-undone")
       ELSE UNCHANGED wal /\ Ends(p, "close")
  /\ UNCHANGED <<candidate, install, container, laid, release, receipts, current, archived, gate,
                 found, mishaps>>

Restores(p) ==
  /\ AtStep(p, "restore")
  /\ IF found[p].previous \in Sealed
       THEN current' = found[p].previous /\ Ends(p, "rolled-back")
       ELSE UNCHANGED current /\ Ends(p, "close")
  /\ UNCHANGED <<candidate, install, container, laid, release, receipts, wal, archived, gate,
                 found, mishaps>>

RollsBack(p) ==
  /\ AtStep(p, "rolled-back")
  /\ wal' = [by |-> p, phase |-> "rolled-back"]
  /\ Ends(p, "archive-undone")
  /\ UNCHANGED <<candidate, install, container, laid, release, receipts, current, archived, gate,
                 found, mishaps>>

-----------------------------------------------------------------------------
(* Mishaps, and everybody else.                                            *)
Undoing == {"abort", "restore", "rolled-back", "archive-undone"}

\* Where the catch of each command goes on.  `switched` is set by the rename.
Caught(p) ==
  IF p \in Installers THEN "error"
  ELSE IF step[p] \in Undoing \/ Place(p, step[p]) <= Place(p, "create-wal") THEN "close"
  ELSE IF Place(p, step[p]) <= Place(p, "switch") THEN "abort" ELSE "restore"

\* A call fails before its effect; or behind it, when it is the one that follows.
\* The two that write a file and then flush it may leave the file.
CallBreaks(p) ==
  /\ mishaps < MaxMishaps /\ step[p] \notin Over \cup {"ask", "close", "error"}
  /\ mishaps' = mishaps + 1
  /\ Ends(p, Caught(p))
  /\ \/ UNCHANGED <<wal, archived>>
     \/ /\ AtStep(p, "create-wal") /\ wal = NoWal
        /\ wal' = [by |-> p, phase |-> "intent-recorded"] /\ UNCHANGED archived
     \/ /\ AtStep(p, "archive")
        /\ wal' = NoWal /\ archived' = [archived EXCEPT ![p] = "complete"]
  /\ UNCHANGED <<candidate, install, container, laid, release, receipts, current, gate, found>>

ProcessKilled(p) ==
  /\ mishaps < MaxMishaps /\ step[p] \notin Over
  /\ mishaps' = mishaps + 1
  /\ Drops(p) /\ Ends(p, "killed")
  /\ UNCHANGED <<candidate, diskVars, found>>

RunsCommand(p) ==
  /\ AtStep(p, "idle")
  /\ Ends(p, StepsOf(p)[1])
  /\ UNCHANGED <<candidate, diskVars, gate, found, mishaps>>

Builds ==
  /\ candidate < MaxVersion
  /\ candidate' = candidate + 1
  /\ UNCHANGED <<diskVars, gate, step, found, mishaps>>

\* A runtime starts from the pointer under the live lease; a pending upgrade
\* refuses it.
RuntimeStarts ==
  /\ current # Nobody /\ "catalog" \in laid /\ wal = NoWal
  /\ gate["live-operation"] = Nobody
  /\ gate' = [gate EXCEPT !["live-operation"] = "runtime"]
  /\ UNCHANGED <<candidate, diskVars, step, found, mishaps>>

RuntimeStops ==
  /\ gate["live-operation"] = "runtime"
  /\ Drops("runtime")
  /\ UNCHANGED <<candidate, diskVars, step, found, mishaps>>

-----------------------------------------------------------------------------
InstallInit ==
  /\ candidate = 1
  /\ install = NoInstall /\ wal = NoWal
  /\ container = [p \in Installers |-> <<>>]
  /\ laid \in {{}, {"root"}}
  /\ release = [p \in Processes |-> [made |-> FALSE, data |-> <<>>, sealed |-> FALSE]]
  /\ receipts = {} /\ current = Nobody
  /\ gate = [x \in Purposes |-> Nobody]
  /\ archived = [p \in Upgraders |-> "none"]
  /\ step = [p \in Processes |-> "idle"]
  /\ found = [p \in Processes |-> [version |-> 0, previous |-> Nobody]]
  /\ mishaps = 0

CleanInstall(p) ==
  \/ AsksJournal(p) \/ CreatesJournal(p) \/ Records(p) \/ CreatesContainer(p) \/ Scans(p) \/ Fills(p)
  \/ Lays(p) \/ Links(p) \/ RecordsError(p)

Upgrade(p) ==
  \/ Validates(p) \/ ChecksDrift(p) \/ CreatesWal(p) \/ PreparesPointer(p) \/ SwitchesPointer(p)
  \/ WritesPhase(p) \/ Archives(p) \/ AbortsUpgrade(p) \/ Restores(p) \/ RollsBack(p)

InstallNext ==
  \/ \E p \in Installers : CleanInstall(p)
  \/ \E p \in Upgraders : Upgrade(p)
  \/ \E p \in Processes :
       \/ RunsCommand(p) \/ CreatesRelease(p) \/ Puts(p) \/ Seals(p) \/ LeavesReceipt(p) \/ GivesUpLocks(p)
       \/ CallBreaks(p) \/ ProcessKilled(p)
       \/ \E x \in Purposes : TakesLock(p, x)
  \/ Builds \/ RuntimeStarts \/ RuntimeStops

InstallSpec == InstallInit /\ [][InstallNext]_installVars

-----------------------------------------------------------------------------
(* The pointer of an installed runtime: whatever is killed, fails, or is built *)
(* meanwhile, it names a whole and sealed release or nothing, it moves at once *)
(* and never under a running runtime, and an archived upgrade says of itself   *)
(* what the pointer then is (installCleanRuntimeV2, upgradeRuntimeV2).          *)
Promise ==
  INSTANCE InstalledRelease WITH
    Releases <- Processes, pointer <- current, sealed <- Sealed,
    running <- gate["live-operation"] = "runtime", verdict <- archived
PointerIsInstalled == Promise!ReleaseSpec
=============================================================================

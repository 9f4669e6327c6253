-------------------------- MODULE KernelLockCatalog --------------------------
(***************************************************************************)
(* The kernel locks of a data root (src/src/storage/kernel-lock.ts): two   *)
(* tombstones over the paths of the old locks, a directory with an anchor  *)
(* and a gate (a hard link to it) per purpose, and a catalogue of them with *)
(* its digest.  An installer sets them up under a flock of the state       *)
(* directory, resuming what an earlier one left; everyone else locks a     *)
(* gate, and only under a catalogue that is exact.                         *)
(*                                                                         *)
(* The identities the catalogue records (device, inode, mode, links) are   *)
(* those of the files themselves: nothing in the program replaces one.     *)
(***************************************************************************)
EXTENDS FiniteSets, Naturals

CONSTANTS
  Purposes,         \* what a gate stands for
  OldLocks,         \* the paths that get a tombstone
  Installers,       \* calls of initializeKernelLockCatalogForInstaller
  MaxFaults         \* bound: kills and failing system calls

Nobody == "nobody"

ASSUME CatalogAssumption ==
  Nobody \notin Installers /\ MaxFaults \in Nat

VARIABLES
  tombstone,        \* of each old path: missing, torn (created, not written), whole
  pair,             \* of each purpose: none, anchor, linked
  catalog,          \* its files: manifest, digest, what a kill left over
  temporary,        \* the installers whose temporary file is there
  bootstrap,        \* who has the flock of the state directory
  inst,             \* of each installer: where it is, what it has to do
  faults

catalogVars == <<tombstone, pair, catalog, temporary, bootstrap, inst, faults>>

Buried == \A old \in OldLocks : tombstone[old] = "whole"
Paired == \A u \in Purposes : pair[u] = "linked"

\* validateKernelLockCatalog: the directory holds these files and no other.
Exact == Buried /\ Paired /\ catalog = {"manifest", "digest"} /\ temporary = {}

At(i, where) == inst[i].at = where
Moves(i, where) == inst' = [inst EXCEPT ![i].at = where]

\* An installer ends: its own temporary file goes, and its flock.
Ends(i, where) ==
  /\ inst' = [inst EXCEPT ![i].at = where]
  /\ bootstrap' = IF bootstrap = i THEN Nobody ELSE bootstrap
  /\ temporary' = temporary \ {i}

CatalogInit ==
  /\ tombstone = [old \in OldLocks |-> "missing"]
  /\ pair = [u \in Purposes |-> "none"]
  /\ catalog = {} /\ temporary = {}
  /\ bootstrap = Nobody
  /\ inst = [i \in Installers |-> [at |-> "lock", missing |-> {}]]
  /\ faults = 0

LocksAnyway(i) == TRUE                  \* the bug: no flock is asked for
LockFree(i) == bootstrap = Nobody

LocksState(i) ==
  /\ At(i, "lock")
  /\ IF LockFree(i)
     THEN bootstrap' = i /\ Moves(i, "classify")
     ELSE Moves(i, "busy") /\ UNCHANGED bootstrap
  /\ UNCHANGED <<tombstone, pair, catalog, temporary, faults>>

\* Both paths are looked at before the first is written.
Classifies(i) ==
  /\ At(i, "classify")
  /\ \A old \in OldLocks : tombstone[old] # "torn"
  /\ inst' = [inst EXCEPT ![i] = [at |-> "tombstones",
                                   missing |-> {old \in OldLocks : tombstone[old] = "missing"}]]
  /\ UNCHANGED <<tombstone, pair, catalog, temporary, bootstrap, faults>>

FindsForeign(i) ==
  /\ At(i, "classify")
  /\ \E old \in OldLocks : tombstone[old] = "torn"
  /\ Ends(i, "refused")
  /\ UNCHANGED <<tombstone, pair, catalog, faults>>

\* installCompatibilityTombstone: the exclusive open, then the contents.
OpensTombstone(i) ==
  /\ At(i, "tombstones")
  /\ \E old \in inst[i].missing :
       /\ tombstone[old] = "missing"
       /\ tombstone' = [tombstone EXCEPT ![old] = "torn"]
  /\ Moves(i, "contents")
  /\ UNCHANGED <<pair, catalog, temporary, bootstrap, faults>>

WritesTombstone(i) ==
  /\ At(i, "contents")
  /\ \E old \in inst[i].missing :
       /\ tombstone[old] = "torn"
       /\ tombstone' = [tombstone EXCEPT ![old] = "whole"]
       /\ inst' = [inst EXCEPT ![i] = [at |-> "tombstones", missing |-> @.missing \ {old}]]
  /\ UNCHANGED <<pair, catalog, temporary, bootstrap, faults>>

\* The manifest and the digest are there both or not at all.
FindsCatalog(i) ==
  /\ At(i, "tombstones") /\ inst[i].missing = {}
  /\ ("manifest" \in catalog) = ("digest" \in catalog)
  /\ Moves(i, IF "manifest" \in catalog THEN "validate" ELSE "pairs")
  /\ UNCHANGED <<tombstone, pair, catalog, temporary, bootstrap, faults>>

FindsHalf(i) ==
  /\ At(i, "tombstones") /\ inst[i].missing = {}
  /\ ("manifest" \in catalog) # ("digest" \in catalog)
  /\ Ends(i, "refused")
  /\ UNCHANGED <<tombstone, pair, catalog, faults>>

Anchored == {"anchor", "linked"}

CreatesAnchor(i, u) ==
  /\ At(i, "pairs")
  /\ pair[u] \notin Anchored
  /\ IF pair[u] = "none"
     THEN pair' = [pair EXCEPT ![u] = "anchor"] /\ UNCHANGED <<temporary, bootstrap, inst>>
     ELSE Ends(i, "refused") /\ UNCHANGED pair
  /\ UNCHANGED <<tombstone, catalog, faults>>

LinksGate(i, u) ==
  /\ At(i, "pairs")
  /\ pair[u] = "anchor"
  /\ pair' = [pair EXCEPT ![u] = "linked"]
  /\ UNCHANGED <<tombstone, catalog, temporary, bootstrap, inst, faults>>

PairsDone(i) ==
  /\ At(i, "pairs")
  /\ Paired
  /\ Moves(i, "manifest")
  /\ UNCHANGED <<tombstone, pair, catalog, temporary, bootstrap, faults>>

\* writeNewDurableFile: a temporary file, a look at the destination, a rename.
WritesTemporary(i) ==
  /\ inst[i].at \in {"manifest", "digest"}
  /\ i \notin temporary
  /\ temporary' = temporary \union {i}
  /\ UNCHANGED <<tombstone, pair, catalog, bootstrap, inst, faults>>

RenamesTemporary(i) ==
  /\ inst[i].at \in {"manifest", "digest"}
  /\ i \in temporary
  /\ IF inst[i].at \in catalog
     THEN Ends(i, "refused") /\ UNCHANGED catalog
     ELSE /\ temporary' = temporary \ {i}
          /\ catalog' = catalog \union {inst[i].at}
          /\ Moves(i, IF At(i, "manifest") THEN "digest" ELSE "validate")
          /\ UNCHANGED bootstrap
  /\ UNCHANGED <<tombstone, pair, faults>>

ValidatesCatalog(i) ==
  /\ At(i, "validate")
  /\ Ends(i, IF Exact THEN "done" ELSE "refused")
  /\ UNCHANGED <<tombstone, pair, catalog, faults>>

AtWork(i) == inst[i].at \notin {"lock", "busy", "refused", "failed", "killed", "done"}

\* A system call of an installer fails: its finally blocks run.
InstallerFails(i) ==
  /\ AtWork(i) /\ faults < MaxFaults
  /\ faults' = faults + 1
  /\ Ends(i, "failed")
  /\ UNCHANGED <<tombstone, pair, catalog>>

\* It is killed: the flock goes with it, its temporary file stays.
InstallerKilled(i) ==
  /\ AtWork(i) /\ faults < MaxFaults
  /\ faults' = faults + 1
  /\ Moves(i, "killed")
  /\ bootstrap' = IF bootstrap = i THEN Nobody ELSE bootstrap
  /\ catalog' = IF i \in temporary THEN catalog \union {"leftover"} ELSE catalog
  /\ temporary' = temporary \ {i}
  /\ UNCHANGED <<tombstone, pair>>

InstallerStep(i) ==
  \/ LocksState(i) \/ Classifies(i) \/ FindsForeign(i)
  \/ OpensTombstone(i) \/ WritesTombstone(i)
  \/ FindsCatalog(i) \/ FindsHalf(i)
  \/ (\E u \in Purposes : CreatesAnchor(i, u)) \/ (\E u \in Purposes : LinksGate(i, u))
  \/ PairsDone(i) \/ WritesTemporary(i) \/ RenamesTemporary(i) \/ ValidatesCatalog(i)
  \/ InstallerFails(i) \/ InstallerKilled(i)

=============================================================================

-------------------------- MODULE ReleaseTransaction --------------------------
(***************************************************************************)
(* The release manager (src/scripts/release-manager.mjs): install,         *)
(* rollback and recovery as transactions over the pointers `bin` and       *)
(* `bin.previous`, written ahead in state/release-transaction.json, under  *)
(* the installer's kernel lease and the live-operation lease that a        *)
(* runtime holds too.  A command may be killed or fail between any two     *)
(* durable steps; kernel leases die with their process, the journal stays, *)
(* and while it stays no runtime may start.                                *)
(*                                                                         *)
(* A release stands for its directory and its manifest; a command proves a *)
(* directory's manifest again whenever it uses it, and no directory is     *)
(* damaged here.  The contents of a decision (identifiers, times) are left *)
(* out: it is accepted, refused or never arrives.                          *)
(***************************************************************************)
EXTENDS Naturals, FiniteSets

CONSTANTS
  Commands,         \* processes of the release CLI
  Releases,         \* release directories, staged or installed
  Manifest,         \* the manifest of each
  Locks,            \* lock files an older protocol left in state/
  Starts,           \* pairs the history may begin with
  MaxTransactions,  \* bound: transactions begun
  MaxFaults,        \* bound: commands killed or failing
  Absent, Legacy, None

ASSUME ReleaseAssumption ==
  /\ MaxTransactions \in Nat /\ MaxFaults \in Nat
  /\ Releases \intersect {Absent, Legacy, None} = {}
  /\ Absent # Legacy /\ Absent # None /\ Legacy # None
  /\ None # "runtime" /\ {None, "runtime"} \intersect Commands = {}
  /\ \A start \in Starts : /\ start.current \in Releases \union {Absent, Legacy}
                           /\ start.previous \in Releases \union {Absent}

VARIABLES
  bin, binPrevious,  \* the two pointers
  store,             \* releases moved into .releases
  staging,           \* candidates in .releases/.staging-*
  thawed,            \* directories made writable for the move
  legacyAt,          \* the transaction whose legacy-<txid> holds the legacy bin, or 0
  locks, movedLocks, \* the old lock files, where they were and in the archive
  migration,         \* round6-legacy-migration-<txid>.json
  journal,           \* release-transaction.json
  archive,           \* transactions in release-transaction-archive
  installer, live,   \* the holders of the two kernel leases
  runtime,           \* what the runtime was started from, or None
  cmd,               \* the commands under way
  transactions, faults

disk == <<bin, binPrevious, store, staging, thawed, legacyAt>>
lockFiles == <<locks, movedLocks, migration>>
leases == <<installer, live, runtime>>
counters == <<transactions, faults>>
vars == <<disk, lockFiles, journal, archive, leases, cmd, counters>>

Pointers == Releases \union {Absent, Legacy}
Pair(current, previous) == [current |-> current, previous |-> previous]
Unknown == Pair(None, None)
Observed == Pair(bin, binPrevious)

NoJournal ==
  [txid |-> 0, operation |-> "none", phase |-> "none", candidate |-> None,
   before |-> Unknown, desired |-> Unknown, claim |-> 0]

Idle == [pc |-> "idle", operation |-> "none", candidate |-> None, memory |-> NoJournal]

NoMigration == [txid |-> 0, artifacts |-> {}, archived |-> {}]

At(p, place) == cmd[p].pc = place
Goto(p, place) == cmd' = [cmd EXCEPT ![p].pc = place]
Remember(p, place, record) == cmd' = [cmd EXCEPT ![p].pc = place, ![p].memory = record]

-----------------------------------------------------------------------------
\* The live-operation lease is the runtime's too, and refuses it while a
\* journal is on disk.
StartRuntime ==
  /\ live = None /\ journal = NoJournal /\ bin # Absent
  /\ live' = "runtime" /\ runtime' = bin
  /\ UNCHANGED <<disk, lockFiles, journal, archive, installer, cmd, counters>>

StopRuntime ==
  /\ runtime # None
  /\ live' = None /\ runtime' = None
  /\ UNCHANGED <<disk, lockFiles, journal, archive, installer, cmd, counters>>

-----------------------------------------------------------------------------
\* installValidatedCandidate and rollbackValidatedRelease: a fresh transaction.
Begin(p, operation, candidate) ==
  /\ At(p, "idle") /\ transactions < MaxTransactions
  /\ transactions' = transactions + 1
  /\ cmd' = [cmd EXCEPT ![p] =
       [pc |-> "lease", operation |-> operation, candidate |-> candidate,
        memory |-> [NoJournal EXCEPT !.txid = transactions + 1, !.operation = operation,
                                     !.phase = "maintenance-staged", !.candidate = candidate]]]
  /\ UNCHANGED <<disk, lockFiles, journal, archive, leases, faults>>

BeginInstall(p) == \E r \in staging \ thawed : Begin(p, "install", r)
BeginRollback(p) == At(p, "idle") /\ Begin(p, "rollback", None)

\* parseTransactionJournal: a desired state is never the legacy directory.
Parses(record) == record.desired.current # Legacy

\* recoverReleaseTransaction reads and parses the journal before any lease.
BeginRecovery(p) ==
  /\ At(p, "idle") /\ journal # NoJournal /\ Parses(journal)
  /\ cmd' = [cmd EXCEPT ![p] = [pc |-> "lease", operation |-> "recover",
                                candidate |-> journal.candidate, memory |-> journal]]
  /\ UNCHANGED <<disk, lockFiles, journal, archive, leases, counters>>

\* A command that fails releases its leases, as one that is done: the
\* installer's first.  What it leaves on disk stays.
Fails(p) == Goto(p, "release") /\ UNCHANGED <<disk, lockFiles, journal, archive, leases, counters>>

TakeInstaller(p) ==
  /\ At(p, "lease")
  /\ IF installer = None
       THEN /\ installer' = p
            /\ Goto(p, "stage")
            /\ UNCHANGED <<disk, lockFiles, journal, archive, live, runtime, counters>>
       ELSE Fails(p)

\* The precheck decision is refused or never comes; a recovery asks for it
\* before it has a lease.
PrecheckRefused(p) ==
  At(p, IF cmd[p].operation = "recover" THEN "lease" ELSE "stage") /\ Fails(p)

\* The journal is not looked at again under the leases.
AnyJournal(p) == TRUE

\* What the journal on disk must be: none for a new transaction, the bytes
\* it has read for a recovery.
SameJournal(p) ==
  journal = IF cmd[p].operation = "recover" THEN cmd[p].memory ELSE NoJournal

\* acquireReleaseMaintenanceKernelLease: the live-operation gate, then the journal.
Stage(p) ==
  /\ At(p, "stage")
  /\ IF live = None /\ SameJournal(p)
       THEN /\ live' = p
            /\ Goto(p, IF cmd[p].operation = "recover" THEN "list-locks" ELSE "create")
            /\ UNCHANGED <<disk, lockFiles, journal, archive, installer, runtime, counters>>
       ELSE Fails(p)

\* createTransactionJournal, in the phase maintenance-staged.
CreateJournal(p) ==
  /\ At(p, "create")
  /\ journal' = cmd[p].memory
  /\ Goto(p, "list-locks")
  /\ UNCHANGED <<disk, lockFiles, archive, leases, counters>>

-----------------------------------------------------------------------------
\* migrateLegacyArtifactsForMaintenance: the old lock files are listed in a
\* journal of their own, then moved one by one, each recorded once it is moved.
ListLocks(p) ==
  /\ At(p, "list-locks")
  /\ migration' = IF migration.txid = cmd[p].memory.txid THEN migration
                    ELSE [txid |-> cmd[p].memory.txid, artifacts |-> locks, archived |-> {}]
  /\ Goto(p, "move-locks")
  /\ UNCHANGED <<disk, locks, movedLocks, journal, archive, leases, counters>>

Pending == migration.artifacts \ migration.archived

MoveLock(p) ==
  /\ At(p, "move-locks") /\ Pending # {} /\ Pending \subseteq locks
  /\ \E l \in Pending : locks' = locks \ {l} /\ movedLocks' = movedLocks \union {l}
  /\ Goto(p, "record-lock")
  /\ UNCHANGED <<disk, migration, journal, archive, leases, counters>>

RecordLock(p) ==
  /\ At(p, "record-lock")
  /\ migration' = [migration EXCEPT !.archived = @ \union (Pending \intersect movedLocks)]
  /\ Goto(p, "move-locks")
  /\ UNCHANGED <<disk, locks, movedLocks, journal, archive, leases, counters>>

\* A file that is in the archive and not in the record: RELEASE_LEGACY_MIGRATION_AMBIGUOUS.
LocksAmbiguous(p) == At(p, "move-locks") /\ ~(Pending \subseteq locks) /\ Fails(p)

LocksMigrated(p) ==
  /\ At(p, "move-locks") /\ Pending = {}
  /\ Goto(p, IF cmd[p].operation = "recover" THEN "recovery-decision" ELSE "inspect")
  /\ UNCHANGED <<disk, lockFiles, journal, archive, leases, counters>>

-----------------------------------------------------------------------------
\* updateTransactionJournal: the record replaces the one on disk at once.
Write(p, record, place) ==
  /\ journal' = record
  /\ Remember(p, place, record)
  /\ UNCHANGED <<disk, lockFiles, archive, leases, counters>>

Validated(pointer) == pointer \in Releases

\* The states before and after are recorded, then the operator is asked.
Inspect(p) ==
  LET m == cmd[p].memory IN
  /\ At(p, "inspect")
  /\ m.operation = "rollback" => Validated(bin) /\ Validated(binPrevious)
  /\ Write(p,
       [m EXCEPT !.phase = "awaiting-commit", !.before = Observed,
                 !.desired = IF m.operation = "rollback" THEN Pair(binPrevious, bin)
                             ELSE Pair(m.candidate, IF Validated(bin) THEN bin ELSE Absent)],
       "commit-decision")

NothingToRollBack(p) ==
  /\ At(p, "inspect") /\ cmd[p].memory.operation = "rollback"
  /\ ~(Validated(bin) /\ Validated(binPrevious))
  /\ Fails(p)

CommitAccepted(p) ==
  /\ At(p, "commit-decision")
  /\ Goto(p, "write")
  /\ UNCHANGED <<disk, lockFiles, journal, archive, leases, counters>>

CommitRefused(p) == At(p, "commit-decision") /\ Fails(p)

\* maybeTerminalAbortReleaseTransaction: no decision came, or stdin closed.
CommitTimesOut(p) ==
  /\ At(p, "commit-decision")
  /\ Observed = cmd[p].memory.before
  /\ Write(p, [cmd[p].memory EXCEPT !.phase = "terminal-abort"], "archive")

-----------------------------------------------------------------------------
\* The phase that follows.  The install of the release that is current already
\* changes no pointer.
SameRelease(m) ==
  /\ m.operation = "install"
  /\ Validated(m.before.current)
  /\ Manifest[m.before.current] = Manifest[m.candidate]

\* The previous pointer is forgotten.
NextPhaseForgetsPrevious(m) ==
  IF m.phase \in {"prepared", "legacy-migrated"} /\ m.before.current # Legacy
    THEN "current-switched"
    ELSE CASE m.phase = "awaiting-commit" ->
                IF SameRelease(m) THEN "current-switched"
                ELSE IF m.operation = "rollback" THEN "previous-prepared" ELSE "candidate-moving"
           [] m.phase = "candidate-moving" -> "prepared"
           [] m.phase = "prepared" -> "legacy-migrating"
           [] m.phase = "legacy-migrating" -> "legacy-migrated"
           [] m.phase = "legacy-migrated" -> "previous-prepared"
           [] m.phase = "previous-prepared" -> "current-switched"

NextPhase(m) ==
  CASE m.phase = "awaiting-commit" -> IF SameRelease(m) THEN "current-switched"
                                      ELSE IF m.operation = "rollback" THEN "previous-prepared"
                                      ELSE "candidate-moving"
    [] m.phase = "candidate-moving" -> "prepared"
    [] m.phase = "prepared" -> IF m.before.current = Legacy THEN "legacy-migrating"
                               ELSE "previous-prepared"
    [] m.phase = "legacy-migrating" -> "legacy-migrated"
    [] m.phase = "legacy-migrated" -> "previous-prepared"
    [] m.phase = "previous-prepared" -> "current-switched"

\* Each phase is durable before the change it announces.
WritePhase(p) ==
  LET m == cmd[p].memory IN
  /\ At(p, "write")
  /\ Write(p,
       [m EXCEPT !.phase = NextPhase(m), !.desired = IF SameRelease(m) THEN m.before ELSE @],
       CASE NextPhase(m) \in {"prepared", "legacy-migrated"} -> "write"
         [] SameRelease(m) -> "archive"
         [] OTHER -> NextPhase(m))

\* moveImmutableCandidate: writable for the rename, and sealed again.
ThawCandidate(p) ==
  /\ At(p, "candidate-moving")
  /\ thawed' = thawed \union {cmd[p].candidate}
  /\ Goto(p, "rename-candidate")
  /\ UNCHANGED <<bin, binPrevious, store, staging, legacyAt, lockFiles, journal, archive, leases, counters>>

RenameCandidate(p) ==
  /\ At(p, "rename-candidate")
  /\ staging' = staging \ {cmd[p].candidate} /\ store' = store \union {cmd[p].candidate}
  /\ Goto(p, "seal-candidate")
  /\ UNCHANGED <<bin, binPrevious, thawed, legacyAt, lockFiles, journal, archive, leases, counters>>

SealCandidate(p) ==
  /\ At(p, "seal-candidate")
  /\ thawed' = thawed \ {cmd[p].candidate}
  /\ Goto(p, "write")
  /\ UNCHANGED <<bin, binPrevious, store, staging, legacyAt, lockFiles, journal, archive, leases, counters>>

MoveLegacy(p) ==
  /\ At(p, "legacy-migrating")
  /\ bin' = Absent /\ legacyAt' = cmd[p].memory.txid
  /\ Goto(p, "write")
  /\ UNCHANGED <<binPrevious, store, staging, thawed, lockFiles, journal, archive, leases, counters>>

\* applyPointerState: a release must be in the store; a legacy state has no pointer.
Applies(pointer) == pointer = Absent \/ pointer \in store

SetPrevious(p, pointer, place) ==
  /\ binPrevious' = pointer
  /\ Goto(p, place)
  /\ UNCHANGED <<bin, store, staging, thawed, legacyAt, lockFiles, journal, archive, leases, counters>>

SetCurrent(p, pointer, place) ==
  /\ bin' = pointer
  /\ Goto(p, place)
  /\ UNCHANGED <<binPrevious, store, staging, thawed, legacyAt, lockFiles, journal, archive, leases, counters>>

PreparePrevious(p) ==
  /\ At(p, "previous-prepared")
  /\ Applies(cmd[p].memory.desired.previous)
  /\ SetPrevious(p, cmd[p].memory.desired.previous, "write")

SwitchCurrent(p) ==
  /\ At(p, "current-switched")
  /\ Applies(cmd[p].memory.desired.current)
  /\ SetCurrent(p, cmd[p].memory.desired.current, "archive")

-----------------------------------------------------------------------------
RecoveryRefused(p) == At(p, "recovery-decision") /\ Fails(p)

RecoveryAccepted(p) ==
  /\ At(p, "recovery-decision") /\ SameJournal(p)
  /\ Goto(p, IF cmd[p].memory.phase = "candidate-moving" THEN "stabilize" ELSE "adopt")
  /\ UNCHANGED <<disk, lockFiles, journal, archive, leases, counters>>

\* The candidate is left as the kill left it.
StabilizeUnsealed(p) ==
  LET r == cmd[p].candidate IN
  /\ At(p, "stabilize")
  /\ (r \in staging) # (r \in store)
  /\ Goto(p, "adopt")
  /\ UNCHANGED <<disk, lockFiles, journal, archive, leases, counters>>

\* stabilizeCandidateMoveState: the candidate, where it is, is sealed again.
Stabilize(p) ==
  LET r == cmd[p].candidate IN
  /\ At(p, "stabilize")
  /\ (r \in staging) # (r \in store)
  /\ thawed' = thawed \ {r}
  /\ Goto(p, "adopt")
  /\ UNCHANGED <<bin, binPrevious, store, staging, legacyAt, lockFiles, journal, archive, leases, counters>>

\* A phase explains only the pointers after its change.
LegalWhenDone(m, current, previous) ==
  LET moved == /\ m.before.current = Legacy
               /\ m.phase \in {"legacy-migrating", "legacy-migrated", "previous-prepared"}
      currentBefore == IF moved THEN Absent ELSE m.before.current
  IN CASE m.phase \in {"awaiting-commit", "candidate-moving", "prepared"} ->
            current = m.before.current /\ previous = m.before.previous
       [] m.phase \in {"legacy-migrating", "legacy-migrated"} ->
            current = Absent /\ previous = m.before.previous
       [] m.phase = "previous-prepared" ->
            current = currentBefore /\ previous = m.desired.previous
       [] m.phase = "current-switched" ->
            previous = m.desired.previous /\ current \in {currentBefore, m.desired.current}
       [] OTHER -> FALSE

\* assertPointerPhaseLegal: which pointers each phase explains.
Legal(m, current, previous) ==
  LET moved == /\ m.before.current = Legacy
               /\ m.phase \in {"legacy-migrating", "legacy-migrated", "previous-prepared"}
      currentBefore == IF moved THEN Absent ELSE m.before.current
  IN CASE m.phase \in {"awaiting-commit", "candidate-moving", "prepared"} ->
            current = m.before.current /\ previous = m.before.previous
       [] m.phase = "legacy-migrating" ->
            current \in {m.before.current, Absent} /\ previous = m.before.previous
       [] m.phase = "legacy-migrated" ->
            current = Absent /\ previous = m.before.previous
       [] m.phase = "previous-prepared" ->
            current = currentBefore /\ previous \in {m.before.previous, m.desired.previous}
       [] m.phase = "current-switched" ->
            previous = m.desired.previous /\ current \in {currentBefore, m.desired.current}
       [] OTHER -> FALSE

\* What recovery makes of the journal: a transaction that had not looked at the
\* pointers keeps what they are.
Adopted(m) ==
  IF m.phase = "maintenance-staged"
    THEN [m EXCEPT !.phase = "current-switched", !.before = Observed, !.desired = Observed]
    ELSE m

Adopt(p) ==
  LET m == Adopted(cmd[p].memory) IN
  /\ At(p, "adopt")
  /\ Legal(m, bin, binPrevious)
  /\ Write(p, [m EXCEPT !.claim = @ + 1],
           IF m.phase = "current-switched" THEN "forward-previous" ELSE "restore-current")

PointersAmbiguous(p) ==
  /\ At(p, "adopt") /\ ~Legal(Adopted(cmd[p].memory), bin, binPrevious) /\ Fails(p)

\* current-switched is finished, every earlier phase undone.
ForwardPrevious(p) ==
  /\ At(p, "forward-previous")
  /\ Applies(cmd[p].memory.desired.previous)
  /\ SetPrevious(p, cmd[p].memory.desired.previous, "forward-current")

ForwardCurrent(p) ==
  /\ At(p, "forward-current")
  /\ IF Applies(cmd[p].memory.desired.current)
       THEN SetCurrent(p, cmd[p].memory.desired.current, "archive")
       ELSE Fails(p)

RestoreCurrent(p) ==
  LET m == cmd[p].memory IN
  /\ At(p, "restore-current") /\ m.before.current # Legacy
  /\ Applies(m.before.current)
  /\ SetCurrent(p, m.before.current, "restore-previous")

\* restoreCurrentState of a legacy bin: it is there, or it is moved back.
RestoreLegacy(p) ==
  /\ At(p, "restore-current") /\ cmd[p].memory.before.current = Legacy
  /\ bin = Legacy \/ (bin = Absent /\ legacyAt = cmd[p].memory.txid)
  /\ bin' = Legacy /\ legacyAt' = 0
  /\ Goto(p, "restore-previous")
  /\ UNCHANGED <<binPrevious, store, staging, thawed, lockFiles, journal, archive, leases, counters>>

RestorePrevious(p) ==
  /\ At(p, "restore-previous")
  /\ Applies(cmd[p].memory.before.previous)
  /\ SetPrevious(p, cmd[p].memory.before.previous, "archive")

-----------------------------------------------------------------------------
\* archiveTransactionJournal: the journal on disk must be the one in memory.
Archive(p) ==
  /\ At(p, "archive")
  /\ journal = cmd[p].memory /\ journal.txid \notin archive
  /\ archive' = archive \union {journal.txid}
  /\ journal' = NoJournal
  /\ Goto(p, "release")
  /\ UNCHANGED <<disk, lockFiles, leases, counters>>

ReleaseInstaller(p) ==
  /\ At(p, "release")
  /\ installer' = IF installer = p THEN None ELSE installer
  /\ Goto(p, "release-live")
  /\ UNCHANGED <<disk, lockFiles, journal, archive, live, runtime, counters>>

ReleaseLive(p) ==
  /\ At(p, "release-live")
  /\ live' = IF live = p THEN None ELSE live
  /\ cmd' = [cmd EXCEPT ![p] = Idle]
  /\ UNCHANGED <<disk, lockFiles, journal, archive, installer, runtime, counters>>

\* The process is killed: the kernel frees what it had locked.
Killed(p) ==
  /\ ~At(p, "idle") /\ faults < MaxFaults
  /\ faults' = faults + 1
  /\ installer' = IF installer = p THEN None ELSE installer
  /\ live' = IF live = p THEN None ELSE live
  /\ cmd' = [cmd EXCEPT ![p] = Idle]
  /\ UNCHANGED <<disk, lockFiles, journal, archive, runtime, transactions>>

\* A step fails: the candidate is sealed again when it was being moved.
StepFails(p) ==
  /\ ~At(p, "idle") /\ ~At(p, "release") /\ ~At(p, "release-live") /\ faults < MaxFaults
  /\ faults' = faults + 1
  /\ thawed' = IF cmd[p].pc \in {"rename-candidate", "seal-candidate"}
                 THEN thawed \ {cmd[p].candidate} ELSE thawed
  /\ Goto(p, "release")
  /\ UNCHANGED <<bin, binPrevious, store, staging, legacyAt, lockFiles, journal, archive, leases, transactions>>

-----------------------------------------------------------------------------
Init ==
  /\ \E start \in Starts : bin = start.current /\ binPrevious = start.previous
  /\ store = {bin, binPrevious} \intersect Releases
  /\ staging = Releases \ store
  /\ thawed = {} /\ legacyAt = 0
  /\ locks \in SUBSET Locks /\ movedLocks = {} /\ migration = NoMigration
  /\ journal = NoJournal /\ archive = {}
  /\ installer = None /\ live = None /\ runtime = None
  /\ cmd = [p \in Commands |-> Idle]
  /\ transactions = 0 /\ faults = 0

Next ==
  \/ StartRuntime \/ StopRuntime
  \/ \E p \in Commands : BeginInstall(p)
  \/ \E p \in Commands : BeginRollback(p)
  \/ \E p \in Commands : BeginRecovery(p)
  \/ \E p \in Commands : TakeInstaller(p)
  \/ \E p \in Commands : PrecheckRefused(p)
  \/ \E p \in Commands : Stage(p)
  \/ \E p \in Commands : CreateJournal(p)
  \/ \E p \in Commands : ListLocks(p)
  \/ \E p \in Commands : MoveLock(p)
  \/ \E p \in Commands : RecordLock(p)
  \/ \E p \in Commands : LocksAmbiguous(p)
  \/ \E p \in Commands : LocksMigrated(p)
  \/ \E p \in Commands : Inspect(p)
  \/ \E p \in Commands : NothingToRollBack(p)
  \/ \E p \in Commands : CommitAccepted(p)
  \/ \E p \in Commands : CommitRefused(p)
  \/ \E p \in Commands : CommitTimesOut(p)
  \/ \E p \in Commands : WritePhase(p)
  \/ \E p \in Commands : ThawCandidate(p)
  \/ \E p \in Commands : RenameCandidate(p)
  \/ \E p \in Commands : SealCandidate(p)
  \/ \E p \in Commands : MoveLegacy(p)
  \/ \E p \in Commands : PreparePrevious(p)
  \/ \E p \in Commands : SwitchCurrent(p)
  \/ \E p \in Commands : RecoveryRefused(p)
  \/ \E p \in Commands : RecoveryAccepted(p)
  \/ \E p \in Commands : Stabilize(p)
  \/ \E p \in Commands : Adopt(p)
  \/ \E p \in Commands : PointersAmbiguous(p)
  \/ \E p \in Commands : ForwardPrevious(p)
  \/ \E p \in Commands : ForwardCurrent(p)
  \/ \E p \in Commands : RestoreCurrent(p)
  \/ \E p \in Commands : RestoreLegacy(p)
  \/ \E p \in Commands : RestorePrevious(p)
  \/ \E p \in Commands : Archive(p)
  \/ \E p \in Commands : ReleaseInstaller(p)
  \/ \E p \in Commands : ReleaseLive(p)
  \/ \E p \in Commands : Killed(p)
  \/ \E p \in Commands : StepFails(p)

Spec == Init /\ [][Next]_vars

-----------------------------------------------------------------------------
ReleaseTypeOK ==
  /\ bin \in Pointers /\ binPrevious \in Pointers \ {Legacy}
  /\ store \in SUBSET Releases /\ staging \in SUBSET Releases /\ thawed \in SUBSET Releases
  /\ legacyAt \in 0..MaxTransactions
  /\ locks \in SUBSET Locks /\ movedLocks \in SUBSET Locks
  /\ migration \in [txid : 0..MaxTransactions, artifacts : SUBSET Locks, archived : SUBSET Locks]
  /\ journal.txid \in 0..MaxTransactions
  /\ archive \in SUBSET (1..MaxTransactions)
  /\ installer \in Commands \union {None}
  /\ live \in Commands \union {None, "runtime"}
  /\ runtime \in Pointers \union {None}
  /\ transactions \in 0..MaxTransactions /\ faults \in 0..MaxFaults

\* The pair the installation amounts to: what the journal says until it is
\* archived, whatever the pointers are meanwhile.
InstalledPair ==
  CASE journal.phase = "current-switched" -> journal.desired
    [] journal.phase \in {"none", "maintenance-staged"} -> Observed
    [] OTHER -> journal.before

Switch == INSTANCE ReleaseSwitch WITH pair <- InstalledPair, running <- runtime

(* An installation is never half one release and half another: in spite of  *)
(* kills, failures and recoveries, the pair of pointers that counts changes *)
(* at once, from what it was to what an install or a rollback makes of it,  *)
(* and never under a running runtime.                                       *)
SwitchesAtOnce == Switch!Spec

(* A transaction that is archived is over: no command, whatever it read     *)
(* before it had its leases, puts its journal back.                         *)
ArchivedIsOver == journal.txid \notin archive

AtWork == \E p \in Commands : ~At(p, "idle")

\* Recovery would accept the journal and the files it finds.
Recoverable ==
  /\ Parses(journal)
  /\ migration.txid = journal.txid => Pending \subseteq locks
  /\ Legal(Adopted(journal), bin, binPrevious)
  /\ journal.phase = "candidate-moving" =>
       (journal.candidate \in staging) # (journal.candidate \in store)

\* The three defects in which it does not.  An abort that could not be archived.
AbortIsStuck == journal.phase = "terminal-abort"

\* A lock file moved and not recorded, by a kill or an error between the two.
LockIsHalfMoved == migration.txid = journal.txid /\ ~(Pending \subseteq locks)

\* A legacy bin that was put back, by a recovery that was cut off behind that;
\* one moved away whose switch is recorded and not done; and the record of a
\* recovery that takes it for the desired state.
LegacyIsUnclear(m, current) ==
  /\ m.before.current = Legacy
  /\ \/ m.phase \in {"legacy-migrated", "previous-prepared"} /\ current = Legacy
     \/ m.phase = "current-switched" /\ (current = Absent \/ m.desired.current = Legacy)

(* Whatever a killed or failed command leaves behind, in whatever phase, the *)
(* next recovery accepts it, except in three cases in which the code is known *)
(* to refuse: an abort that could not be archived, a lock file whose move is  *)
(* not recorded, and three moments of the move of a legacy bin.               *)
CrashIsRecoverable ==
  journal # NoJournal /\ ~AtWork =>
    Recoverable \/ AbortIsStuck \/ LockIsHalfMoved \/ LegacyIsUnclear(journal, bin)

(* The journal tells the next command neither too much nor too little: no     *)
(* record of a transaction that is over, and none that recovery refuses, but  *)
(* for the three cases above.                                                *)
JournalIsSound == ArchivedIsOver /\ CrashIsRecoverable

=============================================================================

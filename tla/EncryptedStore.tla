---------------------------- MODULE EncryptedStore ----------------------------
(***************************************************************************)
(* Transactions of the encrypted store (src/src/storage/encrypted-store.ts *)
(* and the leases of src/src/storage/kernel-lock.ts), each a call in some  *)
(* process: it takes the kernel lease of the whole store, which one call   *)
(* of any process can hold, polling while it is busy; it reads the ledger, *)
(* writes a new one beside it and renames it; it gives the lease back.     *)
(* Calls may come while an installer is still setting the locks up.  Every *)
(* call here appends itself to what it read.                               *)
(*                                                                         *)
(* Reads of the catalogue are one step: its files only ever appear, and    *)
(* the last read, the listing of the directory, excludes a file too many.  *)
(***************************************************************************)
EXTENDS KernelLockCatalog, Sequences

CONSTANTS
  Calls,            \* calls of runExclusiveTransaction
  Processes,
  ProcessOf,        \* the process of a call
  MaxPolls          \* bound: polls of a busy lease before its deadline

ASSUME StoreAssumption ==
  /\ Nobody \notin Calls
  /\ ProcessOf \in [Calls -> Processes]
  /\ MaxPolls \in Nat

VARIABLES
  ledger,           \* the file: the calls whose writes it holds, in order
  holder,           \* the call whose file handle has the flock of the gate
  call              \* of each call: where it is, what it read, its polls, its answer

storeVars == <<ledger, holder, call>>
vars == <<catalogVars, storeVars>>

InCall(c, where) == call[c].at = where
Goes(c, where) == call' = [call EXCEPT ![c].at = where]

StoreInit ==
  /\ ledger = <<>>
  /\ holder = Nobody
  /\ call = [c \in Calls |-> [at |-> "start", seen |-> <<>>, polls |-> 0, answer |-> "open"]]

Init == CatalogInit /\ StoreInit

Answer(c, a) == call' = [call EXCEPT ![c].at = "over", ![c].answer = a]

\* acquireKernelLease: the catalogue, then the gate, then the catalogue again.
ValidatesBefore(c) ==
  /\ InCall(c, "start")
  /\ IF Exact THEN Goes(c, "gate") ELSE Answer(c, "failed")
  /\ UNCHANGED <<catalogVars, ledger, holder>>

TakenAnyway(c) == TRUE                  \* the bug: a busy gate is no obstacle
GateFree(c) == holder = Nobody

LocksGate(c) ==
  /\ InCall(c, "gate") /\ GateFree(c)
  /\ holder' = c
  /\ Goes(c, "revalidate")
  /\ UNCHANGED <<catalogVars, ledger>>

\* KERNEL_LOCK_BUSY: again after a delay, until the deadline has passed.
FindsBusy(c) ==
  /\ InCall(c, "gate") /\ ~GateFree(c)
  /\ \/ /\ call[c].polls < MaxPolls
        /\ call' = [call EXCEPT ![c].at = "start", ![c].polls = @ + 1]
     \/ Answer(c, "failed")
  /\ UNCHANGED <<catalogVars, ledger, holder>>

\* A catalogue that changed since: the gate is closed, and with it its flock.
Revalidates(c) ==
  /\ InCall(c, "revalidate")
  /\ IF Exact THEN Goes(c, "read") /\ UNCHANGED holder
     ELSE Answer(c, "failed") /\ holder' = Nobody
  /\ UNCHANGED <<catalogVars, ledger>>

Reads(c) ==
  /\ InCall(c, "read")
  /\ call' = [call EXCEPT ![c].at = "temporary", ![c].seen = ledger]
  /\ UNCHANGED <<catalogVars, ledger, holder>>

\* write: a temporary file no reader sees, then the rename.
WritesFile(c) ==
  /\ InCall(c, "temporary")
  /\ Goes(c, "rename")
  /\ UNCHANGED <<catalogVars, ledger, holder>>

RenamesFile(c) ==
  /\ InCall(c, "rename")
  /\ ledger' = Append(call[c].seen, c)
  /\ Goes(c, "written")
  /\ UNCHANGED <<catalogVars, holder>>

\* The lease proves itself once more and is closed; then the caller hears.
Closing == {"written", "throwing"}

GivesUpLease(c) == holder' = IF holder = c THEN Nobody ELSE holder

Closes(c) ==
  /\ call[c].at \in Closing
  /\ GivesUpLease(c)
  /\ Answer(c, IF InCall(c, "written") THEN "done" ELSE "failed")
  /\ UNCHANGED <<catalogVars, ledger>>

Running(c) == call[c].at # "over"

\* Anything a call awaits may throw, its proofs of the lease and the rename's own
\* directory included; what it wrote stays, and the caller hears of a failure.
Throws(c) ==
  /\ Running(c) /\ ~InCall(c, "throwing") /\ faults < MaxFaults
  /\ faults' = faults + 1
  /\ IF holder = c THEN Goes(c, "throwing") ELSE Answer(c, "failed")
  /\ UNCHANGED <<tombstone, pair, catalog, temporary, bootstrap, inst, ledger, holder>>

\* A process is killed with all its calls: the kernel closes their gates.
ProcessKilled(p) ==
  LET dead == {c \in Calls : ProcessOf[c] = p /\ Running(c)}
  IN /\ faults < MaxFaults /\ dead # {}
     /\ faults' = faults + 1
     /\ call' = [c \in Calls |-> IF c \in dead
                   THEN [call[c] EXCEPT !.at = "over", !.answer = "killed"] ELSE call[c]]
     /\ holder' = IF holder \in dead THEN Nobody ELSE holder
     /\ UNCHANGED <<tombstone, pair, catalog, temporary, bootstrap, inst, ledger>>

CallStep(c) ==
  \/ ValidatesBefore(c) \/ LocksGate(c) \/ FindsBusy(c) \/ Revalidates(c)
  \/ Reads(c) \/ WritesFile(c) \/ RenamesFile(c) \/ Closes(c)

Next ==
  \/ \E c \in Calls : CallStep(c) \/ Throws(c)
  \/ \E p \in Processes : ProcessKilled(p)
  \/ \E i \in Installers : InstallerStep(i) /\ UNCHANGED storeVars

Fairness == \A c \in Calls : WF_vars(CallStep(c))

Spec == Init /\ [][Next]_vars /\ Fairness

-----------------------------------------------------------------------------
Position == {"start", "gate", "revalidate", "read", "temporary", "rename",
             "written", "throwing", "over"}

\* The types of the state.
StoreTypeOK ==
  /\ tombstone \in [OldLocks -> {"missing", "torn", "whole"}]
  /\ pair \in [Purposes -> {"none", "anchor", "linked"}]
  /\ catalog \subseteq {"manifest", "digest", "leftover"} /\ temporary \subseteq Installers
  /\ bootstrap \in Installers \union {Nobody}
  /\ faults \in 0 .. MaxFaults
  /\ ledger \in Seq(Calls)
  /\ holder \in Calls \union {Nobody}
  /\ call \in [Calls -> [at : Position, seen : Seq(Calls), polls : 0 .. MaxPolls,
                         answer : {"open", "done", "failed", "killed"}]]

\* A transaction is one step of the store (runExclusiveTransaction): no write is
\* lost to another's older read, none lands after its call has been answered or
\* killed, and a call told it is done has been written, across processes that are
\* killed at any point.  Every model of a ledger here takes its operations so.
answers == [c \in Calls |-> call[c].answer]
Atomic == INSTANCE AtomicStore WITH answer <- answers
ImplementsAtomicStore == Atomic!Spec

\* A catalogue that is exact stays so whatever installers come later
\* (initializeKernelLockCatalogForInstaller): no call that found it exact, and no
\* lease handed out under it, is ever refused for it.
CatalogIsForever == [][Exact => Exact']_vars

=============================================================================

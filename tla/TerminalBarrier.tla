--------------------------- MODULE TerminalBarrier ---------------------------
(***************************************************************************)
(* The three files that tell the next heartbeat how the last one ended:       *)
(* runtime-v2/operation-quarantine.ts, FileOperationQuarantineRepository.     *)
(*                                                                         *)
(* A cycle that closes first creates the barrier file, and clears it when     *)
(* everything it owned is released: a receipt "pending" is written, the        *)
(* barrier unlinked, and the receipt rewritten in place as "cleared".  A file  *)
(* that is created and not yet written, or truncated and not yet rewritten,    *)
(* does not decode ("torn").  The quarantine record is never removed.          *)
(*                                                                         *)
(* A step is one file operation.  A call may throw before any of them, which   *)
(* is also how a failed directory sync after the one before it shows, and the  *)
(* process may end between any two.  assertClear reads the files one by one.   *)
(***************************************************************************)
EXTENDS ScheduledCycles

VARIABLES
  barrier,      \* whose record the barrier file holds
  receipt,      \* the clear receipt
  quarantined,  \* the quarantine record exists
  call,         \* the begin or clear of the process that closes
  read,         \* the assertClear of the process that would begin
  unsettled,    \* observer: cycles whose barrier was durable and is not cleared
  seen          \* observer: nothing was unsettled at some instant of the read

barrierVars == <<barrier, receipt, quarantined, call, read, unsettled, seen>>

NoReceipt == [phase |-> "none", of |-> NoCycle]
NoCall    == [pc |-> "idle", of |-> NoCycle]

BeginSteps == {"retire", "create", "sync"}
ClearSteps == {"pend", "fill", "unlink", "truncate", "rewrite"}
CallSteps  == BeginSteps \cup ClearSteps \cup {"idle", "begun", "cleared", "failed"}
ReadSteps  == {"idle", "barrier", "quarantine", "receipt", "clear", "refused"}
CallRuns == call.pc \in BeginSteps \cup ClearSteps

Becomes(pc) == call' = [call EXCEPT !.pc = pc]
Phase(phase) == receipt' = [phase |-> phase, of |-> call.of]
(* Every step but the first of a read watches for an instant of the read.     *)
Watch == seen' = (seen \/ unsettled' = {})

-----------------------------------------------------------------------------
(* beginTerminalBarrier.                                                   *)

BeginTerminalBarrier(c) ==
  /\ ~CallRuns
  /\ call' = [pc |-> "retire", of |-> c]
  /\ UNCHANGED <<barrier, receipt, quarantined, read, unsettled>> /\ Watch

(* retireCompletedClearReceipt.                                            *)
Retire ==
  /\ call.pc = "retire"
  /\ \/ receipt.phase \in {"none", "cleared"} /\ receipt' = NoReceipt /\ Becomes("create")
     \/ receipt.phase \in {"pending", "torn"} /\ Becomes("failed") /\ UNCHANGED receipt
  /\ UNCHANGED <<barrier, quarantined, read, unsettled>> /\ Watch

(* The file is opened with "wx": one that exists is left alone.              *)
Create ==
  /\ call.pc = "create"
  /\ \/ barrier = NoCycle /\ barrier' = call.of /\ Becomes("sync")
     \/ barrier # NoCycle /\ Becomes("failed") /\ UNCHANGED barrier
  /\ UNCHANGED <<receipt, quarantined, read, unsettled>> /\ Watch

Begun ==
  /\ call.pc = "sync"
  /\ Becomes("begun")
  /\ unsettled' = unsettled \cup {call.of}
  /\ UNCHANGED <<barrier, receipt, quarantined, read>> /\ Watch

-----------------------------------------------------------------------------
(* clearTerminalBarrier.                                                   *)

ClearTerminalBarrier(c) ==
  /\ ~CallRuns
  /\ call' = [pc |-> "pend", of |-> c]
  /\ UNCHANGED <<barrier, receipt, quarantined, read, unsettled>> /\ Watch

(* What a receipt that is already there makes of the call.                   *)
Resumes ==
  CASE receipt.phase = "cleared" /\ receipt.of = call.of -> "cleared"
    [] receipt.phase = "pending" /\ receipt.of = call.of -> "unlink"
    [] OTHER -> "failed"

Pend ==
  /\ call.pc = "pend"
  /\ \/ receipt.phase # "none" /\ Becomes(Resumes) /\ UNCHANGED receipt
     \/ receipt.phase = "none" /\ barrier = call.of /\ Phase("torn") /\ Becomes("fill")
     \/ receipt.phase = "none" /\ barrier # call.of /\ Becomes("failed") /\ UNCHANGED receipt
  /\ UNCHANGED <<barrier, quarantined, read, unsettled>> /\ Watch

Fill ==
  /\ call.pc = "fill"
  /\ Phase("pending")
  /\ Becomes("unlink")
  /\ UNCHANGED <<barrier, quarantined, read, unsettled>> /\ Watch

(* Mutant: the receipt is left as it is until the barrier is gone.           *)
UnlinkFirst ==
  /\ call.pc = "unlink"
  /\ barrier' = NoCycle
  /\ receipt' = NoReceipt
  /\ Becomes("truncate")
  /\ UNCHANGED <<quarantined, read, unsettled>> /\ Watch

(* Only the file the receipt was written for is unlinked; one that is gone    *)
(* was unlinked by an earlier call.                                         *)
Unlink ==
  /\ call.pc = "unlink"
  /\ \/ barrier \in {call.of, NoCycle} /\ barrier' = NoCycle /\ Becomes("truncate")
     \/ barrier \notin {call.of, NoCycle} /\ Becomes("failed") /\ UNCHANGED barrier
  /\ UNCHANGED <<receipt, quarantined, read, unsettled>> /\ Watch

Truncate ==
  /\ call.pc = "truncate"
  /\ Phase("torn")
  /\ Becomes("rewrite")
  /\ UNCHANGED <<barrier, quarantined, read, unsettled>> /\ Watch

Rewrite ==
  /\ call.pc = "rewrite"
  /\ Phase("cleared")
  /\ Becomes("cleared")
  /\ unsettled' = unsettled \ {call.of}
  /\ UNCHANGED <<barrier, quarantined, read>> /\ Watch

-----------------------------------------------------------------------------
CallThrows ==
  /\ CallRuns
  /\ Becomes("failed")
  /\ UNCHANGED <<barrier, receipt, quarantined, read, unsettled>> /\ Watch

(* quarantine writes a temporary file and renames it.                       *)
Quarantine ==
  /\ quarantined' = TRUE
  /\ UNCHANGED <<barrier, receipt, call, read, unsettled>> /\ Watch

(* assertClear.                                                            *)
ReadBegins ==
  /\ read \in {"idle", "clear", "refused"}
  /\ read' = "barrier"
  /\ seen' = (unsettled = {})
  /\ UNCHANGED <<barrier, receipt, quarantined, call, unsettled>>

Reads(from, finding, to) ==
  /\ read = from
  /\ read' = IF finding THEN to ELSE "refused"

ReadNext ==
  /\ \/ Reads("barrier", barrier = NoCycle, "quarantine")
     \/ Reads("quarantine", ~quarantined, "receipt")
     \/ Reads("receipt", receipt.phase \in {"none", "cleared"}, "clear")
  /\ UNCHANGED <<barrier, receipt, quarantined, call, unsettled>> /\ Watch

(* The process that closes, and the one that reads, may end at any time; the   *)
(* files stay as they are.                                                  *)
ProcessEnds ==
  /\ call' = NoCall
  /\ read' = "idle"
  /\ UNCHANGED <<barrier, receipt, quarantined, unsettled>> /\ Watch

-----------------------------------------------------------------------------
BarrierInit ==
  /\ barrier = NoCycle
  /\ receipt = NoReceipt
  /\ quarantined = FALSE
  /\ call = NoCall
  /\ read = "idle"
  /\ unsettled = {}
  /\ seen = TRUE

CallStep == Retire \/ Create \/ Begun \/ Pend \/ Fill \/ Unlink \/ Truncate \/ Rewrite

BarrierNext ==
  \/ \E c \in Cycles : BeginTerminalBarrier(c) \/ ClearTerminalBarrier(c)
  \/ CallStep \/ CallThrows \/ Quarantine \/ ReadBegins \/ ReadNext \/ ProcessEnds

BarrierSpec == BarrierInit /\ [][BarrierNext]_barrierVars

-----------------------------------------------------------------------------
BarrierTypeOK ==
  /\ barrier \in Cycles \cup {NoCycle}
  /\ receipt \in [phase : {"pending", "torn", "cleared"}, of : Cycles] \cup {NoReceipt}
  /\ quarantined \in BOOLEAN
  /\ call \in [pc : CallSteps, of : Cycles] \cup {NoCall}
  /\ read \in ReadSteps
  /\ unsettled \subseteq Cycles
  /\ seen \in BOOLEAN

(* assertClear reads three files that change under it.  When it passes, there *)
(* was an instant since it began at which every cycle whose barrier had been   *)
(* durable was cleared: it never slips between the unlinked barrier and the    *)
(* rewritten receipt, in whatever order calls fail, are repeated and crash.   *)
PassWasClear == read = "clear" => seen

(* At every instant a cycle that is not settled is in the files: nothing but   *)
(* its own clear takes it out of them.                                      *)
UnsettledIsOnDisk ==
  \A c \in unsettled :
    barrier = c \/ (receipt.of = c /\ receipt.phase \in {"pending", "torn"})

=============================================================================

--------------------------- MODULE FixedHeartbeat ---------------------------
(***************************************************************************)
(* The heartbeat supervisor, mcp/fixed-heartbeat-supervisor.ts, over the      *)
(* scheduler's record and the terminal barrier.                             *)
(*                                                                         *)
(* A begin-scheduled-tick makes a decision: the files are read, realtime       *)
(* replies recovered, the lane selected, the tick claimed, the runtime of the  *)
(* lane made.  A decision that misses the deadline goes on behind the          *)
(* supervisor's back and is settled when it comes.  One that comes in time is   *)
(* admitted by the dispatcher and becomes the active cycle: commands run one    *)
(* after the other until the client, the shutdown or the timer closes it.       *)
(*                                                                         *)
(* A step is what runs between two awaits that leave the process.  Calls to     *)
(* the disk, the scheduler and the runtimes may throw, before or after they     *)
(* had their effect (faults); commands may fail or hang.                      *)
(***************************************************************************)
EXTENDS SingleScheduler, TerminalBarrier

CONSTANTS
  MaxLate,      \* bound: decisions that are late at the same time
  MaxFaults,    \* bound: calls that throw for no reason of the model
  MaxCrashes    \* bound: ends of the process without a shutdown

ASSUME SupervisorAssumption == MaxLate \in Nat /\ MaxFaults \in Nat /\ MaxCrashes \in Nat

VARIABLES
  stage,          \* per cycle, where its decision or its settlement is
  attempt,        \* inFlightDecision: the cycle of the tick under way
  runtime,        \* per cycle, the runtime made for it
  tracker,        \* lateDecisionCleanup: the decision it waits for
  cleanupFailed,  \* lateDecisionCleanupError is set
  gate,           \* the cycle that holds the dispatcher session
  active,         \* the active cycle
  cycle,          \* ... and its record
  orphans,        \* cycles with an operation given up at the deadline that still runs
  shutdown,
  faults, crashes

decisionVars == <<stage, attempt, runtime, tracker, cleanupFailed>>
cycleVars    == <<active, cycle, orphans>>
vars == <<schedulerVars, barrierVars, decisionVars, gate, cycleVars, shutdown, faults, crashes>>

DecisionStages == {"clear", "recover", "select", "claim", "make", "unmade"}
AdmissionStages == {"acquire", "undo", "undoComplete", "initial"}
SettlementStages == {"close", "complete", "completeAnyway", "record"}
ClosePcs == {"none", "barrier", "drain", "abort", "close", "quarantine", "complete",
             "quarantineOutcome", "release", "quarantineRelease", "clear", "stuck"}
Commands == {"prepare", "consume", "plain"}

NoRecord == [busy |-> "no", draft |-> FALSE, failed |-> FALSE, expired |-> FALSE,
             kind |-> "none", pc |-> "none", success |-> FALSE, threw |-> FALSE]

UnderWay(d) == stage[d] \notin {"unused", "over"}
Late(d)     == UnderWay(d) /\ d # attempt
Busy        == cycle.busy # "no"
Stage(d, s) == stage' = [stage EXCEPT ![d] = s]
Proceeds(pc) == cycle' = [cycle EXCEPT !.pc = pc]

(* What may throw here does.                                               *)
Throws == faults < MaxFaults /\ faults' = faults + 1
Works  == UNCHANGED faults

(* The attempt rejects or its settlement ends, or both.  An identity that was   *)
(* claimed is never used again.                                             *)
Ends(d) ==
  /\ Stage(d, IF claim'[d] = Unclaimed THEN "unused" ELSE "over")
  /\ attempt' = IF attempt = d THEN NoCycle ELSE attempt
  /\ tracker' = IF tracker = d THEN NoCycle ELSE tracker
Goes(d, s) == Stage(d, s) /\ UNCHANGED <<attempt, tracker>>

(* A completion and a quarantine record may also throw when they are saved.     *)
Completes(d, success)        == Complete(d, success) /\ Works
CompletionThrows(d, success) == Throws /\ (Complete(d, success) \/ UNCHANGED schedulerVars)
Quarantines       == Quarantine /\ Works
QuarantineThrows  == Throws /\ (Quarantine \/ UNCHANGED barrierVars)

(* closeRuntimeAndDispatcher: each is closed whatever the other does.           *)
Released(d) ==
  /\ Works
  /\ runtime' = [runtime EXCEPT ![d] = "closed"]
  /\ gate' = IF gate = d THEN NoCycle ELSE gate
ReleaseThrows(d) ==
  /\ Throws
  /\ \/ runtime' = [runtime EXCEPT ![d] = "unproven"]
        /\ gate' = IF gate = d THEN NoCycle ELSE gate
     \/ gate = d /\ runtime' = [runtime EXCEPT ![d] = "closed"] /\ UNCHANGED gate

-----------------------------------------------------------------------------
(* The decision.                                                           *)

BeginScheduledTick(c) ==
  /\ active = NoCycle /\ attempt = NoCycle
  /\ stage[c] = "unused" /\ \A d \in Cycles : stage[d] = "unused" => c <= d
  /\ ReadBegins
  /\ Stage(c, "clear")
  /\ attempt' = c
  /\ UNCHANGED <<schedulerVars, runtime, tracker, cleanupFailed, gate, cycleVars, shutdown,
                 faults, crashes>>

(* Realtime replies are not recovered any more once a shutdown is requested.    *)
AssertClear(d) ==
  /\ stage[d] = "clear"
  /\ ReadNext
  /\ UNCHANGED schedulerVars
  /\ CASE read' = "clear"   -> Goes(d, IF shutdown = "no" THEN "recover" ELSE "select")
       [] read' = "refused" -> Ends(d)
       [] OTHER             -> Goes(d, "clear")
  /\ UNCHANGED <<runtime, cleanupFailed, gate, cycleVars, shutdown, faults, crashes>>

RecoverRealtimePending(d) ==
  /\ stage[d] = "recover"
  /\ UNCHANGED schedulerVars
  /\ \/ Works /\ Goes(d, "select")
     \/ Throws /\ Ends(d)
  /\ UNCHANGED <<barrierVars, runtime, cleanupFailed, gate, cycleVars, shutdown, crashes>>

(* Mutant: a decision that is late does not stand in the way of the next.       *)
MayDecideLate == shutdown = "no" /\ ~cleanupFailed

MayDecide == shutdown = "no" /\ tracker = NoCycle /\ ~cleanupFailed

(* Outside of every window there is nothing to decide.                       *)
SelectScheduledLane(d) ==
  /\ stage[d] = "select"
  /\ UNCHANGED schedulerVars
  /\ \/ MayDecide /\ Goes(d, "claim")
     \/ Ends(d)
  /\ UNCHANGED <<barrierVars, runtime, cleanupFailed, gate, cycleVars, shutdown, faults,
                 crashes>>

(* The lane is inspected again; the claim is refused, made, or made and throws.  *)
ClaimTick(d) ==
  /\ stage[d] = "claim"
  /\ \/ UNCHANGED schedulerVars /\ Works /\ Ends(d)
     \/ \E lane \in Lanes : Claim(d, lane) /\ ((Works /\ Goes(d, "make")) \/ (Throws /\ Ends(d)))
  /\ UNCHANGED <<barrierVars, runtime, cleanupFailed, gate, cycleVars, shutdown, crashes>>

(* Nobody uses the runtime of a decision that is late or comes at a shutdown.    *)
MakeRuntime(d) ==
  /\ stage[d] = "make"
  /\ \/ /\ Works
        /\ runtime' = [runtime EXCEPT ![d] = "open"]
        /\ Goes(d, IF Late(d) \/ shutdown # "no" THEN "close" ELSE "acquire")
     \/ Throws /\ Goes(d, "unmade") /\ UNCHANGED runtime
  /\ UNCHANGED <<schedulerVars, barrierVars, cleanupFailed, gate, cycleVars, shutdown, crashes>>

Unmade(d) ==
  /\ stage[d] = "unmade"
  /\ Completes(d, FALSE) \/ CompletionThrows(d, FALSE)
  /\ Ends(d)
  /\ UNCHANGED <<barrierVars, runtime, cleanupFailed, gate, cycleVars, shutdown, crashes>>

(* trackLateDecisionCleanup; there is one tracker, the last decision has it.     *)
DecisionDeadline(d) ==
  /\ attempt = d /\ stage[d] \in DecisionStages \ {"clear"}
  /\ Cardinality({e \in Cycles : Late(e)}) < MaxLate
  /\ attempt' = NoCycle
  /\ tracker' = d
  /\ UNCHANGED <<schedulerVars, barrierVars, stage, runtime, cleanupFailed, gate, cycleVars,
                 shutdown, faults, crashes>>

-----------------------------------------------------------------------------
(* acquireRuntime and what follows it.                                       *)

Acquire(d) ==
  /\ stage[d] = "acquire" /\ gate = NoCycle
  /\ gate' = d
  /\ IF shutdown = "no"
     THEN /\ active' = d
          /\ cycle' = [NoRecord EXCEPT !.busy = "initial"]
          /\ Stage(d, "initial")
     ELSE Stage(d, "close") /\ UNCHANGED <<active, cycle>>
  /\ UNCHANGED <<schedulerVars, barrierVars, attempt, runtime, tracker, cleanupFailed, orphans,
                 shutdown, faults, crashes>>

(* The dispatcher refuses, or the deadline cancels the request; a session that   *)
(* comes later is closed.                                                   *)
AcquireFails(d) ==
  /\ stage[d] = "acquire"
  /\ Stage(d, "undo")
  /\ UNCHANGED <<schedulerVars, barrierVars, attempt, runtime, tracker, cleanupFailed, gate,
                 cycleVars, shutdown, faults, crashes>>

(* The close of the runtime may fail, and nobody hears of it.                   *)
Undo(d) ==
  /\ stage[d] = "undo"
  /\ \/ Works /\ runtime' = [runtime EXCEPT ![d] = "closed"]
     \/ Throws /\ runtime' = [runtime EXCEPT ![d] = "unnoticed"]
  /\ Stage(d, "undoComplete")
  /\ UNCHANGED <<schedulerVars, barrierVars, attempt, tracker, cleanupFailed, gate, cycleVars,
                 shutdown, crashes>>

UndoComplete(d) ==
  /\ stage[d] = "undoComplete"
  /\ Completes(d, FALSE) \/ CompletionThrows(d, FALSE)
  /\ Ends(d)
  /\ UNCHANGED <<barrierVars, runtime, cleanupFailed, gate, cycleVars, shutdown, crashes>>

-----------------------------------------------------------------------------
(* settleLateDecision.                                                     *)

SettleClose(d) ==
  /\ stage[d] = "close"
  /\ \/ Released(d) /\ Stage(d, "complete")
     \/ ReleaseThrows(d) /\ Stage(d, "completeAnyway")
  /\ UNCHANGED <<schedulerVars, barrierVars, attempt, tracker, cleanupFailed, cycleVars,
                 shutdown, crashes>>

SettleComplete(d) ==
  /\ stage[d] \in {"complete", "completeAnyway"}
  /\ \/ Completes(d, FALSE) /\ (IF stage[d] = "complete" THEN Ends(d) ELSE Goes(d, "record"))
     \/ CompletionThrows(d, FALSE) /\ Goes(d, "record")
  /\ UNCHANGED <<barrierVars, runtime, cleanupFailed, gate, cycleVars, shutdown, crashes>>

SettleRecord(d) ==
  /\ stage[d] = "record"
  /\ UNCHANGED schedulerVars
  /\ Quarantines \/ QuarantineThrows
  /\ cleanupFailed' = TRUE
  /\ Ends(d)
  /\ UNCHANGED <<runtime, gate, cycleVars, shutdown, crashes>>

-----------------------------------------------------------------------------
(* The commands of the active cycle, the initial one included.                 *)

Command(kind) ==
  /\ active # NoCycle /\ attempt = NoCycle /\ ~Busy
  /\ cycle.pc = "none" /\ ~cycle.expired
  /\ cycle' = [cycle EXCEPT !.busy = kind]
  /\ UNCHANGED <<schedulerVars, barrierVars, decisionVars, gate, active, orphans, shutdown,
                 faults, crashes>>

(* What the end of a command does to a tick whose initial command it was.       *)
Returns ==
  IF cycle.busy = "initial"
  THEN attempt' = NoCycle /\ Stage(active, "over")
  ELSE UNCHANGED <<attempt, stage>>

CommandEnds ==
  /\ Busy
  /\ \/ cycle' = [cycle EXCEPT !.busy = "no",
                                !.draft = CASE cycle.busy = "prepare" -> TRUE
                                            [] cycle.busy = "consume" -> FALSE
                                            [] OTHER -> @]
     \/ cycle' = [cycle EXCEPT !.busy = "no", !.failed = TRUE]
  /\ Returns
  /\ UNCHANGED <<schedulerVars, barrierVars, runtime, tracker, cleanupFailed, gate, active,
                 orphans, shutdown, faults, crashes>>

OrphanEnds(c) ==
  /\ c \in orphans
  /\ orphans' = orphans \ {c}
  /\ UNCHANGED <<schedulerVars, barrierVars, decisionVars, gate, active, cycle, shutdown, faults,
                 crashes>>

-----------------------------------------------------------------------------
(* gracefulClose and forceClose.                                             *)

CloseBegins(kind, record) ==
  /\ BeginTerminalBarrier(active)
  /\ cycle' = [record EXCEPT !.pc = "barrier", !.kind = kind]

Close ==
  /\ active # NoCycle /\ cycle.pc = "none"
  /\ CloseBegins("graceful", cycle)
  /\ UNCHANGED <<schedulerVars, decisionVars, gate, active, orphans, shutdown, faults, crashes>>

(* The operations that are raced against the deadline: a command, the drain, and  *)
(* those of the session that is being closed.                                 *)
GivenUp == Busy \/ cycle.pc \in {"abort", "close"}

(* Mutant: the timer is set when the initial command has ended.                 *)
ArmedLate == active # NoCycle /\ ~cycle.expired /\ cycle.busy # "initial"

Armed == active # NoCycle /\ ~cycle.expired

(* The timer of the cycle.                                                  *)
Expire ==
  /\ Armed
  /\ LET late == [cycle EXCEPT !.expired = TRUE, !.busy = "no", !.failed = @ \/ Busy]
     IN \/ cycle.pc = "none" /\ CloseBegins("force", late)
        \/ /\ cycle.pc \in {"drain", "abort", "close"}
           /\ cycle' = [late EXCEPT !.pc = "quarantine", !.threw = TRUE]
           /\ UNCHANGED barrierVars
        \/ /\ cycle.pc \notin {"none", "drain", "abort", "close"}
           /\ cycle' = late
           /\ UNCHANGED barrierVars
  /\ orphans' = IF GivenUp THEN orphans \cup {active} ELSE orphans
  /\ Returns
  /\ UNCHANGED <<schedulerVars, runtime, tracker, cleanupFailed, gate, active, shutdown, faults,
                 crashes>>

FileStep ==
  /\ (CallStep /\ Works) \/ (CallThrows /\ Throws)
  /\ UNCHANGED <<schedulerVars, decisionVars, gate, cycleVars, shutdown, crashes>>

(* Mutant: a close that fails is waited for again.                            *)
ShutdownWaits(fails) == UNCHANGED shutdown

(* The shutdown awaits the close of the active cycle and fails with it.          *)
ShutdownFollows(fails) ==
  shutdown' = IF shutdown = "running" /\ fails THEN "failed" ELSE shutdown

(* The intent is taken back: the cycle is active as before.                     *)
BarrierFails ==
  /\ cycle.pc = "barrier" /\ call.pc = "failed"
  /\ cycle' = [cycle EXCEPT !.pc = "none", !.kind = "none"]
  /\ ShutdownFollows(TRUE)
  /\ UNCHANGED <<schedulerVars, barrierVars, decisionVars, gate, active, orphans, faults, crashes>>

(* The abort of the draft, which only the passive lane has, and the close of the  *)
(* session wait for the command under way, and are left out after the deadline.  *)
SessionStep ==
  IF cycle.expired THEN "quarantine"
  ELSE IF cycle.draft /\ claim[active].lane = "p1" THEN "abort" ELSE "close"

BarrierDurable == call.pc = "begun"

BarrierStands ==
  /\ cycle.pc = "barrier" /\ BarrierDurable
  /\ Proceeds(IF cycle.kind = "force" THEN "quarantine"
              ELSE IF Busy THEN "drain" ELSE SessionStep)
  /\ UNCHANGED <<schedulerVars, barrierVars, decisionVars, gate, active, orphans, shutdown, faults,
                 crashes>>

Drained ==
  /\ cycle.pc = "drain" /\ ~Busy
  /\ Proceeds(SessionStep)
  /\ UNCHANGED <<schedulerVars, barrierVars, decisionVars, gate, active, orphans, shutdown, faults,
                 crashes>>

CloseSession ==
  /\ \/ /\ cycle.pc = "abort" /\ Works
        /\ cycle' = [cycle EXCEPT !.pc = "close", !.draft = FALSE]
     \/ /\ cycle.pc = "close" /\ Works
        /\ cycle' = [cycle EXCEPT !.pc = "complete", !.success = ~cycle.failed]
     \/ /\ cycle.pc \in {"abort", "close"} /\ Throws
        /\ cycle' = [cycle EXCEPT !.pc = "quarantine", !.threw = TRUE]
  /\ UNCHANGED <<schedulerVars, barrierVars, decisionVars, gate, active, orphans, shutdown, crashes>>

FinishCycle(fails) ==
  /\ active' = NoCycle
  /\ cycle' = NoRecord
  /\ ShutdownFollows(fails)

Continues(pc) == Proceeds(pc) /\ UNCHANGED <<active, shutdown>>

(* A quarantine record that cannot be written ends a forced close, and leaves a   *)
(* graceful one where it is: the promise of the close is rejected for good.       *)
QuarantineCycle ==
  /\ \/ /\ Quarantines
        /\ \/ cycle.pc = "quarantine" /\ Continues("complete")
           \/ cycle.pc = "quarantineOutcome" /\ Continues("release")
           \/ cycle.pc = "quarantineRelease" /\ FinishCycle(TRUE)
     \/ /\ cycle.pc \in {"quarantine", "quarantineOutcome", "quarantineRelease"}
        /\ QuarantineThrows
        /\ IF cycle.kind = "force" THEN FinishCycle(TRUE)
           ELSE Proceeds("stuck") /\ ShutdownFollows(TRUE) /\ UNCHANGED active
  /\ UNCHANGED <<schedulerVars, decisionVars, gate, orphans, crashes>>

CompleteCycle ==
  /\ cycle.pc = "complete"
  /\ \/ Completes(active, cycle.success) /\ Proceeds("release")
     \/ CompletionThrows(active, cycle.success)
        /\ cycle' = [cycle EXCEPT !.pc = "quarantineOutcome", !.threw = TRUE]
  /\ UNCHANGED <<barrierVars, decisionVars, gate, active, orphans, shutdown, crashes>>

Clears == cycle.kind = "graceful" /\ cycle.success /\ ~cycle.threw

ReleaseOwner ==
  /\ cycle.pc = "release"
  /\ \/ /\ Released(active)
        /\ IF Clears THEN ClearTerminalBarrier(active) /\ Continues("clear")
           ELSE UNCHANGED barrierVars /\ FinishCycle(cycle.threw)
     \/ /\ ReleaseThrows(active)
        /\ UNCHANGED barrierVars
        /\ IF cycle.kind = "force" THEN FinishCycle(TRUE) ELSE Continues("quarantineRelease")
  /\ UNCHANGED <<schedulerVars, stage, attempt, tracker, cleanupFailed, orphans, crashes>>

ClearEnds ==
  /\ cycle.pc = "clear" /\ call.pc \in {"cleared", "failed"}
  /\ FinishCycle(call.pc = "failed")
  /\ UNCHANGED <<schedulerVars, barrierVars, decisionVars, gate, orphans, faults, crashes>>

-----------------------------------------------------------------------------
(* shutdown closes the active cycle, waits for the tick under way and for the    *)
(* tracked decision.                                                       *)

RequestShutdown ==
  /\ shutdown = "no"
  /\ shutdown' = "running"
  /\ IF active # NoCycle /\ cycle.pc = "none" THEN CloseBegins("graceful", cycle)
     ELSE UNCHANGED <<barrierVars, cycle>>
  /\ UNCHANGED <<schedulerVars, decisionVars, gate, active, orphans, faults, crashes>>

(* Mutant: decisions that are late are not waited for.                          *)
ShutdownEndsEarly ==
  /\ shutdown = "running"
  /\ \/ cycle.pc = "stuck" /\ shutdown' = "failed"
     \/ active = NoCycle /\ attempt = NoCycle
        /\ shutdown' = IF cleanupFailed THEN "failed" ELSE "done"
  /\ UNCHANGED <<schedulerVars, barrierVars, decisionVars, gate, cycleVars, faults, crashes>>

ShutdownEnds ==
  /\ shutdown = "running"
  /\ \/ cycle.pc = "stuck" /\ shutdown' = "failed"
     \/ active = NoCycle /\ attempt = NoCycle /\ tracker = NoCycle
        /\ shutdown' = IF cleanupFailed THEN "failed" ELSE "done"
  /\ UNCHANGED <<schedulerVars, barrierVars, decisionVars, gate, cycleVars, faults, crashes>>

(* The process ends, after its shutdown or by a crash, and the next one starts.  *)
Restart ==
  /\ \/ shutdown \in {"done", "failed"} /\ UNCHANGED crashes
     \/ crashes < MaxCrashes /\ crashes' = crashes + 1
  /\ ProcessEnds
  /\ stage' = [c \in Cycles |-> IF claim[c] = Unclaimed THEN "unused" ELSE "over"]
  /\ runtime' = [c \in Cycles |-> IF runtime[c] = "none" THEN "none" ELSE "closed"]
  /\ attempt' = NoCycle /\ tracker' = NoCycle /\ cleanupFailed' = FALSE
  /\ gate' = NoCycle /\ active' = NoCycle /\ cycle' = NoRecord
  /\ orphans' = {}
  /\ shutdown' = "no"
  /\ UNCHANGED <<schedulerVars, faults>>

(* A cycle is over before the bucket after the next begins, and a claim is made   *)
(* in the bucket whose clock its decision has read.                           *)
BucketPasses ==
  /\ TimePasses
  /\ \A d \in Cycles : stage[d] # "claim"
  /\ active # NoCycle => claim[active].at = now
  /\ UNCHANGED <<barrierVars, decisionVars, gate, cycleVars, shutdown, faults, crashes>>

-----------------------------------------------------------------------------
Init ==
  /\ SchedulerInit /\ BarrierInit
  /\ stage = [c \in Cycles |-> "unused"]
  /\ runtime = [c \in Cycles |-> "none"]
  /\ attempt = NoCycle /\ tracker = NoCycle /\ cleanupFailed = FALSE
  /\ gate = NoCycle /\ active = NoCycle /\ cycle = NoRecord
  /\ orphans = {}
  /\ shutdown = "no"
  /\ faults = 0 /\ crashes = 0

DecisionStep(d) ==
  \/ AssertClear(d) \/ RecoverRealtimePending(d) \/ SelectScheduledLane(d) \/ ClaimTick(d)
  \/ MakeRuntime(d) \/ Unmade(d) \/ Acquire(d) \/ AcquireFails(d) \/ Undo(d) \/ UndoComplete(d)
  \/ SettleClose(d) \/ SettleComplete(d) \/ SettleRecord(d)

CloseStep ==
  \/ FileStep \/ BarrierFails \/ BarrierStands \/ Drained \/ CloseSession \/ QuarantineCycle
  \/ CompleteCycle \/ ReleaseOwner \/ ClearEnds

Next ==
  \/ \E c \in Cycles : BeginScheduledTick(c) \/ DecisionStep(c) \/ DecisionDeadline(c)
                       \/ OrphanEnds(c)
  \/ \E kind \in Commands : Command(kind)
  \/ CommandEnds \/ Close \/ Expire \/ CloseStep
  \/ RequestShutdown \/ ShutdownEnds \/ Restart \/ BucketPasses

(* What the process has begun goes on, calls end with a result or an error, the   *)
(* timer fires; a command may hang, and nobody has to call anything.               *)
Fairness ==
  /\ \A c \in Cycles : WF_vars(DecisionStep(c))
  /\ WF_vars(CloseStep) /\ WF_vars(Expire) /\ WF_vars(ShutdownEnds)

Spec == Init /\ [][Next]_vars
FairSpec == Spec /\ Fairness

-----------------------------------------------------------------------------
HeartbeatTypeOK ==
  /\ SchedulerTypeOK /\ BarrierTypeOK
  /\ stage \in [Cycles -> {"unused", "over"} \cup DecisionStages \cup AdmissionStages
                          \cup SettlementStages]
  /\ runtime \in [Cycles -> {"none", "open", "closed", "unproven", "unnoticed"}]
  /\ {attempt, tracker, gate, active} \subseteq Cycles \cup {NoCycle}
  /\ cleanupFailed \in BOOLEAN
  /\ cycle \in [busy : Commands \cup {"no", "initial"}, draft : BOOLEAN, failed : BOOLEAN,
                expired : BOOLEAN, kind : {"none", "graceful", "force"}, pc : ClosePcs,
                success : BOOLEAN, threw : BOOLEAN]
  /\ orphans \subseteq Cycles
  /\ shutdown \in {"no", "running", "done", "failed"}
  /\ faults \in 0 .. MaxFaults /\ crashes \in 0 .. MaxCrashes

FilesClear == barrier = NoCycle /\ ~quarantined /\ receipt.phase \in {"none", "cleared"}

(* The runtime of a tick the dispatcher refused, whose close threw: the error is      *)
(* swallowed (line 305), so it may be open until the process ends, and nobody knows. *)
(* Nothing was ever run in it.                                               *)
Unnoticed(d) == runtime[d] = "unnoticed" /\ stage[d] = "over"

(* When a tick is claimed every runtime made before is closed, no operation given up   *)
(* at a deadline still runs, and the dispatcher session is free, with one exception:  *)
(* the runtime of a refused tick whose close threw (Unnoticed), beside which the next *)
(* tick is claimed.                                                         *)
BeginsClean ==
  [][\A c \in Cycles : claim'[c] # claim[c] =>
       /\ \A d \in Cycles : runtime[d] \in {"none", "closed"} \/ Unnoticed(d)
       /\ orphans = {} /\ gate = NoCycle]_vars

(* A runtime that is open has somebody who will close it, or is in the files, so    *)
(* that no cycle begins before a person has looked: also when the process has shut  *)
(* down.                                                                   *)
NoForgottenRuntime ==
  \A c \in Cycles : runtime[c] = "open" =>
    \/ ~FilesClear
    \/ shutdown # "done" /\ (active = c \/ UnderWay(c))

(* A cycle whose command hangs, whose client never closes it, or that is shut down  *)
(* is closed in the end, unless a call throws on the way.                      *)
CycleEnds == active # NoCycle ~> (active = NoCycle \/ faults > 0)

(* A shutdown ends, with success or an error, whatever is under way, unless new    *)
(* ticks never stop coming (the transport is closed before the shutdown).        *)
ShutdownTerminates ==
  \/ []<><<\E c \in Cycles : BeginScheduledTick(c)>>_vars
  \/ shutdown = "running" ~> shutdown # "running"

(* Neither a cycle nor the shutdown stays for good, whatever hangs.          *)
SupervisorEnds == CycleEnds /\ ShutdownTerminates

-----------------------------------------------------------------------------

=============================================================================

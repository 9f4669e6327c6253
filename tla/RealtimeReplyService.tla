------------------------ MODULE RealtimeReplyService ------------------------
(***************************************************************************)
(* The realtime reply service: conversation/realtime-reply-service.ts, with  *)
(* the inbound source that feeds it, the P1 delivery it calls               *)
(* (runtime-v2/single-scheduler.ts) and the native submit at the end        *)
(* (adapters/native-wechat-surface.ts, adapters/native-bridge.ts).          *)
(*                                                                         *)
(* The service is one event loop, so a step here is what runs between two   *)
(* awaits: one transaction of the ledger, or one call of the surface, with  *)
(* the synchronous code after it.  Its tasks interleave at every step:      *)
(*   - per contact a poll of the chat, and the replacement of its session;  *)
(*   - per contact three tasks that can carry a reply to the chat: "flush"  *)
(*     (claim, generate, deliver), "tick" (deliver a prepared reply left     *)
(*     behind) and "recovery" (what the heartbeat runs over every active     *)
(*     record).                                                            *)
(* Around them the contact and the owner write to the chat, the owner       *)
(* re-enrolls the contact, a P0 cycle takes the dispatcher, and the process *)
(* stops or crashes and starts again.                                      *)
(*                                                                         *)
(* A chat is the sequence of its messages, and a message is its position:    *)
(* the source numbers what it delivers in that order.  Messages bounds the   *)
(* positions the contact and the owner write at.  A binding is the pair      *)
(* <<contact revision, source epoch>>; every process draws a new epoch.      *)
(***************************************************************************)
EXTENDS RealtimeReplyStore

CONSTANTS
  Deliverers,         \* which of "flush", "tick", "recovery" take part
  WithP0,             \* P0 cycles take part
  IdsAgree,           \* chat snapshots name a message as the source does
  NoKey,              \* the task has no reply; the message carries none
  MaxRevision,        \* bound: enrollments of a contact
  MaxEpoch,           \* bound: starts of the process
  MaxFaults           \* bound: failed reads, generations and surface calls

ASSUME DeliverersAssumption == Deliverers \subseteq {"flush", "tick", "recovery"}
ASSUME NoKeyAssumption == NoKey \notin Key
ASSUME MessagesAssumption == Messages \subseteq Nat \ {0}
ASSUME BoundsAssumption == MaxRevision \in Nat \ {0} /\ MaxEpoch \in Nat /\ MaxFaults \in Nat
ASSUME BindingsAssumption == Bindings = (1 .. MaxRevision) \X (1 .. MaxEpoch)
ASSUME ServiceReasonsAssumption ==
  {"OWNER_REPLIED", "CONTACT_CHANGED", "NO_REPLY", "SOURCE_BLOCKED", "RECOVERY_CANCELLED"}
    \subseteq Reasons

VARIABLES
  chat,        \* per contact, the messages of the chat
  orphans,     \* replies whose native submit outlived the process that started it
  revision,    \* per contact, its revision in the directory
  lifecycle,   \* "running", "stopping", "stopped" (but not yet exited) or "down"
  epoch,       \* the source epoch of the current process
  session,     \* per contact, the revision its source was created for
  seen,        \* per contact, the cursor: messages committed as delivered
  timer,       \* per contact, "set" while the buffer timer is, "arming" before it
  poll,        \* per contact, the poll in progress
  replacing,   \* per contact, the step of a session replacement
  task,        \* per deliverer and contact, the task in progress
  gate,        \* who holds the dispatcher: P0, P0 asking, or one of the tasks
  announced,   \* contacts with a pending-P1 announcement
  faults       \* failures so far

volatile == <<lifecycle, epoch, session, timer, poll, replacing, task, gate, announced>>
vars == <<records, batches, chat, orphans, revision, seen, faults, volatile>>

Procs == Deliverers \X Contacts
P0 == <<"p0">>
P0Asking == <<"p0", "asking">>
Flush(c) == <<"flush", c>>

Idle == [pc |-> "idle", key |-> NoKey, halted |-> FALSE, outcome |-> "none"]
NoPoll == [pc |-> "idle", upto |-> 0]
Begin(l, k) == [Idle EXCEPT !.pc = l, !.key = k]

At(p, l) == task[p].pc = l
Goto(p, l) == task' = [task EXCEPT ![p].pc = l]
Close(p, why) == task' = [task EXCEPT ![p].pc = "close", ![p].outcome = why]
Halted(p) == task[p].halted \/ lifecycle = "stopping"

Running == lifecycle = "running"
Binding(c) == <<session[c], epoch>>
Last(S) == CHOOSE m \in S : \A n \in S : n <= m
Sent(k) == {n \in DOMAIN chat[k.contact] :
              chat[k.contact][n].from = "bot" /\ chat[k.contact][n].key = k}

(* A surface call or a generation may fail, MaxFaults times in a history.   *)
Fault == faults < MaxFaults /\ faults' = faults + 1
NoFault == UNCHANGED faults

-----------------------------------------------------------------------------
(* Helpers of the service.                                                 *)

(* Mutant: a batch is scheduled only when it is the first work of its contact. *)
ScheduledOnce(c) ==
  IF Running /\ batches[c] # NoBatch /\ ~\E i \in DOMAIN records : records[i].key.contact = c
    THEN [timer EXCEPT ![c] = @ \cup {"arming"}] ELSE timer

(* startQueuedBatch, as far as scheduleBufferedBatch sees a running service.  *)
Scheduled(c) ==
  IF Running /\ batches[c] # NoBatch /\ ~HasActive(c)
    THEN [timer EXCEPT ![c] = @ \cup {"arming"}] ELSE timer

(* The rest of scheduleBufferedBatch, after its last await: whether the       *)
(* service still runs is not looked at again.                               *)
Armed(c) == IF HasActive(c) THEN timer ELSE [timer EXCEPT ![c] = @ \cup {"set"}]
Cleared(c) == [timer EXCEPT ![c] = @ \ {"set"}]

Waiting == IF Running THEN {c \in Contacts : batches[c] # NoBatch} ELSE {}
Announced(c) == announced \cup ({c} \cap Waiting)
Released == IF HasPendingWork THEN announced ELSE {}

(* A transition of the task's record, and where the task goes on either     *)
(* result of the compare-and-set.                                          *)
CAS(p, from, to, why, yes, no) ==
  \/ CompareAndSet(task[p].key, from, to, why) /\ Goto(p, yes)
  \/ ~StatusIs(task[p].key, from) /\ UNCHANGED storeVars /\ Goto(p, no)

(* assertAuthorizedLatestIncoming, and the native re-check of the same      *)
(* proof: the chat still ends with the last message of the trigger.         *)
StillLatest(k) ==
  /\ IdsAgree
  /\ Len(chat[k.contact]) = Last(k.messages)

(* Mutant: any message right after the baseline proves the reply.           *)
ProvesAnyAppend(k) == Len(chat[k.contact]) = Last(k.messages) + 1

(* provesCandidateOutgoingAppend and isSingleMonotonicOutgoingAppend: one   *)
(* outgoing message, with the text of this reply, right after the baseline.  *)
ProvesAppend(k) ==
  LET ch == chat[k.contact]
  IN Len(ch) = Last(k.messages) + 1 /\ ch[Len(ch)].key = k

(* recordMatchesTarget, for the target the directory has now.               *)
MatchesTarget(k) == k.binding[1] = revision[k.contact]

-----------------------------------------------------------------------------
(* The chat and its poll.                                                  *)

(* The native submit of a reply to c is past its last look at the chat.      *)
Pressing(c) ==
  \/ \E p \in Procs : p[2] = c /\ At(p, "press")
  \/ \E k \in orphans : k.contact = c

Say(c, from, k) ==
  chat' = [chat EXCEPT ![c] =
    Append(@, [from |-> from, key |-> k, late |-> Pressing(c)])]

(* The contact or the owner writes a message.                              *)
Write(c) ==
  /\ Len(chat[c]) + 1 \in Messages
  /\ \E from \in {"contact", "owner"} : Say(c, from, NoKey)
  /\ UNCHANGED <<storeVars, orphans, revision, seen, faults, volatile>>

StartPoll(c) == poll' = [poll EXCEPT ![c] = [pc |-> "next", upto |-> Len(chat[c])]]

(* runTick polls the chat of a contact the detector reports as unread.      *)
TickPoll(c) ==
  /\ Running
  /\ session[c] = revision[c]
  /\ replacing[c] = "no"
  /\ poll[c] = NoPoll
  /\ seen[c] < Len(chat[c])
  /\ StartPoll(c)
  /\ UNCHANGED <<storeVars, chat, orphans, revision, lifecycle, epoch, session, seen, timer,
                 replacing, task, gate, announced, faults>>

(* The poll settles, and with it every delivery that waits for it.          *)
PollSettles(c, l) ==
  /\ poll' = [poll EXCEPT ![c] = NoPoll]
  /\ task' = [p \in Procs |-> IF p[2] = c /\ At(p, "polling")
                                THEN [task[p] EXCEPT !.pc = l] ELSE task[p]]

PollGoto(c, l) == poll' = [poll EXCEPT ![c].pc = l]

PollDone(c) ==
  /\ poll[c].pc = "next"
  /\ seen[c] >= poll[c].upto
  /\ PollSettles(c, "get2")
  /\ UNCHANGED <<storeVars, chat, orphans, revision, lifecycle, epoch, session, seen, timer,
                 replacing, gate, announced, faults>>

(* The snapshot cannot be read, or the cursor cannot be committed: what the  *)
(* handler did stays done, and the message comes again.                     *)
PollFails(c) ==
  /\ poll[c].pc \in {"next", "commit"}
  /\ Fault
  /\ PollSettles(c, "changed")
  /\ UNCHANGED <<storeVars, chat, orphans, revision, lifecycle, epoch, session, seen, timer,
                 replacing, gate, announced>>

Unseen(c, who) ==
  /\ poll[c].pc = "next"
  /\ seen[c] < poll[c].upto
  /\ (chat[c][seen[c] + 1].from = "contact") = (who = "contact")

(* receiveMessage, incoming: append and announce; a running service then     *)
(* schedules.                                                              *)
ReceiveIncoming(c) ==
  /\ Unseen(c, "contact")
  /\ LET m == seen[c] + 1
     IN \/ /\ AppendBufferedMessage(c, Binding(c), m)
           /\ announced' = announced \cup {c}
           /\ PollGoto(c, IF Running THEN "schedule" ELSE "commit")
           /\ UNCHANGED task
        \/ /\ Cardinality(BufferedAfter(c, Binding(c), m)) > MaxBatch
           /\ PollSettles(c, "changed")
           /\ UNCHANGED <<storeVars, announced>>
  /\ UNCHANGED <<chat, orphans, revision, lifecycle, epoch, session, seen, timer, replacing,
                 gate, faults>>

PollSchedules(c) ==
  /\ poll[c].pc = "schedule"
  /\ timer' = Armed(c)
  /\ PollGoto(c, "commit")
  /\ UNCHANGED <<storeVars, chat, orphans, revision, lifecycle, epoch, session, seen, replacing,
                 task, gate, announced, faults>>

(* receiveMessage, outgoing, whoever sent it: clear, cancel, wake, release.  *)
ReceiveOutgoing(c) ==
  /\ Unseen(c, "outgoing")
  /\ ClearBufferedBatch(c)
  /\ PollGoto(c, "cancel")
  /\ UNCHANGED <<chat, orphans, revision, lifecycle, epoch, session, seen, timer, replacing,
                 task, gate, announced, faults>>

PollCancels(c) ==
  /\ poll[c].pc = "cancel"
  /\ CancelPreSubmit(c, "OWNER_REPLIED", {})
  /\ timer' = Cleared(c)
  /\ PollGoto(c, "wake")
  /\ UNCHANGED <<chat, orphans, revision, lifecycle, epoch, session, seen, replacing, task, gate,
                 announced, faults>>

PollWakes(c) ==
  /\ poll[c].pc = "wake"
  /\ timer' = Scheduled(c)
  /\ announced' = IF HasPendingWork THEN Announced(c) ELSE {}
  /\ PollGoto(c, "commit")
  /\ UNCHANGED <<storeVars, chat, orphans, revision, lifecycle, epoch, session, seen, replacing,
                 task, gate, faults>>

(* commitDelivered, after the handler.                                     *)
PollCommits(c) ==
  /\ poll[c].pc = "commit"
  /\ seen' = [seen EXCEPT ![c] = @ + 1]
  /\ PollGoto(c, "next")
  /\ UNCHANGED <<storeVars, chat, orphans, revision, lifecycle, epoch, session, timer, replacing,
                 task, gate, announced, faults>>

PollNext(c) ==
  \/ TickPoll(c) \/ PollDone(c) \/ PollFails(c)
  \/ ReceiveIncoming(c) \/ PollSchedules(c)
  \/ ReceiveOutgoing(c) \/ PollCancels(c) \/ PollWakes(c) \/ PollCommits(c)

-----------------------------------------------------------------------------
(* Generation: the "flush" task of a contact.                              *)

Rest == <<chat, orphans, revision, lifecycle, epoch, session, seen, poll, replacing>>

(* A scheduling that was asked for reads whether the contact is free.        *)
TimerArms(c) ==
  /\ "arming" \in timer[c]
  /\ timer' = [Armed(c) EXCEPT ![c] = @ \ {"arming"}]
  /\ UNCHANGED <<storeVars, Rest, task, gate, announced, faults>>

(* The buffer timer fires; a generation already under way ignores it.       *)
TimerFires(c) ==
  /\ "flush" \in Deliverers
  /\ "set" \in timer[c]
  /\ timer' = Cleared(c)
  /\ task' = IF At(Flush(c), "idle")
               THEN [task EXCEPT ![Flush(c)] = Begin("claim", NoKey)] ELSE task
  /\ UNCHANGED <<storeVars, Rest, gate, announced, faults>>

(* flushSession claims the batch, unless it was stopped or has nothing to    *)
(* claim.                                                                  *)
FlushClaims(p) ==
  LET c == p[2]
  IN /\ At(p, "claim")
     /\ \/ /\ Halted(p)
           /\ Goto(p, "end")
           /\ UNCHANGED <<storeVars, announced>>
        \/ /\ ~Halted(p)
           /\ ClaimBufferedBatch(c)
           /\ task' = [task EXCEPT ![p].pc = "mark", ![p].key = BatchKey(c)]
           /\ UNCHANGED announced
        \/ /\ ~Halted(p)
           /\ batches[c] = NoBatch \/ HasActive(c)
           /\ announced' = Released
           /\ Goto(p, "end")
           /\ UNCHANGED storeVars
     /\ UNCHANGED <<Rest, timer, gate, faults>>

FlushMarks(p) ==
  /\ At(p, "mark")
  /\ CAS(p, "new", "generating", NoReason, "generate", "end")
  /\ UNCHANGED <<Rest, timer, gate, announced, faults>>

(* The coordinator answers with a reply, or declines, or throws.  It was     *)
(* created for the session's target and the process's epoch, and blocks a    *)
(* batch that carries another binding.  An aborted generation writes        *)
(* nothing.                                                                *)
FlushGenerates(p) ==
  LET k == task[p].key
  IN /\ At(p, "generate")
     /\ \/ Halted(p) /\ Goto(p, "end") /\ UNCHANGED storeVars /\ NoFault
        \/ /\ ~Halted(p)
           /\ k.binding = Binding(p[2])
           /\ MatchesTarget(k)
           /\ CAS(p, "generating", "prepared", NoReason, "get1", "end")
           /\ NoFault
        \/ /\ ~Halted(p)
           /\ CAS(p, "generating", "failed", "NO_REPLY", "wake", "finally")
           /\ NoFault
        \/ /\ ~Halted(p)
           /\ IF k.binding = Binding(p[2]) /\ MatchesTarget(k) THEN Fault ELSE NoFault
           /\ CAS(p, "generating", "failed", "SOURCE_BLOCKED", "wake", "finally")
     /\ UNCHANGED <<Rest, timer, gate, announced>>

-----------------------------------------------------------------------------
(* deliverPrepared, up to the dispatcher.                                  *)

(* Mutant: only the oldest record is looked at.                             *)
TickDeliversOldest(c) ==
  /\ "tick" \in Deliverers
  /\ Running
  /\ At(<<"tick", c>>, "idle")
  /\ records # << >> /\ records[1].status = "prepared" /\ records[1].key.contact = c
  /\ task' = [task EXCEPT ![<<"tick", c>>] = Begin("get1", records[1].key)]
  /\ UNCHANGED <<storeVars, Rest, timer, gate, announced, faults>>

(* runTick starts the delivery of the first prepared reply.                 *)
TickDelivers(c) ==
  /\ "tick" \in Deliverers
  /\ Running
  /\ At(<<"tick", c>>, "idle")
  /\ \E i \in DOMAIN records :
       /\ records[i].status = "prepared"
       /\ \A j \in 1 .. i - 1 : records[j].status # "prepared"
       /\ records[i].key.contact = c
       /\ task' = [task EXCEPT ![<<"tick", c>>] = Begin("get1", records[i].key)]
  /\ UNCHANGED <<storeVars, Rest, timer, gate, announced, faults>>

(* The reply must still be prepared, for the current target, in a session    *)
(* of that target.                                                         *)
Get1(p) ==
  LET k == task[p].key
  IN /\ At(p, "get1")
     /\ Goto(p, IF Halted(p) THEN "end"
                ELSE IF /\ StatusIs(k, "prepared")
                        /\ MatchesTarget(k)
                        /\ lifecycle # "stopped" /\ session[p[2]] = revision[p[2]]
                  THEN "poll" ELSE "changed")
     /\ UNCHANGED <<storeVars, Rest, timer, gate, announced, faults>>

(* The chat is polled once more: a poll already in progress is shared.       *)
JoinPoll(p) ==
  LET c == p[2]
  IN /\ At(p, "poll")
     /\ \/ /\ Halted(p) \/ replacing[c] # "no"
           /\ Goto(p, "changed")
           /\ UNCHANGED poll
        \/ /\ ~Halted(p) /\ replacing[c] = "no"
           /\ IF poll[c] = NoPoll THEN StartPoll(c) ELSE UNCHANGED poll
           /\ Goto(p, "polling")
     /\ UNCHANGED <<storeVars, chat, orphans, revision, lifecycle, epoch, session, seen,
                    replacing, timer, gate, announced, faults>>

Get2(p) ==
  /\ At(p, "get2")
  /\ Goto(p, IF Halted(p) THEN "changed"
             ELSE IF StatusIs(task[p].key, "prepared") THEN "admit" ELSE "end")
  /\ UNCHANGED <<storeVars, Rest, timer, gate, announced, faults>>

(* Anything that failed so far cancels the reply as CONTACT_CHANGED.         *)
CancelChanged(p) ==
  /\ At(p, "changed")
  /\ CAS(p, "prepared", "cancelled", "CONTACT_CHANGED", "wakeEnd", "end")
  /\ UNCHANGED <<Rest, timer, gate, announced, faults>>

-----------------------------------------------------------------------------
(* The delivery proper, under a dispatcher session.                         *)

(* A busy dispatcher leaves the reply prepared, for a later tick.            *)
Admit(p) ==
  /\ At(p, "admit")
  /\ \/ Halted(p) /\ Goto(p, "afterFailure") /\ UNCHANGED gate
     \/ ~Halted(p) /\ gate = {} /\ Goto(p, "check") /\ gate' = {p}
     \/ ~Halted(p) /\ gate # {} /\ Goto(p, "finally") /\ UNCHANGED gate
  /\ UNCHANGED <<storeVars, Rest, timer, announced, faults>>

(* Mutant: a delivery that was stopped is taken for an answered one.         *)
CheckBlamesOwner(p) ==
  /\ At(p, "check")
  /\ IF ~Halted(p) /\ MatchesTarget(task[p].key) /\ StillLatest(task[p].key)
       THEN Goto(p, "fence") ELSE Close(p, "owner")
  /\ UNCHANGED <<storeVars, Rest, timer, gate, announced, faults>>

(* validate, beforeSubmit and beforeFence make the same check around the     *)
(* draft, and the chat only grows: the last of them stands for the three.    *)
Check(p) ==
  /\ At(p, "check")
  /\ \/ /\ Halted(p) \/ ~MatchesTarget(task[p].key)
        /\ Close(p, "error")
        /\ NoFault
     \/ ~Halted(p) /\ Fault /\ Close(p, "error")
     \/ /\ ~Halted(p) /\ MatchesTarget(task[p].key)
        /\ IF StillLatest(task[p].key) THEN Goto(p, "fence") ELSE Close(p, "owner")
        /\ NoFault
  /\ UNCHANGED <<storeVars, Rest, timer, gate, announced>>

(* markSubmitStarted: the durable fence, before the only native submit.      *)
FenceReply(p) ==
  /\ At(p, "fence")
  /\ \/ Halted(p) /\ Close(p, "error") /\ UNCHANGED storeVars
     \/ /\ ~Halted(p)
        /\ \/ /\ CompareAndSet(task[p].key, "prepared", "submit-started", NoReason)
              /\ Goto(p, "native")
           \/ /\ ~StatusIs(task[p].key, "prepared")
              /\ Close(p, "error")
              /\ UNCHANGED storeVars
  /\ UNCHANGED <<Rest, timer, gate, announced, faults>>

(* Mutant: the bridge trusts the check made before the fence.               *)
NativeTrusts(p) ==
  /\ At(p, "native")
  /\ IF Halted(p) THEN Close(p, "error") ELSE Goto(p, "press")
  /\ UNCHANGED <<storeVars, Rest, timer, gate, announced, faults>>

(* The bridge looks at the chat a last time.  Past the fence a refusal and a *)
(* failure are both "attempted".                                           *)
NativeCheck(p) ==
  /\ At(p, "native")
  /\ \/ Halted(p) /\ Close(p, "error") /\ NoFault
     \/ /\ ~Halted(p)
        /\ IF StillLatest(task[p].key) THEN Goto(p, "press")
           ELSE Close(p, "submitted-uncertain")
        /\ NoFault
     \/ ~Halted(p) /\ Fault /\ Close(p, "submitted-uncertain")
  /\ UNCHANGED <<storeVars, Rest, timer, gate, announced>>

(* Mutant: a lost answer is retried.                                        *)
PressAgain(p) ==
  /\ At(p, "press")
  /\ Say(p[2], "bot", task[p].key)
  /\ \/ Goto(p, "readback") /\ NoFault
     \/ UNCHANGED task /\ Fault
  /\ UNCHANGED <<storeVars, orphans, revision, lifecycle, epoch, session, seen, poll, replacing,
                 timer, gate, announced>>

(* The key is pressed; the bridge's answer may be lost.  A stop kills the    *)
(* bridge, before or after it pressed.                                     *)
Press(p) ==
  /\ At(p, "press")
  /\ \/ Say(p[2], "bot", task[p].key) /\ Goto(p, "readback") /\ NoFault
     \/ Say(p[2], "bot", task[p].key) /\ Close(p, "submitted-uncertain") /\ Fault
     \/ Halted(p) /\ UNCHANGED chat /\ Close(p, "error") /\ NoFault
  /\ UNCHANGED <<storeVars, orphans, revision, lifecycle, epoch, session, seen, poll, replacing,
                 timer, gate, announced>>

Readback(p) ==
  /\ At(p, "readback")
  /\ \/ Halted(p) /\ Close(p, "error")
     \/ /\ ~Halted(p)
        /\ Close(p, IF ProvesAppend(task[p].key) THEN "verified"
                    ELSE "submitted-uncertain")
  /\ UNCHANGED <<storeVars, Rest, timer, gate, announced, faults>>

(* session.close, on every path, before the result is written.              *)
CloseSession(p) ==
  /\ At(p, "close")
  /\ gate' = gate \ {p}
  /\ Goto(p, CASE task[p].outcome \in {"verified", "submitted-uncertain"} -> "settle"
               [] task[p].outcome = "owner" -> "ownerReplied"
               [] task[p].outcome = "error" -> "afterFailure"
               [] task[p].outcome = "recovered" -> "recoverVerify"
               [] task[p].outcome = "unproven" -> "end")
  /\ UNCHANGED <<storeVars, Rest, timer, announced, faults>>

Settle(p) ==
  /\ At(p, "settle")
  /\ CAS(p, "submit-started", task[p].outcome, NoReason, "wake", "finally")
  /\ UNCHANGED <<Rest, timer, gate, announced, faults>>

CancelOwnerReplied(p) ==
  /\ At(p, "ownerReplied")
  /\ CAS(p, "prepared", "cancelled", "OWNER_REPLIED", "wake", "finally")
  /\ UNCHANGED <<Rest, timer, gate, announced, faults>>

(* Any other error: what the record says now decides how it is closed.       *)
AfterFailure(p) ==
  /\ At(p, "afterFailure")
  /\ Goto(p, IF StatusIs(task[p].key, "submit-started") THEN "uncertain" ELSE "fail")
  /\ UNCHANGED <<storeVars, Rest, timer, gate, announced, faults>>

CloseFailed(p) ==
  /\ \/ /\ At(p, "uncertain")
        /\ CAS(p, "submit-started", "submitted-uncertain", NoReason, "wake", "finally")
     \/ /\ At(p, "fail")
        /\ CAS(p, "prepared", "failed", "SOURCE_BLOCKED", "wake", "finally")
  /\ UNCHANGED <<Rest, timer, gate, announced, faults>>

(* wakeBufferedContact, after the reply left its status.                    *)
WakeContact(p) ==
  /\ task[p].pc \in {"wake", "wakeEnd"}
  /\ timer' = Scheduled(p[2])
  /\ announced' = Announced(p[2])
  /\ Goto(p, IF At(p, "wake") THEN "finally" ELSE "end")
  /\ UNCHANGED <<storeVars, Rest, gate, faults>>

(* Mutant: a task that ends leaves the queued batch to whoever comes next.   *)
FinishSilently(p) ==
  /\ task[p].pc \in {"finally", "end"}
  /\ task' = [task EXCEPT ![p] = Idle]
  /\ announced' = IF At(p, "finally") THEN Released ELSE announced
  /\ UNCHANGED <<storeVars, Rest, timer, gate, faults>>

(* The end of a task.  "finally" is deliverPrepared's own (release, then     *)
(* start a queued batch); a generation starts a queued batch in any case,    *)
(* and a recovery announces and starts every queued batch.                  *)
Finish(p) ==
  LET recovery == p[1] = "recovery"
  IN /\ task[p].pc \in {"finally", "end"}
     /\ task' = [task EXCEPT ![p] = Idle]
     /\ timer' = IF At(p, "finally") \/ p[1] # "tick" THEN Scheduled(p[2]) ELSE timer
     /\ announced' =
          IF At(p, "finally") \/ recovery
            THEN IF HasPendingWork
                   THEN announced \cup (IF recovery THEN Waiting ELSE {}) ELSE {}
            ELSE announced
     /\ UNCHANGED <<storeVars, Rest, gate, faults>>

DeliverNext(p) ==
  \/ FlushClaims(p) \/ FlushMarks(p) \/ FlushGenerates(p)
  \/ Get1(p) \/ JoinPoll(p) \/ Get2(p) \/ CancelChanged(p)
  \/ Admit(p) \/ Check(p) \/ FenceReply(p) \/ NativeCheck(p) \/ Press(p)
  \/ Readback(p) \/ CloseSession(p) \/ Settle(p) \/ CancelOwnerReplied(p)
  \/ AfterFailure(p) \/ CloseFailed(p) \/ WakeContact(p) \/ Finish(p)

-----------------------------------------------------------------------------
(* Recovery: what every heartbeat runs, while the service is live, over the  *)
(* records that were active when it listed them.                            *)

RecoveryStep(s) ==
  CASE s = "new" -> "recoverNew"
    [] s = "generating" -> "recoverGenerating"
    [] s = "prepared" -> "get1"
    [] s = "submit-started" -> "recoverMark"
    [] s = "submitted-uncertain" -> "recoverAdmit"

RecoveryLists(c) ==
  /\ "recovery" \in Deliverers
  /\ Running
  /\ At(<<"recovery", c>>, "idle")
  /\ session[c] = revision[c] /\ replacing[c] = "no"
  /\ \E i \in Recoverable :
       /\ records[i].key.contact = c
       /\ task' = [task EXCEPT ![<<"recovery", c>>] =
                     Begin(RecoveryStep(records[i].status), records[i].key)]
  /\ UNCHANGED <<storeVars, Rest, timer, gate, announced, faults>>

(* A reply that was not yet prepared is given up, by the status it had when  *)
(* it was listed; a fenced one becomes uncertain.                           *)
RecoveryCloses(p) ==
  /\ \/ /\ At(p, "recoverNew")
        /\ CAS(p, "new", "failed", "RECOVERY_CANCELLED", "wake", "end")
     \/ /\ At(p, "recoverGenerating")
        /\ CAS(p, "generating", "failed", "RECOVERY_CANCELLED", "wake", "end")
     \/ /\ At(p, "recoverMark")
        /\ CAS(p, "submit-started", "submitted-uncertain", NoReason, "recoverAdmit", "end")
  /\ UNCHANGED <<Rest, timer, gate, announced, faults>>

(* Readback under a dispatcher session of its own; it never submits.        *)
RecoveryAdmit(p) ==
  /\ At(p, "recoverAdmit")
  /\ IF Halted(p) \/ ~MatchesTarget(task[p].key) \/ gate # {}
       THEN Goto(p, "end") /\ UNCHANGED gate
       ELSE Goto(p, "recoverRead") /\ gate' = {p}
  /\ UNCHANGED <<storeVars, Rest, timer, announced, faults>>

RecoveryReads(p) ==
  /\ At(p, "recoverRead")
  /\ \/ /\ Close(p, IF ~Halted(p) /\ ProvesAppend(task[p].key)
                      THEN "recovered" ELSE "unproven")
        /\ NoFault
     \/ Close(p, "unproven") /\ Fault
  /\ UNCHANGED <<storeVars, Rest, timer, gate, announced>>

RecoveryVerifies(p) ==
  /\ At(p, "recoverVerify")
  /\ CAS(p, "submitted-uncertain", "verified", NoReason, "wake", "wake")
  /\ UNCHANGED <<Rest, timer, gate, announced, faults>>

RecoverNext(p) ==
  RecoveryCloses(p) \/ RecoveryAdmit(p) \/ RecoveryReads(p) \/ RecoveryVerifies(p)

-----------------------------------------------------------------------------
(* Sessions and the lifecycle.                                             *)

(* The owner enrolls the contact again.                                    *)
Reenroll(c) ==
  /\ revision[c] < MaxRevision
  /\ revision' = [revision EXCEPT ![c] = @ + 1]
  /\ UNCHANGED <<storeVars, chat, orphans, seen, faults, volatile>>

(* createSession finds a session of another target: it aborts the session's  *)
(* generation and timer, cancels, wakes, waits for the poll, and starts a    *)
(* source whose baseline is the chat of that moment.                        *)
ReplaceBegins(c) ==
  /\ Running
  /\ replacing[c] = "no"
  /\ session[c] # revision[c]
  /\ replacing' = [replacing EXCEPT ![c] = "cancel"]
  /\ timer' = Cleared(c)
  /\ task' = [p \in Procs |-> IF p = Flush(c) /\ ~At(p, "idle")
                                THEN [task[p] EXCEPT !.halted = TRUE] ELSE task[p]]
  /\ UNCHANGED <<storeVars, chat, orphans, revision, seen, faults, lifecycle, epoch, session, poll,
                 gate, announced>>

ReplaceCancels(c) ==
  /\ replacing[c] = "cancel"
  /\ CancelPreSubmit(c, "CONTACT_CHANGED", {})
  /\ replacing' = [replacing EXCEPT ![c] = "wake"]
  /\ UNCHANGED <<chat, orphans, revision, seen, faults, lifecycle, epoch, session, timer, poll, task,
                 gate, announced>>

ReplaceWakes(c) ==
  /\ replacing[c] = "wake"
  /\ timer' = Scheduled(c)
  /\ announced' = Announced(c)
  /\ replacing' = [replacing EXCEPT ![c] = "start"]
  /\ UNCHANGED <<storeVars, chat, orphans, revision, seen, faults, lifecycle, epoch, session, poll,
                 task, gate>>

ReplaceStarts(c) ==
  /\ replacing[c] = "start"
  /\ poll[c] = NoPoll
  /\ session' = [session EXCEPT ![c] = revision[c]]
  /\ seen' = [seen EXCEPT ![c] = Len(chat[c])]
  /\ replacing' = [replacing EXCEPT ![c] = "no"]
  /\ UNCHANGED <<storeVars, chat, orphans, revision, faults, lifecycle, epoch, timer, poll, task, gate,
                 announced>>

ReplaceNext(c) ==
  ReplaceBegins(c) \/ ReplaceCancels(c) \/ ReplaceWakes(c) \/ ReplaceStarts(c)

(* A process starts: every source takes the chat as its baseline, and the    *)
(* buffered batches are announced and scheduled again.                      *)
Start ==
  /\ lifecycle = "down"
  /\ epoch < MaxEpoch
  /\ lifecycle' = "running"
  /\ epoch' = epoch + 1
  /\ session' = revision
  /\ seen' = [c \in Contacts |-> Len(chat[c])]
  /\ announced' = {c \in Contacts : batches[c] # NoBatch}
  /\ timer' = [c \in Contacts |-> IF batches[c] # NoBatch /\ ~HasActive(c)
                                   THEN {"set"} ELSE {}]
  /\ UNCHANGED <<storeVars, chat, orphans, revision, faults, poll, replacing, task, gate>>

Stop ==
  /\ Running
  /\ lifecycle' = "stopping"
  /\ timer' = [c \in Contacts |-> timer[c] \ {"set"}]
  /\ task' = [p \in Procs |-> IF At(p, "idle") THEN task[p]
                              ELSE [task[p] EXCEPT !.halted = TRUE]]
  /\ UNCHANGED <<storeVars, chat, orphans, revision, seen, faults, epoch, session, poll, replacing,
                 gate, announced>>

Down ==
  /\ lifecycle' = "down"
  /\ timer' = [c \in Contacts |-> {}]
  /\ poll' = [c \in Contacts |-> NoPoll]
  /\ replacing' = [c \in Contacts |-> "no"]
  /\ task' = [p \in Procs |-> Idle]
  /\ gate' = {}
  /\ announced' = {}
  /\ UNCHANGED <<storeVars, chat, revision, seen, faults, epoch, session>>

(* The tasks have drained: the sessions are closed and stop returns.         *)
StopCompletes ==
  /\ lifecycle = "stopping"
  /\ \A p \in Procs : At(p, "idle")
  /\ \A c \in Contacts : poll[c] = NoPoll /\ replacing[c] = "no"
  /\ lifecycle' = "stopped"
  /\ announced' = {}
  /\ UNCHANGED <<storeVars, chat, orphans, revision, seen, faults, epoch, session, timer, poll,
                 replacing, task, gate>>

(* The process of a stopped service exits once no timer and no task is left.  *)
Exit ==
  /\ lifecycle = "stopped"
  /\ \A p \in Procs : At(p, "idle")
  /\ \A c \in Contacts : timer[c] = {}
  /\ UNCHANGED orphans
  /\ Down

(* The process dies between any two steps.  The native bridge is a process   *)
(* of its own: a submit that it has begun goes on without us.               *)
Crash ==
  /\ lifecycle # "down"
  /\ orphans' = orphans \cup {task[p].key : p \in {q \in Procs : At(q, "press")}}
  /\ Down

OrphanPresses(k) ==
  /\ Say(k.contact, "bot", k)
  /\ orphans' = orphans \ {k}
  /\ UNCHANGED <<storeVars, revision, seen, faults, volatile>>

(* A P0 cycle asks for the dispatcher only while no reply is pending.  Once   *)
(* its reservation is firm it asks again: it goes on when no reply is         *)
(* announced, but the ledger may have got one since it was read.              *)
P0Asks ==
  /\ WithP0
  /\ Running
  /\ gate = {}
  /\ announced = {} /\ ~HasPendingWork
  /\ gate' = {P0Asking}
  /\ UNCHANGED <<storeVars, chat, orphans, revision, seen, faults, lifecycle, epoch, session, timer,
                 poll, replacing, task, announced>>

P0Takes ==
  /\ gate = {P0Asking}
  /\ \/ announced = {} /\ gate' = {P0}
     \/ (announced # {} \/ HasPendingWork) /\ gate' = {}
  /\ UNCHANGED <<storeVars, chat, orphans, revision, seen, faults, lifecycle, epoch, session, timer,
                 poll, replacing, task, announced>>

P0Releases ==
  /\ gate = {P0}
  /\ gate' = {}
  /\ UNCHANGED <<storeVars, chat, orphans, revision, seen, faults, lifecycle, epoch, session, timer,
                 poll, replacing, task, announced>>

-----------------------------------------------------------------------------
Init ==
  /\ StoreInit
  /\ chat = [c \in Contacts |-> << >>]
  /\ orphans = {}
  /\ revision = [c \in Contacts |-> 1]
  /\ lifecycle = "down"
  /\ epoch = 0
  /\ session = revision
  /\ seen = [c \in Contacts |-> 0]
  /\ timer = [c \in Contacts |-> {}]
  /\ poll = [c \in Contacts |-> NoPoll]
  /\ replacing = [c \in Contacts |-> "no"]
  /\ task = [p \in Procs |-> Idle]
  /\ gate = {}
  /\ announced = {}
  /\ faults = 0

Next ==
  \/ \E c \in Contacts :
       \/ Write(c) \/ Reenroll(c)
       \/ PollNext(c) \/ ReplaceNext(c)
       \/ TimerArms(c) \/ TimerFires(c) \/ TickDelivers(c) \/ RecoveryLists(c)
  \/ \E p \in Procs : DeliverNext(p) \/ RecoverNext(p)
  \/ Start \/ Stop \/ StopCompletes \/ Exit \/ Crash
  \/ \E k \in orphans : OrphanPresses(k)
  \/ P0Asks \/ P0Takes \/ P0Releases

Spec == Init /\ [][Next]_vars

(* The event loop runs every continuation, a settled read or transaction     *)
(* calls back, timers fire, the detector and the heartbeat keep coming, and   *)
(* a P0 cycle ends.  Nothing promises that the contact or the owner writes,  *)
(* that a process stops, crashes or is started again.                       *)
LoopFairness ==
  /\ \A c \in Contacts :
       /\ WF_vars(PollNext(c)) /\ WF_vars(ReplaceNext(c))
       /\ WF_vars(TimerArms(c)) /\ WF_vars(TimerFires(c))
  /\ \A p \in Procs : WF_vars(DeliverNext(p) \/ RecoverNext(p))
  /\ WF_vars(P0Takes) /\ WF_vars(P0Releases)

HeartbeatFairness ==
  \A c \in Contacts : WF_vars(TickDelivers(c)) /\ WF_vars(RecoveryLists(c))

Fairness == LoopFairness /\ HeartbeatFairness

FairSpec == Spec /\ Fairness

-----------------------------------------------------------------------------
(* Properties.                                                             *)

TaskPCs ==
  {"idle", "claim", "mark", "generate", "get1", "poll", "polling", "get2", "changed",
   "admit", "check", "fence", "native", "press", "readback", "close", "settle",
   "ownerReplied", "afterFailure", "uncertain", "fail", "wake", "wakeEnd", "finally",
   "end", "recoverNew", "recoverGenerating", "recoverMark", "recoverAdmit",
   "recoverRead", "recoverVerify"}
Outcomes == {"none", "verified", "submitted-uncertain", "owner", "error", "recovered",
             "unproven"}
Task == [pc : TaskPCs, key : Key \cup {NoKey}, halted : BOOLEAN, outcome : Outcomes]
ChatMessage == [from : {"contact", "owner", "bot"}, key : Key \cup {NoKey}, late : BOOLEAN]

ServiceTypeOK ==
  /\ StoreTypeOK
  /\ chat \in [Contacts -> Seq(ChatMessage)]
  /\ orphans \subseteq Key
  /\ revision \in [Contacts -> 1 .. MaxRevision]
  /\ lifecycle \in {"running", "stopping", "stopped", "down"}
  /\ epoch \in 0 .. MaxEpoch
  /\ session \in [Contacts -> 1 .. MaxRevision]
  /\ seen \in [Contacts -> Nat]
  /\ timer \in [Contacts -> SUBSET {"arming", "set"}]
  /\ poll \in [Contacts -> [pc : {"idle", "next", "schedule", "cancel", "wake", "commit"},
                            upto : Nat]]
  /\ replacing \in [Contacts -> {"no", "cancel", "wake", "start"}]
  /\ task \in [Procs -> Task]
  /\ gate \in SUBSET (Procs \cup {P0, P0Asking})
  /\ announced \subseteq Contacts
  /\ faults \in 0 .. MaxFaults

(* A reply is submitted at most once, whatever tasks deliver it, recover it  *)
(* or retry it, and however often the process restarts in between.          *)
SubmittedOnce ==
  \A i \in DOMAIN records : Cardinality(Sent(records[i].key)) <= 1

(* A reply the ledger calls verified is in the chat.                        *)
VerifiedWasSubmitted ==
  \A i \in DOMAIN records :
    records[i].status = "verified" => Sent(records[i].key) # {}

(* The ledger tells the truth of the chat, in both directions.              *)
LedgerIsTrue == SubmittedOnce /\ VerifiedWasSubmitted

(* Between the last message a reply answers and the reply itself the chat    *)
(* has only messages that arrived while the native key press was under way:  *)
(* no reply is submitted over a message that any earlier check could see.    *)
NothingSlipsIn ==
  \A c \in Contacts : \A n \in DOMAIN chat[c] :
    chat[c][n].from = "bot" =>
      \A j \in Last(chat[c][n].key.messages) + 1 .. n - 1 : chat[c][j].late

(* A reply is cancelled as OWNER_REPLIED only when the chat has moved past   *)
(* the last message it answers.                                            *)
OwnerRepliedIsTrue ==
  \A i \in DOMAIN records :
    records[i].status = "cancelled" /\ records[i].reason = "OWNER_REPLIED" =>
      Len(chat[records[i].key.contact]) > Last(records[i].key.messages)

(* No batch waits for a wakeup that never comes: when nothing of a contact   *)
(* is under way, a buffered batch has its timer, or an active reply whose    *)
(* end will wake it.                                                        *)
Quiet(c) ==
  /\ \A p \in Procs : p[2] = c => At(p, "idle")
  /\ poll[c] = NoPoll
  /\ replacing[c] = "no"

NoStrandedBatch ==
  \A c \in Contacts :
    Running /\ batches[c] # NoBatch /\ Quiet(c) => timer[c] # {} \/ HasActive(c)

(* While a batch is buffered by a running service, P0 is told so.           *)
BufferedIsAnnounced ==
  \A c \in Contacts : Running /\ batches[c] # NoBatch => c \in announced

(* The ledger and the chat together keep the promise of ReplyOnce.  As the   *)
(* compare-and-set does, the phase of a trigger is that of its first record. *)
PhaseWhen(s) ==
  CASE s \in PreSubmit -> "open"
    [] s \in Fenced -> "fenced"
    [] s = "verified" -> "verified"
    [] OTHER -> "dropped"

PhaseOf(k) ==
  IF \E i \in DOMAIN records : records[i].key = k
    THEN PhaseWhen(records[CHOOSE i \in DOMAIN records : IsFirst(i, k)].status)
    ELSE "none"

Promise == INSTANCE ReplyOnce WITH
  phase <- [k \in Key |-> PhaseOf(k)],
  submissions <- [k \in Key |-> Cardinality(Sent(k))]

KeepsPromise == Promise!ReplySpec

(* While the process runs, a reply that may still be submitted is settled:    *)
(* submitted, cancelled or failed, and not left behind by a busy dispatcher,  *)
(* a lost race between its tasks or a stop of an earlier process.            *)
Submittable(i) == i \in DOMAIN records /\ records[i].status \in PreSubmit

RepliesSettle ==
  \A i \in 1 .. Cardinality(Messages) + MaxFaults : (Running /\ Submittable(i)) ~> (~Running \/ ~Submittable(i))

(* While the process runs, a buffered batch is claimed or cleared, unless a   *)
(* reply that may have been submitted keeps the contact.                     *)
BatchesDrain ==
  \A c \in Contacts :
    (Running /\ batches[c] # NoBatch)
      ~> (~Running \/ batches[c] = NoBatch
            \/ \E i \in DOMAIN records : records[i].key.contact = c
                                         /\ records[i].status \in Fenced)

(* No work of the service waits for good while its process runs.            *)
WorkDrains == RepliesSettle /\ BatchesDrain

=============================================================================

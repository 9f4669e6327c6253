---------------------------- MODULE InboundSource ----------------------------
(***************************************************************************)
(* What a contact writes, on its way from the window of WeChat to the       *)
(* service: conversation/native-ocr-inbound-source.ts over                  *)
(* storage/inbound-cursor-repository.ts, for one contact.                   *)
(*                                                                         *)
(* A message is its position in the chat; the source sees the end of the    *)
(* chat, as signatures (who wrote, and what), and remembers in the cursor   *)
(* the pane up to what it delivered.  When that is no longer the beginning   *)
(* of what it sees, only a proof helps: the list of conversations shows the  *)
(* latest message and its minute.  A proof that OCR may read or not is a     *)
(* choice at every read.                                                    *)
(*                                                                         *)
(* The service keeps one source for a contact, starts it once, polls it      *)
(* one call at a time and closes it when no poll runs (createSession,        *)
(* pollSession and closeOneSession of the service); a start it may close at   *)
(* any await.                                                              *)
(***************************************************************************)
EXTENDS Integers, Sequences, SequencesExt

CONSTANTS
  Sayings,        \* what a message may say
  Sizes,        \* how many messages the pane may show
  NoProof,      \* a read without evidence
  MaxMessages,  \* bound: the length of the chat
  MaxWindow,    \* bound: windows of WeChat
  MaxRevision,  \* bound: enrollments of the contact
  MaxEpoch,     \* bound: starts of the process
  MaxFaults     \* bound: rejected awaits

ASSUME SizesAssumption == Sizes \subseteq Nat \ {0}
ASSUME InboundBounds ==
  {MaxMessages, MaxWindow, MaxRevision, MaxEpoch, MaxFaults} \subseteq Nat

VARIABLES
  said,      \* the messages
  lastWindow,    \* the main window at the last read
  contactRevision,  \* the revision of the contact in the directory
  epoch,     \* the source epoch: every process draws one
  owned,     \* the process owns the live runtime
  cursor,    \* the cursor in the store
  status,    \* the status of the source, or "none" without one
  sourceRevision,    \* the revision the source was created for
  task,      \* the start or poll in progress
  handed,    \* what was handed to the handler
  since,     \* what the pane ended with when the session began
  faults     \* rejected awaits so far

saidVars == <<said, lastWindow>>
sourceVars == <<status, sourceRevision, task>>
processVars == <<epoch, owned>>
logVars == <<handed, since>>
inboundVars == <<saidVars, contactRevision, processVars, cursor, sourceVars, logVars, faults>>

Idle == [pc |-> "idle"]
NoCursor == [identity |-> <<0, 0>>, baseline |-> <<>>, consumed |-> {}, next |-> 1]

Identity == <<epoch, sourceRevision>>
Edge(pane) == IF pane = <<>> THEN 0 ELSE Last(pane)

(* messageSignatureHash, and the id of a message in the pane                 *)
Signature(m) == <<said[m].from, said[m].text>>
Hashes(pane) == [i \in DOMAIN pane |-> Signature(pane[i])]

EndOfChat(size) ==
  LET n == Len(said)
      k == IF n < size THEN n ELSE size
  IN [i \in 1 .. k |-> n - k + i]

(* parseAuthorizedLatestIncomingEvidence                                     *)
Evidence(w) ==
  {NoProof} \cup
    (IF said # <<>> /\ Last(said).from = "contact"
       THEN {[text |-> Last(said).text, minute |-> Last(said).minute, window |-> w]}
       ELSE {})

SourceInit ==
  /\ said \in {<<>>} \cup {<<[from |-> "contact", text |-> w, minute |-> 1]>> : w \in Sayings}
  /\ lastWindow = 1 /\ contactRevision = 1
  /\ epoch = 1 /\ owned = TRUE /\ cursor = NoCursor
  /\ status = "none" /\ sourceRevision = 0 /\ task = Idle
  /\ handed = <<>> /\ since = 0 /\ faults = 0

-----------------------------------------------------------------------------
(* Around the source.                                                       *)

Minute == IF said = <<>> THEN 1 ELSE Last(said).minute

(* The contact writes, in the minute of the message before or later, or the   *)
(* owner does.                                                              *)
SomebodyWrites ==
  /\ Len(said) < MaxMessages
  /\ \E from \in {"contact", "owner"}, w \in Sayings, later \in {0, 1} :
       /\ from = "owner" => later = 0
       /\ said' = Append(said, [from |-> from, text |-> w, minute |-> Minute + later])
  /\ UNCHANGED <<lastWindow, contactRevision, processVars, cursor, sourceVars, logVars, faults>>

ContactReenrolled ==
  /\ contactRevision < MaxRevision
  /\ contactRevision' = contactRevision + 1
  /\ UNCHANGED <<saidVars, processVars, cursor, sourceVars, logVars, faults>>

(* The owner of the live runtime closes; what runs is fenced from now on.    *)
OwnerCloses ==
  /\ owned
  /\ owned' = FALSE
  /\ UNCHANGED <<saidVars, contactRevision, epoch, cursor, sourceVars, logVars, faults>>

(* The process ends, wherever it is, and another one starts.                *)
Restarts ==
  /\ epoch < MaxEpoch
  /\ epoch' = epoch + 1 /\ owned' = TRUE
  /\ status' = "none" /\ sourceRevision' = 0 /\ task' = Idle
  /\ UNCHANGED <<saidVars, contactRevision, cursor, logVars, faults>>

AroundSource ==
  \/ SomebodyWrites
  \/ ContactReenrolled
  \/ OwnerCloses
  \/ Restarts

-----------------------------------------------------------------------------
(* Steps of the call in progress.                                           *)

(* A call goes on while its source is the one it began with.                *)
AtAwait(pc) == task.pc = pc /\ status \in {"starting", "processing"}
ResumeAt(pc) == task' = [task EXCEPT !.pc = pc]
SourceFault == faults < MaxFaults /\ faults' = faults + 1

SetStatus(state) == status' = state /\ task' = Idle /\ UNCHANGED sourceRevision

(* requireCurrentTarget: before the read and after it.                       *)
RequireCurrentTarget ==
  /\ contactRevision = sourceRevision
  /\ \/ AtAwait("start") /\ ResumeAt("start read")
     \/ AtAwait("start again") /\ ResumeAt("baseline")
     \/ AtAwait("poll") /\ owned /\ ResumeAt("poll read")
     \/ AtAwait("poll again") /\ owned /\ ResumeAt("compare")
  /\ UNCHANGED <<saidVars, contactRevision, processVars, cursor, status, sourceRevision, logVars, faults>>

(* The pane may show more or fewer messages than before, of a WeChat that    *)
(* may have restarted.                                                      *)
ReadSnapshot ==
  /\ AtAwait("start read") \/ (AtAwait("poll read") /\ owned)
  /\ lastWindow' \in lastWindow .. MaxWindow
  /\ \E size \in Sizes : \E proof \in Evidence(lastWindow') :
       task' = [task EXCEPT !.pc = IF @ = "start read" THEN "start again" ELSE "poll again",
                            !.pane = EndOfChat(size), !.proof = proof]
  /\ UNCHANGED <<said, contactRevision, processVars, cursor, status, sourceRevision, logVars, faults>>

-----------------------------------------------------------------------------
(* createSession, start and the end of a source.                            *)

Call(pc) == [pc |-> pc, pane |-> <<>>, proof |-> NoProof, left |-> <<>>, recovered |-> FALSE]

StartSource ==
  /\ owned /\ status = "none" /\ task = Idle
  /\ status' = "starting"
  /\ sourceRevision' = contactRevision
  /\ task' = Call("start")
  /\ UNCHANGED <<saidVars, contactRevision, processVars, cursor, logVars, faults>>

SameIdentity(identity) == cursor.identity = identity

(* establishBaseline: a cursor of this session stays.                       *)
EstablishBaseline ==
  /\ task.pc = "baseline"
  /\ IF SameIdentity(Identity)
       THEN UNCHANGED cursor
       ELSE cursor' = [identity |-> Identity, baseline |-> task.pane,
                       consumed |-> {task.proof} \ {NoProof}, next |-> 1]
  /\ since' = IF cursor.identity = Identity THEN since ELSE Edge(task.pane)

Started ==
  /\ AtAwait("baseline") /\ EstablishBaseline
  /\ SetStatus("waiting")
  /\ UNCHANGED <<saidVars, contactRevision, processVars, handed, faults>>

(* An await of the start is rejected, the cursor written or not; or the       *)
(* target is another by now.                                                *)
SourceStartFails ==
  /\ status = "starting"
  /\ \/ /\ task.pc # "baseline"
        /\ contactRevision # sourceRevision
        /\ UNCHANGED <<cursor, since, faults>>
     \/ SourceFault /\ UNCHANGED <<cursor, since>>
     \/ SourceFault /\ EstablishBaseline
  /\ SetStatus("blocked")
  /\ UNCHANGED <<saidVars, contactRevision, processVars, handed>>

(* OCR_SOURCE_LIFECYCLE_CHANGED: closed meanwhile, the start ends after the   *)
(* await it was at.                                                         *)
LifecycleChanged ==
  /\ status = "stopped"
  /\ UNCHANGED <<cursor, since>> \/ EstablishBaseline
  /\ status' = "none" /\ sourceRevision' = 0 /\ task' = Idle
  /\ UNCHANGED <<saidVars, contactRevision, processVars, handed, faults>>

(* stop and close, which wait for a poll and not for a start.               *)
CloseSource ==
  /\ \/ status = "starting" /\ status' = "stopped" /\ UNCHANGED sourceRevision
     \/ task = Idle /\ status # "none" /\ status' = "none" /\ sourceRevision' = 0
  /\ UNCHANGED <<saidVars, contactRevision, processVars, cursor, task, logVars, faults>>

-----------------------------------------------------------------------------
(* poll                                                                     *)

Poll ==
  /\ status \in {"waiting", "degraded"} /\ task = Idle
  /\ status' = "processing"
  /\ task' = Call("poll")
  /\ UNCHANGED <<saidVars, contactRevision, processVars, cursor, sourceRevision, logVars, faults>>

(* recoverFreshLatestIncoming                                               *)
RecoverFreshLatestIncoming ==
  IF task.proof # NoProof /\ task.proof \notin cursor.consumed
    THEN <<Last(task.pane)>> ELSE <<>>

(* messages.slice(baselineHashes.length)                                    *)
NewIn(baseline, pane) == SubSeq(pane, Len(baseline) + 1, Len(pane))

GoesOn == IsPrefix(Hashes(cursor.baseline), Hashes(task.pane))

(* The pane goes on where the cursor is, or its end is proved.  The cursor    *)
(* is always that of the source here: a poll that found another one would    *)
(* not settle.                                                              *)
Compares ==
  /\ AtAwait("compare") /\ owned /\ SameIdentity(Identity)
  /\ task' = [task EXCEPT
       !.pc = "deliver", !.recovered = ~GoesOn,
       !.left = IF GoesOn THEN NewIn(cursor.baseline, task.pane)
                  ELSE RecoverFreshLatestIncoming]
  /\ GoesOn \/ RecoverFreshLatestIncoming # <<>>
  /\ UNCHANGED <<saidVars, contactRevision, processVars, cursor, status, sourceRevision, logVars, faults>>

(* OCR_BASELINE_DISCONTINUITY                                               *)
Discontinuity ==
  /\ AtAwait("compare") /\ owned /\ SameIdentity(Identity)
  /\ ~GoesOn /\ RecoverFreshLatestIncoming = <<>>
  /\ SetStatus("degraded")
  /\ UNCHANGED <<saidVars, contactRevision, processVars, cursor, logVars, faults>>

(* refreshBaseline: nothing new, and a proof of what was delivered before.   *)
RefreshBaseline ==
  /\ AtAwait("deliver") /\ task.left = <<>>
  /\ task.proof # NoProof /\ task.proof \notin cursor.consumed
  /\ cursor' = [cursor EXCEPT !.baseline = task.pane, !.consumed = @ \cup {task.proof}]

Refreshes ==
  /\ owned
  /\ RefreshBaseline
  /\ UNCHANGED <<saidVars, contactRevision, processVars, sourceVars, logVars, faults>>

Following == Head(task.left)

Message == [identity |-> Identity, sequence |-> cursor.next, at |-> Following,
            since |-> since, recovered |-> task.recovered]

(* onMessage takes the message.                                             *)
HandsOver ==
  /\ AtAwait("deliver") /\ owned /\ task.left # <<>>
  /\ handed' = Append(handed, Message)
  /\ ResumeAt("commit")
  /\ UNCHANGED <<saidVars, contactRevision, processVars, cursor, status, sourceRevision, since, faults>>

(* A variant that moves over all it sees with the first message *)
WholePane == task.pane

(* The baseline of a commit: up to this message, or all that was seen when   *)
(* the end was proved.                                                      *)
CommittedPane ==
  IF task.recovered THEN task.pane
    ELSE SubSeq(task.pane, 1, Len(task.pane) - Len(task.left) + 1)

(* The proof is of this message when it reads like the latest.               *)
BoundProof ==
  IF Signature(Following) = Signature(Last(task.pane)) THEN {task.proof} \ {NoProof} ELSE {}

(* commitDelivered                                                          *)
CommitDelivered ==
  /\ AtAwait("commit")
  /\ cursor' = [cursor EXCEPT !.baseline = CommittedPane,
                              !.consumed = @ \cup BoundProof, !.next = @ + 1]

Commits ==
  /\ owned /\ CommitDelivered
  /\ task' = [task EXCEPT !.pc = "deliver", !.left = Tail(@)]
  /\ UNCHANGED <<saidVars, contactRevision, processVars, status, sourceRevision, logVars, faults>>

Delivered ==
  /\ AtAwait("deliver") /\ owned /\ task.left = <<>>
  /\ task.proof = NoProof \/ task.proof \in cursor.consumed
  /\ SetStatus("waiting")
  /\ UNCHANGED <<saidVars, contactRevision, processVars, cursor, logVars, faults>>

Polling == task # Idle /\ status = "processing"

(* An await of the poll is rejected: also the handler that had taken the     *)
(* message, and a commit that was written.                                  *)
PollFails ==
  /\ Polling
  /\ \/ UNCHANGED cursor
     \/ CommitDelivered
     \/ RefreshBaseline
  /\ SourceFault
  /\ SetStatus("degraded")
  /\ UNCHANGED <<saidVars, contactRevision, processVars, logVars>>

(* OCR_TARGET_IDENTITY_INVALID: the contact was seen with too little          *)
(* confidence, and the source stays blocked.                                *)
IdentityInvalid ==
  /\ AtAwait("compare") /\ owned
  /\ SourceFault
  /\ SetStatus("blocked")
  /\ UNCHANGED <<saidVars, contactRevision, processVars, cursor, logVars>>

(* The target is another: OCR_TARGET_AUTHORIZATION_CHANGED                   *)
AuthorizationChanged ==
  /\ AtAwait("poll") \/ AtAwait("poll read") \/ AtAwait("poll again")
  /\ owned /\ contactRevision # sourceRevision
  /\ SetStatus("blocked")
  /\ UNCHANGED <<saidVars, contactRevision, processVars, cursor, logVars, faults>>

(* LIVE_RUNTIME_CLOSED, after the commit that was on its way                 *)
Fenced ==
  /\ Polling /\ ~owned
  /\ \/ UNCHANGED cursor
     \/ CommitDelivered
     \/ RefreshBaseline
  /\ SetStatus("blocked")
  /\ UNCHANGED <<saidVars, contactRevision, processVars, logVars, faults>>

Source ==
  \/ RequireCurrentTarget
  \/ ReadSnapshot
  \/ Started
  \/ SourceStartFails
  \/ LifecycleChanged
  \/ Compares
  \/ Discontinuity
  \/ Refreshes
  \/ HandsOver
  \/ Commits
  \/ Delivered
  \/ PollFails
  \/ IdentityInvalid
  \/ AuthorizationChanged
  \/ Fenced

Service ==
  \/ StartSource
  \/ CloseSource
  \/ Poll

SourceNext == AroundSource \/ Service \/ Source

SourceSpec == SourceInit /\ [][SourceNext]_inboundVars
-----------------------------------------------------------------------------
Positions == 1 .. Len(said)
Session == {i \in DOMAIN handed : handed[i].identity = cursor.identity}

(* The cursor counts what the handler took, one by one, and stands where the  *)
(* last of them reads: a handler that fails, a process that ends or a commit  *)
(* of which nobody hears loses nothing (onMessage before commitDelivered).    *)
DeliveredBeforeCounted ==
  /\ \A n \in 1 .. cursor.next - 1 : \E i \in Session : handed[i].sequence = n
  /\ cursor.next > 1 =>
       \E i \in Session : /\ handed[i].sequence = cursor.next - 1
                          /\ Signature(handed[i].at) = Signature(Edge(cursor.baseline))

(* As long as no two messages read alike, the cursor passes no message that   *)
(* was not handed over, except those before a proved latest one              *)
(* (recoverFreshLatestIncoming), however the pane changes.  A session that   *)
(* began with an empty pane has nothing to hold what it sees against.        *)
Distinct == \A m, n \in Positions : Signature(m) = Signature(n) => m = n

NothingSlipsPast ==
  Distinct /\ since > 0 =>
    \A m \in since + 1 .. Edge(cursor.baseline) :
      \E i \in Session :
        \/ handed[i].at = m
        \/ handed[i].recovered /\ handed[i].at > m

(* What the cursor passes was handed over, or stands before what was proved:  *)
(* through handlers, reads and commits that fail, closes and restarts.       *)
CursorIsTrue == DeliveredBeforeCounted /\ NothingSlipsPast
=============================================================================

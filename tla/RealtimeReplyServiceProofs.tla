---------------------- MODULE RealtimeReplyServiceProofs ----------------------
(***************************************************************************)
(* The realtime reply service and the ledger it works on, for any contacts,  *)
(* bindings and messages, any batch limit and number of claims, restarts,    *)
(* enrollments and failures, and any set of deliverers.                      *)
(***************************************************************************)
EXTENDS RealtimeReplyService, FiniteSetTheorems, SequenceTheorems,
        WellFoundedInduction, TLAPS

(***************************************************************************)
(* The ledger by itself.                                                   *)
(***************************************************************************)

(* A batch that is appended to stays within what the schema accepts.        *)
LEMMA BufferedIsAccepted ==
  ASSUME StoreTypeOK,
         NEW c \in Contacts, NEW b \in Bindings, NEW m \in Messages,
         Cardinality(BufferedAfter(c, b, m)) <= MaxBatch
  PROVE  [binding |-> b, messages |-> BufferedAfter(c, b, m)] \in Batch
<1>1. batches[c] # NoBatch => batches[c].messages \subseteq Messages
  BY DEF StoreTypeOK, Batch, MessageSets
<1>2. BufferedAfter(c, b, m) \subseteq Messages /\ BufferedAfter(c, b, m) # {}
  BY <1>1 DEF BufferedAfter
<1> QED
  BY <1>2 DEF Batch, MessageSets

(* The key a batch is claimed under is a key the schema accepts.             *)
LEMMA BatchKeyIsKey ==
  ASSUME StoreTypeOK, NEW c \in Contacts, batches[c] # NoBatch
  PROVE  BatchKey(c) \in Key
  BY DEF StoreTypeOK, Batch, Key, BatchKey

(* A claim adds one record, at the end; nothing else changes.                *)
LEMMA AppendedRecord ==
  ASSUME StoreTypeOK, NEW k \in Key, records' = Append(records, NewRecord(k))
  PROVE  /\ records' \in Seq(Record)
         /\ DOMAIN records' = DOMAIN records \cup {Len(records) + 1}
         /\ Len(records) + 1 \notin DOMAIN records
         /\ \A i \in DOMAIN records : records'[i] = records[i]
         /\ records'[Len(records) + 1] = NewRecord(k)
<1>1. NewRecord(k) \in Record
  BY DEF NewRecord, Record, Status, Active, PreSubmit, Closed
<1>2. records \in Seq(Record)
  BY DEF StoreTypeOK
<1> QED
  BY <1>1, <1>2, AppendProperties

(* A compare-and-set rewrites one record to one the schema accepts, along a  *)
(* legal transition, and leaves its key alone.                              *)
LEMMA CompareAndSetEffect ==
  ASSUME StoreTypeOK, NEW k, NEW from, NEW to, NEW why,
         to \in Closed => why \in Reasons,
         CompareAndSet(k, from, to, why)
  PROVE  /\ records' \in Seq(Record)
         /\ batches' = batches
         /\ DOMAIN records' = DOMAIN records
         /\ \E i \in DOMAIN records :
              /\ <<from, to>> \in Transitions
              /\ records[i].status = from
              /\ records'[i].status = to
              /\ records'[i].key = records[i].key
              /\ \A j \in DOMAIN records \ {i} : records'[j] = records[j]
<1>1. PICK i \in DOMAIN records :
        /\ records[i].status = from
        /\ records' = [records EXCEPT ![i].status = to,
                                      ![i].reason = IF to \in Closed THEN why ELSE NoReason]
  BY DEF CompareAndSet
<1>2. records \in Seq(Record) /\ records[i] \in Record
  BY DEF StoreTypeOK
<1>3. <<from, to>> \in Transitions /\ to \in Status
  BY DEF CompareAndSet, Transitions, Status, Active, PreSubmit, Fenced, Terminal
<1> DEFINE new == [records[i] EXCEPT !.status = to,
                                     !.reason = IF to \in Closed THEN why ELSE NoReason]
<1>4. new \in Record /\ new.status = to /\ new.key = records[i].key
  BY <1>2, <1>3, ReasonsAssumption DEF Record
<1>5. records' = [records EXCEPT ![i] = new]
  BY <1>1, <1>2, <1>4 DEF Record
<1>6. records' \in Seq(Record) /\ DOMAIN records' = DOMAIN records
  BY <1>2, <1>4, <1>5
<1>7. records'[i] = new /\ \A j \in DOMAIN records \ {i} : records'[j] = records[j]
  BY <1>2, <1>5
<1> QED
  BY <1>1, <1>3, <1>4, <1>6, <1>7 DEF CompareAndSet

(* A cancellation sweep moves records of one contact that are still before   *)
(* their fence to cancelled, and leaves every other record alone.            *)
LEMMA CancelPreSubmitEffect ==
  ASSUME StoreTypeOK, NEW c, NEW why \in Reasons, NEW spared,
         CancelPreSubmit(c, why, spared)
  PROVE  /\ records' \in Seq(Record)
         /\ batches' = batches
         /\ DOMAIN records' = DOMAIN records
         /\ \A i \in DOMAIN records :
              \/ records'[i] = records[i]
              \/ /\ records[i].status \in PreSubmit
                 /\ records'[i].status = "cancelled"
                 /\ records'[i].key = records[i].key
<1>1. records \in Seq(Record) /\ \A i \in DOMAIN records : records[i] \in Record
  BY DEF StoreTypeOK
<1>2. records' = [i \in DOMAIN records |-> Cancelled(records[i], c, why, spared)]
  BY DEF CancelPreSubmit
<1>3. ASSUME NEW i \in DOMAIN records
      PROVE  /\ records'[i] \in Record
             /\ \/ records'[i] = records[i]
                \/ /\ records[i].status \in PreSubmit
                   /\ records'[i].status = "cancelled"
                   /\ records'[i].key = records[i].key
  BY <1>1, <1>2, ReasonsAssumption
     DEF Cancelled, Record, Closed, Status, Terminal
<1>4. records' \in Seq(Record) /\ DOMAIN records' = DOMAIN records
  BY <1>1, <1>2, <1>3
<1> QED
  BY <1>3, <1>4 DEF CancelPreSubmit

-----------------------------------------------------------------------------
(* Types.                                                                  *)

LEMMA StoreTypeInit == StoreInit => StoreTypeOK
  BY DEF StoreInit, StoreTypeOK

LEMMA StoreTypeStep == StoreTypeOK /\ [StoreNext]_storeVars => StoreTypeOK'
<1> SUFFICES ASSUME StoreTypeOK, [StoreNext]_storeVars PROVE StoreTypeOK'
  OBVIOUS
<1>1. ASSUME NEW c \in Contacts, NEW b \in Bindings, NEW m \in Messages,
             AppendBufferedMessage(c, b, m)
      PROVE  StoreTypeOK'
  BY <1>1, BufferedIsAccepted DEF AppendBufferedMessage, StoreTypeOK
<1>2. ASSUME NEW c \in Contacts, ClearBufferedBatch(c)
      PROVE  StoreTypeOK'
  BY <1>2 DEF ClearBufferedBatch, StoreTypeOK
<1>3. ASSUME NEW c \in Contacts, ClaimBufferedBatch(c)
      PROVE  StoreTypeOK'
  BY <1>3, BatchKeyIsKey, AppendedRecord DEF ClaimBufferedBatch, StoreTypeOK
<1>4. ASSUME NEW k \in Key, Claim(k)
      PROVE  StoreTypeOK'
  BY <1>4, AppendedRecord DEF Claim, StoreTypeOK
<1>5. ASSUME NEW k, NEW from, NEW to, NEW why \in Reasons,
             CompareAndSet(k, from, to, why)
      PROVE  StoreTypeOK'
  BY <1>5, CompareAndSetEffect DEF StoreTypeOK
<1>6. ASSUME NEW c \in Contacts, NEW why \in Reasons, NEW spared,
             CancelPreSubmit(c, why, spared)
      PROVE  StoreTypeOK'
  BY <1>6, CancelPreSubmitEffect DEF StoreTypeOK
<1>7. ASSUME UNCHANGED storeVars
      PROVE  StoreTypeOK'
  BY <1>7 DEF storeVars, StoreTypeOK
<1> QED
  BY <1>1, <1>2, <1>3, <1>4, <1>5, <1>6, <1>7 DEF StoreNext

(* Every document the ledger writes is one its schemas accept: a batch never  *)
(* outgrows the limit, a claimed reply carries its batch whole, and a closed  *)
(* reply has its reason.                                                     *)
THEOREM StoreTyped == StoreSpec => []StoreTypeOK
<1> QED
  BY StoreTypeInit, StoreTypeStep, PTL DEF StoreSpec

-----------------------------------------------------------------------------
(* One active reply per contact.                                           *)

(* The invariant survives a step in which every active record was active      *)
(* before, for the same contact, or is a claim's new record of a contact      *)
(* without one.                                                            *)
LEMMA ActiveWereActive ==
  ASSUME OneActivePerContact,
         \A i \in DOMAIN records' : records'[i].status \in Active =>
            /\ i \in DOMAIN records
            /\ records[i].status \in Active
            /\ records'[i].key.contact = records[i].key.contact
  PROVE  OneActivePerContact'
  BY DEF OneActivePerContact

LEMMA ClaimKeepsOneActive ==
  ASSUME StoreTypeOK, OneActivePerContact, NEW k \in Key, ~HasActive(k.contact),
         records' = Append(records, NewRecord(k))
  PROVE  OneActivePerContact'
<1> DEFINE n == Len(records) + 1
<1>1. /\ DOMAIN records' = DOMAIN records \cup {n}
      /\ \A i \in DOMAIN records : records'[i] = records[i]
      /\ records'[n].key = k
  BY AppendedRecord DEF NewRecord
<1>2. \A i \in DOMAIN records :
        records[i].status \in Active => records[i].key.contact # k.contact
  BY DEF HasActive
<1> HIDE DEF n
<1> QED
  BY <1>1, <1>2 DEF OneActivePerContact

LEMMA OneActiveStep ==
  StoreTypeOK /\ OneActivePerContact /\ [StoreNext]_storeVars => OneActivePerContact'
<1> SUFFICES ASSUME StoreTypeOK, OneActivePerContact, [StoreNext]_storeVars
             PROVE  OneActivePerContact'
  OBVIOUS
<1>1. ASSUME UNCHANGED records
      PROVE  OneActivePerContact'
  BY <1>1 DEF OneActivePerContact
<1>2. ASSUME NEW c \in Contacts, ClaimBufferedBatch(c)
      PROVE  OneActivePerContact'
  BY <1>2, BatchKeyIsKey, ClaimKeepsOneActive DEF ClaimBufferedBatch, BatchKey
<1>3. ASSUME NEW k \in Key, Claim(k)
      PROVE  OneActivePerContact'
  BY <1>3, ClaimKeepsOneActive DEF Claim
<1>4. ASSUME NEW k, NEW from, NEW to, NEW why \in Reasons,
             CompareAndSet(k, from, to, why)
      PROVE  OneActivePerContact'
  <2>1. /\ DOMAIN records' = DOMAIN records
        /\ \E i \in DOMAIN records :
             /\ <<from, to>> \in Transitions
             /\ records[i].status = from
             /\ records'[i].status = to
             /\ records'[i].key = records[i].key
             /\ \A j \in DOMAIN records \ {i} : records'[j] = records[j]
    BY <1>4, CompareAndSetEffect
  <2>2. from \in Active
    BY <2>1 DEF Transitions, Active, PreSubmit, Fenced
  <2> QED
    BY <2>1, <2>2, ActiveWereActive
<1>5. ASSUME NEW c \in Contacts, NEW why \in Reasons, NEW spared,
             CancelPreSubmit(c, why, spared)
      PROVE  OneActivePerContact'
  <2>1. "cancelled" \notin Active
    BY DEF Active, PreSubmit, Fenced
  <2> QED
    BY <1>5, <2>1, CancelPreSubmitEffect, ActiveWereActive
<1> QED
  BY <1>1, <1>2, <1>3, <1>4, <1>5
     DEF StoreNext, storeVars, AppendBufferedMessage, ClearBufferedBatch

(* However many processes call the repository, and in whatever order, a       *)
(* contact never has two replies in flight.                                 *)
THEOREM OneActive == StoreSpec => []OneActivePerContact
<1>1. StoreInit => OneActivePerContact
  BY DEF StoreInit, OneActivePerContact
<1> QED
  BY <1>1, OneActiveStep, StoreTyped, PTL DEF StoreSpec

-----------------------------------------------------------------------------
(* The life of a record.                                                   *)

LEMMA TransitionsGoOnward ==
  ASSUME NEW old, NEW new, new.key = old.key,
         <<old.status, new.status>> \in Transitions
  PROVE  Onward(old, new)
  BY DEF Transitions, Onward, Terminal, Fenced, PreSubmit

LEMMA CancellingIsOnward ==
  ASSUME NEW old, NEW new, new.key = old.key,
         old.status \in PreSubmit, new.status = "cancelled"
  PROVE  Onward(old, new)
  BY DEF Onward, Terminal, Fenced, PreSubmit

LEMMA UnchangedIsOnward == ASSUME NEW r PROVE Onward(r, r)
  BY DEF Onward, Fenced, Terminal

LEMMA OnwardStep ==
  StoreTypeOK /\ [StoreNext]_storeVars => [RecordsGoOnward]_records
<1> SUFFICES ASSUME StoreTypeOK, StoreNext, records' # records PROVE RecordsGoOnward
  BY DEF storeVars
<1>1. ASSUME NEW k \in Key, records' = Append(records, NewRecord(k))
      PROVE  RecordsGoOnward
  BY <1>1, AppendedRecord, UnchangedIsOnward DEF RecordsGoOnward
<1>2. ASSUME NEW c \in Contacts, ClaimBufferedBatch(c)
      PROVE  RecordsGoOnward
  BY <1>1, <1>2, BatchKeyIsKey DEF ClaimBufferedBatch
<1>3. ASSUME NEW k \in Key, Claim(k)
      PROVE  RecordsGoOnward
  BY <1>1, <1>3 DEF Claim
<1>4. ASSUME NEW k, NEW from, NEW to, NEW why \in Reasons,
             CompareAndSet(k, from, to, why)
      PROVE  RecordsGoOnward
  <2>1. PICK i \in DOMAIN records :
          /\ <<records[i].status, records'[i].status>> \in Transitions
          /\ records'[i].key = records[i].key
          /\ \A j \in DOMAIN records \ {i} : records'[j] = records[j]
    BY <1>4, CompareAndSetEffect
  <2>2. Onward(records[i], records'[i])
    BY <2>1, TransitionsGoOnward
  <2>3. DOMAIN records' = DOMAIN records
    BY <1>4, CompareAndSetEffect
  <2> QED
    BY <2>1, <2>2, <2>3, UnchangedIsOnward DEF RecordsGoOnward
<1>5. ASSUME NEW c \in Contacts, NEW why \in Reasons, NEW spared,
             CancelPreSubmit(c, why, spared)
      PROVE  RecordsGoOnward
  BY <1>5, CancelPreSubmitEffect, CancellingIsOnward, UnchangedIsOnward
     DEF RecordsGoOnward
<1> QED
  BY <1>2, <1>3, <1>4, <1>5 DEF StoreNext, AppendBufferedMessage, ClearBufferedBatch

(* A record only moves forward in its life, across every operation of every   *)
(* process: it is never removed, rebound or reopened, and once fenced it is    *)
(* never cancelled or failed.                                               *)
THEOREM RecordsNeverReopened == StoreSpec => NeverReopened
  BY OnwardStep, StoreTyped, PTL DEF StoreSpec, NeverReopened

(***************************************************************************)
(* Types.                                                                  *)
(***************************************************************************)

(* A task carries a reply of its own contact, and knows what became of the    *)
(* dispatcher session it closes.                                            *)
Keyless == {"idle", "claim", "end"}

TaskOK ==
  /\ task \in [Procs -> Task]
  /\ \A p \in Procs : task[p].key = NoKey => task[p].pc \in Keyless
  /\ \A p \in Procs : task[p].key # NoKey => task[p].key.contact = p[2]
  /\ \A p \in Procs : At(p, "close") => task[p].outcome # "none"

(* What is buffered is one of Messages, under one of the Bindings.           *)
ChatOK ==
  /\ chat \in [Contacts -> Seq(ChatMessage)]
  /\ \A c \in Contacts : \A n \in DOMAIN chat[c] : chat[c][n].from = "contact" => n \in Messages

PollOK ==
  /\ seen \in [Contacts -> Nat]
  /\ poll \in [Contacts -> [pc : {"idle", "next", "schedule", "cancel", "wake", "commit"},
                            upto : Nat]]
  /\ \A c \in Contacts : poll[c].upto <= Len(chat[c])

EpochOK ==
  /\ revision \in [Contacts -> 1 .. MaxRevision]
  /\ session \in [Contacts -> 1 .. MaxRevision]
  /\ epoch \in 0 .. MaxEpoch
  /\ lifecycle \in {"running", "stopping", "stopped", "down"}
  /\ lifecycle # "down" => epoch > 0

RestOK ==
  /\ timer \in [Contacts -> SUBSET {"arming", "set"}]
  /\ replacing \in [Contacts -> {"no", "cancel", "wake", "start"}]
  /\ gate \in SUBSET (Procs \cup {P0, P0Asking})
  /\ announced \subseteq Contacts
  /\ faults \in 0 .. MaxFaults

OrphansOK == orphans \subseteq Key

(* Between two processes nothing is under way.                              *)
Asleep ==
  lifecycle = "down" =>
    /\ \A p \in Procs : At(p, "idle")
    /\ \A c \in Contacts : poll[c] = NoPoll /\ timer[c] = {} /\ replacing[c] = "no"

Typed == StoreTypeOK /\ TaskOK /\ ChatOK /\ PollOK /\ EpochOK /\ RestOK /\ OrphansOK /\ Asleep

LEMMA TypedImpliesTypeOK == Typed => ServiceTypeOK
  BY DEF Typed, TaskOK, ChatOK, PollOK, EpochOK, RestOK, OrphansOK, ServiceTypeOK

LEMMA TypedInit == Init => Typed
<1> SUFFICES ASSUME Init PROVE Typed
  OBVIOUS
<1>1. StoreTypeOK
  BY StoreTypeInit DEF Init
<1>2. TaskOK
  BY DEF Init, TaskOK, Task, Idle, TaskPCs, Outcomes, At, Keyless
<1>3. ChatOK /\ PollOK
  BY DEF Init, ChatOK, PollOK, NoPoll
<1>4. EpochOK
  BY BoundsAssumption DEF Init, EpochOK
<1>5. RestOK
  <2>1. 0 \in 0 .. MaxFaults
    BY BoundsAssumption
  <2> QED
    BY <2>1 DEF Init, RestOK
<1> QED
  BY <1>1, <1>2, <1>3, <1>4, <1>5 DEF Typed, Init, OrphansOK, Asleep, At, Idle

-----------------------------------------------------------------------------
(* Tasks.                                                                  *)

LEMMA GotoKeeps ==
  ASSUME TaskOK, NEW p \in Procs, NEW l \in TaskPCs \ {"close"}, Goto(p, l),
         task[p].pc \notin Keyless \/ l \in Keyless
  PROVE  TaskOK'
  BY DEF TaskOK, Goto, Task, At

LEMMA CloseKeeps ==
  ASSUME TaskOK, NEW p \in Procs, NEW why \in Outcomes \ {"none"}, Close(p, why),
         task[p].pc \notin Keyless
  PROVE  TaskOK'
<1> DEFINE new == [task[p] EXCEPT !.pc = "close", !.outcome = why]
<1>1. task[p] \in Task
  BY DEF TaskOK
<1>2. new \in Task /\ new.key = task[p].key /\ new.outcome = why
  BY <1>1 DEF Task, TaskPCs
<1>3. task' = [task EXCEPT ![p] = new]
  BY <1>1 DEF Close, Task, TaskOK
<1> HIDE DEF new
<1> QED
  BY <1>2, <1>3 DEF TaskOK, At

LEMMA BeginKeeps ==
  ASSUME TaskOK, NEW p \in Procs, NEW l \in TaskPCs \ {"close"}, NEW k \in Key \cup {NoKey},
         k # NoKey => k.contact = p[2], k = NoKey => l \in Keyless,
         task' = [task EXCEPT ![p] = Begin(l, k)]
  PROVE  TaskOK'
  BY DEF TaskOK, Begin, Idle, Task, At, Outcomes

(* A step that rewrites many tasks keeps their replies and outcomes.         *)
LEMMA RewriteKeeps ==
  ASSUME TaskOK, task' \in [Procs -> Task],
         \A p \in Procs :
           /\ task'[p].key = task[p].key
           /\ task'[p].outcome = task[p].outcome
           /\ task'[p].pc = "close" => task[p].pc = "close"
           /\ task[p].pc \in Keyless => task'[p].pc \in Keyless
  PROVE  TaskOK'
  BY DEF TaskOK, At

LEMMA CASKeeps ==
  ASSUME TaskOK, NEW p \in Procs, NEW from, NEW to, NEW why,
         NEW yes \in TaskPCs \ {"close"}, NEW no \in TaskPCs \ {"close"},
         CAS(p, from, to, why, yes, no), task[p].pc \notin Keyless
  PROVE  TaskOK'
  BY GotoKeeps DEF CAS

LEMMA TaskDeliverStep ==
  ASSUME StoreTypeOK, TaskOK, NEW p \in Procs, DeliverNext(p)
  PROVE  TaskOK'
<1> USE DEF TaskPCs, Keyless, At
<1>1. ASSUME FlushClaims(p) PROVE TaskOK'
  <2>1. CASE Goto(p, "end")
    BY <2>1, GotoKeeps
  <2>2. ASSUME ClaimBufferedBatch(p[2]),
               task' = [task EXCEPT ![p].pc = "mark", ![p].key = BatchKey(p[2])]
        PROVE  TaskOK'
    <3> DEFINE k == BatchKey(p[2])
               new == [task[p] EXCEPT !.pc = "mark", !.key = k]
    <3>1. k \in Key /\ k.contact = p[2]
      BY <2>2, BatchKeyIsKey DEF ClaimBufferedBatch, BatchKey, Procs
    <3> HIDE DEF k
    <3>2. task[p] \in Task
      BY DEF TaskOK
    <3>3. new \in Task /\ new.key = k /\ k # NoKey /\ new.pc = "mark"
      BY <3>1, <3>2, NoKeyAssumption DEF Task
    <3>4. task' = [task EXCEPT ![p] = new]
      BY <2>2, <3>2 DEF Task, TaskOK, k
    <3> HIDE DEF new
    <3> QED
      BY <3>1, <3>3, <3>4 DEF TaskOK, At
  <2> QED
    BY <1>1, <2>1, <2>2 DEF FlushClaims
<1>2. ASSUME FlushMarks(p) \/ FlushGenerates(p) PROVE TaskOK'
  BY <1>2, CASKeeps, GotoKeeps DEF FlushMarks, FlushGenerates
<1>3. ASSUME Get1(p) \/ JoinPoll(p) \/ Get2(p) \/ CancelChanged(p) PROVE TaskOK'
  BY <1>3, CASKeeps, GotoKeeps DEF Get1, JoinPoll, Get2, CancelChanged
<1>4. ASSUME Admit(p) PROVE TaskOK'
  BY <1>4, GotoKeeps DEF Admit
<1>5. ASSUME Check(p) \/ FenceReply(p) \/ NativeCheck(p) \/ Press(p) \/ Readback(p)
      PROVE  TaskOK'
  BY <1>5, GotoKeeps, CloseKeeps
     DEF Check, FenceReply, NativeCheck, Press, Readback, Outcomes
<1>6. ASSUME CloseSession(p) PROVE TaskOK'
  <2>1. task[p].outcome \in {"verified", "submitted-uncertain", "owner", "error", "recovered",
                            "unproven"}
    BY <1>6 DEF CloseSession, TaskOK, Task, Outcomes
  <2> QED
    BY <1>6, <2>1, GotoKeeps DEF CloseSession
<1>7. ASSUME Settle(p) \/ CancelOwnerReplied(p) \/ CloseFailed(p) PROVE TaskOK'
  BY <1>7, CASKeeps DEF Settle, CancelOwnerReplied, CloseFailed
<1>8. ASSUME AfterFailure(p) \/ WakeContact(p) PROVE TaskOK'
  BY <1>8, GotoKeeps DEF AfterFailure, WakeContact
<1>9. ASSUME Finish(p) PROVE TaskOK'
  <2>1. task' = [task EXCEPT ![p] = Begin("idle", NoKey)]
    BY <1>9 DEF Finish, Begin, Idle
  <2> QED
    BY <2>1, BeginKeeps
<1> QED
  BY <1>1, <1>2, <1>3, <1>4, <1>5, <1>6, <1>7, <1>8, <1>9 DEF DeliverNext

LEMMA TaskRecoverStep ==
  ASSUME TaskOK, NEW p \in Procs, RecoverNext(p)
  PROVE  TaskOK'
<1> USE DEF TaskPCs, Keyless, At
<1>1. CASE RecoveryCloses(p) \/ RecoveryVerifies(p)
  BY <1>1, CASKeeps DEF RecoveryCloses, RecoveryVerifies
<1>2. CASE RecoveryAdmit(p) \/ RecoveryReads(p)
  BY <1>2, GotoKeeps, CloseKeeps DEF RecoveryAdmit, RecoveryReads, Outcomes
<1> QED
  BY <1>1, <1>2 DEF RecoverNext

(* The tick and the recovery start from a record of the contact.             *)
LEMMA TaskListStep ==
  ASSUME StoreTypeOK, TaskOK, NEW c \in Contacts, TickDelivers(c) \/ RecoveryLists(c)
  PROVE  TaskOK'
<1> USE DEF TaskPCs, Keyless
<1>1. ASSUME NEW i \in DOMAIN records
      PROVE  records[i].key \in Key /\ records[i].key # NoKey /\ records[i].status \in Status
  BY NoKeyAssumption DEF StoreTypeOK, Record
<1>2. CASE TickDelivers(c)
  <2>1. PICK i \in DOMAIN records :
          /\ records[i].key.contact = c
          /\ task' = [task EXCEPT ![<<"tick", c>>] = Begin("get1", records[i].key)]
    BY <1>2 DEF TickDelivers
  <2>2. <<"tick", c>> \in Procs /\ <<"tick", c>>[2] = c
    BY <1>2 DEF TickDelivers, Procs
  <2> QED
    BY <1>1, <2>1, <2>2, BeginKeeps
<1>3. CASE RecoveryLists(c)
  <2>1. PICK i \in Recoverable :
          /\ records[i].key.contact = c
          /\ task' = [task EXCEPT ![<<"recovery", c>>] =
                        Begin(RecoveryStep(records[i].status), records[i].key)]
    BY <1>3 DEF RecoveryLists
  <2>2. <<"recovery", c>> \in Procs /\ <<"recovery", c>>[2] = c
    BY <1>3 DEF RecoveryLists, Procs
  <2>3. i \in DOMAIN records /\ records[i].status \in Active
    BY DEF Recoverable
  <2>4. RecoveryStep(records[i].status) \in TaskPCs \ {"close"}
    BY <2>3 DEF RecoveryStep, Active, PreSubmit, Fenced
  <2> QED
    BY <1>1, <2>1, <2>2, <2>3, <2>4, BeginKeeps
<1> QED
  BY <1>2, <1>3

LEMMA TaskPollStep ==
  ASSUME TaskOK, NEW c \in Contacts,
         PollNext(c) \/ TimerArms(c) \/ TimerFires(c) \/ ReplaceNext(c)
  PROVE  TaskOK'
<1> USE DEF TaskPCs, Keyless
<1>1. ASSUME NEW l \in {"get2", "changed"}, PollSettles(c, l) PROVE TaskOK'
  BY <1>1, RewriteKeeps DEF PollSettles, TaskOK, Task, At
<1>2. ASSUME UNCHANGED task PROVE TaskOK'
  BY <1>2 DEF TaskOK, At
<1>3. CASE PollNext(c)
  BY <1>1, <1>2, <1>3
     DEF PollNext, TickPoll, PollDone, PollFails, ReceiveIncoming, PollSchedules,
         ReceiveOutgoing, PollCancels, PollWakes, PollCommits
<1>4. CASE TimerFires(c)
  <2>1. CASE task' = [task EXCEPT ![Flush(c)] = Begin("claim", NoKey)]
    <3>1. Flush(c) \in Procs
      BY <1>4 DEF TimerFires, Flush, Procs
    <3> QED
      BY <2>1, <3>1, BeginKeeps
  <2> QED
    BY <1>2, <1>4, <2>1 DEF TimerFires
<1>5. CASE ReplaceBegins(c)
  <2> DEFINE stopped(p) == IF p = Flush(c) /\ ~At(p, "idle")
                             THEN [task[p] EXCEPT !.halted = TRUE] ELSE task[p]
  <2>1. task' = [p \in Procs |-> stopped(p)]
    BY <1>5 DEF ReplaceBegins
  <2>2. ASSUME NEW p \in Procs
        PROVE  /\ stopped(p) \in Task
               /\ stopped(p).key = task[p].key
               /\ stopped(p).outcome = task[p].outcome
               /\ stopped(p).pc = task[p].pc
    <3>1. task[p] \in Task
      BY DEF TaskOK
    <3> QED
      BY <3>1 DEF Task
  <2> HIDE DEF stopped
  <2> QED
    BY <2>1, <2>2, RewriteKeeps
<1>6. CASE TimerArms(c) \/ ReplaceCancels(c) \/ ReplaceWakes(c) \/ ReplaceStarts(c)
  BY <1>2, <1>6 DEF TimerArms, ReplaceCancels, ReplaceWakes, ReplaceStarts
<1> QED
  BY <1>3, <1>4, <1>5, <1>6 DEF ReplaceNext

LEMMA TaskStep == Typed /\ [Next]_vars => TaskOK'
<1> SUFFICES ASSUME Typed, [Next]_vars PROVE TaskOK'
  OBVIOUS
<1> USE DEF Typed
<1>1. ASSUME UNCHANGED task PROVE TaskOK'
  BY <1>1 DEF TaskOK, At
<1>2. ASSUME NEW c \in Contacts, Write(c) \/ Reenroll(c) PROVE TaskOK'
  BY <1>1, <1>2 DEF Write, Reenroll, volatile
<1>3. CASE Start \/ StopCompletes \/ P0Asks \/ P0Takes \/ P0Releases
  BY <1>1, <1>3 DEF Start, StopCompletes, P0Asks, P0Takes, P0Releases
<1>4. CASE Stop
  <2> DEFINE stopped(p) == IF At(p, "idle") THEN task[p]
                             ELSE [task[p] EXCEPT !.halted = TRUE]
  <2>1. task' = [p \in Procs |-> stopped(p)]
    BY <1>4 DEF Stop
  <2>2. ASSUME NEW p \in Procs
        PROVE  /\ stopped(p) \in Task
               /\ stopped(p).key = task[p].key
               /\ stopped(p).outcome = task[p].outcome
               /\ stopped(p).pc = task[p].pc
    <3>1. task[p] \in Task
      BY DEF TaskOK
    <3> QED
      BY <3>1 DEF Task
  <2> HIDE DEF stopped
  <2> QED
    BY <2>1, <2>2, RewriteKeeps
<1>5. CASE Exit \/ Crash
  <2>1. task' = [p \in Procs |-> Idle]
    BY <1>5 DEF Exit, Crash, Down
  <2> QED
    BY <2>1 DEF TaskOK, Task, At, Idle, TaskPCs, Outcomes, Keyless
<1>6. ASSUME NEW k \in orphans, OrphanPresses(k) PROVE TaskOK'
  BY <1>1, <1>6 DEF OrphanPresses, volatile
<1>7. CASE UNCHANGED vars
  BY <1>1, <1>7 DEF vars, volatile
<1> QED
  BY <1>2, <1>3, <1>4, <1>5, <1>6, <1>7, TaskDeliverStep, TaskRecoverStep, TaskListStep,
     TaskPollStep DEF Next

-----------------------------------------------------------------------------
(* The chat, the polls and the sessions.                                    *)

LEMMA SayKeepsChat ==
  ASSUME ChatOK, PollOK, NEW c \in Contacts, NEW from \in {"contact", "owner", "bot"},
         NEW k \in Key \cup {NoKey}, Say(c, from, k),
         from = "contact" => Len(chat[c]) + 1 \in Messages
  PROVE  /\ ChatOK'
         /\ \A d \in Contacts : Len(chat[d]) <= Len(chat'[d])
<1> DEFINE late == Pressing(c)
           m == [from |-> from, key |-> k, late |-> late]
<1>1. late \in BOOLEAN
  BY DEF Pressing
<1>2. m.from = from
  OBVIOUS
<1>3. m \in ChatMessage
  <2> HIDE DEF late
  <2> QED
    BY <1>1 DEF ChatMessage
<1>4. chat' = [chat EXCEPT ![c] = Append(chat[c], m)]
  BY DEF Say, ChatOK
<1> HIDE DEF m
<1>5. chat[c] \in Seq(ChatMessage)
  BY DEF ChatOK
<1>6. /\ Append(chat[c], m) \in Seq(ChatMessage)
      /\ Len(Append(chat[c], m)) = Len(chat[c]) + 1
      /\ \A n \in 1 .. Len(chat[c]) : Append(chat[c], m)[n] = chat[c][n]
      /\ Append(chat[c], m)[Len(chat[c]) + 1] = m
  BY <1>3, <1>5
<1>7. chat' \in [Contacts -> Seq(ChatMessage)]
  BY <1>4, <1>6 DEF ChatOK
<1>8. ASSUME NEW d \in Contacts, NEW n \in DOMAIN chat'[d], chat'[d][n].from = "contact"
      PROVE  n \in Messages
  <2>1. CASE d # c
    BY <1>4, <1>8, <2>1 DEF ChatOK
  <2>2. CASE d = c
    <3>1. chat'[d] = Append(chat[c], m)
      BY <1>4, <2>2 DEF ChatOK
    <3>2. n \in 1 .. Len(chat[c]) + 1
      BY <1>5, <1>6, <1>8, <3>1
    <3>3. Len(chat[c]) \in Nat /\ DOMAIN chat[c] = 1 .. Len(chat[c])
      BY <1>5
    <3>4. CASE n \in 1 .. Len(chat[c])
      BY <1>6, <1>8, <3>1, <3>3, <3>4 DEF ChatOK
    <3>5. CASE n = Len(chat[c]) + 1
      BY <1>2, <1>6, <1>8, <3>1, <3>5
    <3> QED
      BY <3>2, <3>3, <3>4, <3>5
  <2> QED
    BY <2>1, <2>2
<1>9. ASSUME NEW d \in Contacts PROVE Len(chat[d]) <= Len(chat'[d])
  <2>1. chat[d] \in Seq(ChatMessage) /\ Len(chat[d]) \in Nat
    BY DEF ChatOK
  <2>2. CASE d = c
    <3>1. chat'[d] = Append(chat[c], m)
      BY <1>4, <2>2 DEF ChatOK
    <3> QED
      BY <1>6, <2>1, <2>2, <3>1
  <2>3. CASE d # c
    BY <1>4, <2>1, <2>3 DEF ChatOK
  <2> QED
    BY <2>2, <2>3
<1> QED
  BY <1>7, <1>8, <1>9 DEF ChatOK

(* The chat changes only by a message of the contact, the owner or the bot.   *)
LEMMA ChatStep ==
  ASSUME Typed, [Next]_vars
  PROVE  ChatOK' /\ \A c \in Contacts : Len(chat[c]) <= Len(chat'[c])
<1>1. CASE UNCHANGED chat
  BY <1>1 DEF Typed, ChatOK
<1>2. ASSUME NEW c \in Contacts, Write(c)
      PROVE  ChatOK' /\ \A d \in Contacts : Len(chat[d]) <= Len(chat'[d])
  BY <1>2, SayKeepsChat DEF Write, Typed
<1>3. ASSUME NEW p \in Procs, Press(p)
      PROVE  ChatOK' /\ \A d \in Contacts : Len(chat[d]) <= Len(chat'[d])
  <2>1. p[2] \in Contacts /\ task[p].key \in Key \cup {NoKey}
    BY DEF Typed, TaskOK, Task, Procs
  <2>2. CASE UNCHANGED chat
    BY <1>1, <2>2 DEF Typed, ChatOK
  <2>3. CASE Say(p[2], "bot", task[p].key)
    BY <2>1, <2>3, SayKeepsChat DEF Typed
  <2> QED
    BY <1>3, <2>2, <2>3 DEF Press
<1>4. ASSUME NEW c \in Contacts,
             \/ Reenroll(c) \/ PollNext(c) \/ ReplaceNext(c)
             \/ TimerArms(c) \/ TimerFires(c) \/ TickDelivers(c) \/ RecoveryLists(c)
      PROVE  UNCHANGED chat
  BY <1>4 DEF Reenroll, PollNext, ReplaceNext, TimerArms, TimerFires, TickDelivers,
     RecoveryLists, Rest, TickPoll, PollDone, PollFails, ReceiveIncoming, PollSchedules, ReceiveOutgoing,
     PollCancels, PollWakes, PollCommits, ReplaceBegins, ReplaceCancels, ReplaceWakes,
     ReplaceStarts
<1>5. ASSUME NEW p \in Procs, RecoverNext(p) \/ (DeliverNext(p) /\ ~Press(p))
      PROVE  UNCHANGED chat
  BY <1>5 DEF DeliverNext, RecoverNext, FlushClaims, FlushMarks, FlushGenerates, Get1,
     JoinPoll, Get2, CancelChanged, Admit, Check, FenceReply, NativeCheck, Readback,
     CloseSession, Settle, CancelOwnerReplied, AfterFailure, CloseFailed, WakeContact,
     Finish, RecoveryCloses, RecoveryAdmit, RecoveryReads, RecoveryVerifies, Rest
<1>6. ASSUME Start \/ Stop \/ StopCompletes \/ Exit \/ Crash \/ P0Asks \/ P0Takes \/ P0Releases
             \/ UNCHANGED vars
      PROVE  UNCHANGED chat
  BY <1>6 DEF Start, Stop, StopCompletes, Exit, Crash, Down, P0Asks, P0Takes, P0Releases,
     vars
<1>7. ASSUME NEW k \in orphans, OrphanPresses(k)
      PROVE  ChatOK' /\ \A d \in Contacts : Len(chat[d]) <= Len(chat'[d])
  <2>1. k \in Key /\ k.contact \in Contacts
    BY DEF Typed, OrphansOK, Key
  <2> QED
    BY <1>7, <2>1, SayKeepsChat DEF OrphanPresses, Typed
<1> QED
  BY <1>1, <1>2, <1>3, <1>4, <1>5, <1>6, <1>7 DEF Next

(* A poll sees no further than the chat.                                    *)
LEMMA PollMoves ==
  ASSUME Typed, NEW c \in Contacts,
         \A d \in Contacts : Len(chat[d]) <= Len(chat'[d]),
         \/ UNCHANGED poll
         \/ StartPoll(c)
         \/ \E l \in {"next", "schedule", "cancel", "wake", "commit"} : PollGoto(c, l)
         \/ poll' = [poll EXCEPT ![c] = NoPoll]
         \/ poll' = [d \in Contacts |-> NoPoll],
         ChatOK', seen' \in [Contacts -> Nat]
  PROVE  PollOK'
<1> DEFINE PollSet == [pc : {"idle", "next", "schedule", "cancel", "wake", "commit"}, upto : Nat]
<1>1. /\ poll \in [Contacts -> PollSet]
      /\ \A d \in Contacts : /\ poll[d].upto <= Len(chat[d]) /\ poll[d].upto \in Nat
                            /\ Len(chat[d]) \in Nat /\ Len(chat'[d]) \in Nat
  BY DEF Typed, PollOK, ChatOK
<1>2. NoPoll \in PollSet /\ NoPoll.upto = 0
  BY DEF NoPoll
<1>3. SUFFICES poll' \in [Contacts -> PollSet] /\ \A d \in Contacts : poll'[d].upto <= Len(chat'[d])
  BY DEF PollOK
<1>4. CASE UNCHANGED poll
  BY <1>1, <1>4
<1>5. CASE StartPoll(c)
  <2> DEFINE new == [pc |-> "next", upto |-> Len(chat[c])]
  <2>1. new \in PollSet /\ new.upto = Len(chat[c])
    BY <1>1
  <2>2. poll' = [poll EXCEPT ![c] = new]
    BY <1>5 DEF StartPoll
  <2> HIDE DEF new
  <2> QED
    BY <1>1, <2>1, <2>2
<1>6. ASSUME NEW l \in {"next", "schedule", "cancel", "wake", "commit"}, PollGoto(c, l)
      PROVE  poll' \in [Contacts -> PollSet] /\ \A d \in Contacts : poll'[d].upto <= Len(chat'[d])
  <2> DEFINE new == [poll[c] EXCEPT !.pc = l]
  <2>1. poll[c] \in PollSet
    BY <1>1
  <2>2. new \in PollSet /\ new.upto = poll[c].upto
    BY <2>1
  <2>3. poll' = [poll EXCEPT ![c] = new]
    BY <1>1, <1>6 DEF PollGoto
  <2> HIDE DEF new
  <2>4. poll' \in [Contacts -> PollSet]
    BY <1>1, <2>2, <2>3
  <2>5. \A d \in Contacts : poll'[d].upto = poll[d].upto
    BY <1>1, <2>2, <2>3
  <2> HIDE DEF PollSet
  <2> QED
    BY <1>1, <2>4, <2>5
<1>7. CASE poll' = [poll EXCEPT ![c] = NoPoll]
  BY <1>1, <1>2, <1>7
<1>8. CASE poll' = [d \in Contacts |-> NoPoll]
  BY <1>1, <1>2, <1>8
<1> QED
  BY <1>4, <1>5, <1>6, <1>7, <1>8

LEMMA PollStep ==
  ASSUME Typed, [Next]_vars
  PROVE  PollOK'
<1>1. ChatOK' /\ \A d \in Contacts : Len(chat[d]) <= Len(chat'[d])
  BY ChatStep
<1>2. \A d \in Contacts : Len(chat[d]) \in Nat
  BY DEF Typed, ChatOK
<1>3. seen \in [Contacts -> Nat]
  BY DEF Typed, PollOK
<1>4. ASSUME NEW c \in Contacts, PollNext(c) PROVE PollOK'
  <2>1. seen' \in [Contacts -> Nat]
    BY <1>3, <1>4 DEF PollNext, TickPoll, PollDone, PollFails, ReceiveIncoming, PollSchedules,
       ReceiveOutgoing, PollCancels, PollWakes, PollCommits
  <2>2. \/ StartPoll(c)
        \/ \E l \in {"next", "schedule", "cancel", "wake", "commit"} : PollGoto(c, l)
        \/ poll' = [poll EXCEPT ![c] = NoPoll]
    BY <1>4 DEF PollNext, TickPoll, PollDone, PollFails, ReceiveIncoming, PollSchedules,
       ReceiveOutgoing, PollCancels, PollWakes, PollCommits, PollSettles
  <2> QED
    BY <1>1, <2>1, <2>2, PollMoves
<1>5. ASSUME NEW p \in Procs, JoinPoll(p) PROVE PollOK'
  <2>1. p[2] \in Contacts
    BY DEF Procs
  <2>2. UNCHANGED poll \/ StartPoll(p[2])
    BY <1>5 DEF JoinPoll
  <2>3. seen' = seen
    BY <1>5 DEF JoinPoll
  <2> QED
    BY <1>1, <1>3, <2>1, <2>2, <2>3, PollMoves
<1>6. ASSUME NEW c \in Contacts, UNCHANGED poll, seen' \in [Contacts -> Nat] PROVE PollOK'
  BY <1>1, <1>6, PollMoves
<1>7. CASE UNCHANGED <<poll, seen>>
  BY <1>1, <1>2, <1>7 DEF Typed, PollOK, ChatOK
<1>8. ASSUME NEW c \in Contacts, ReplaceNext(c) PROVE PollOK'
  <2>1. seen' \in [Contacts -> Nat] /\ UNCHANGED poll
    BY <1>2, <1>3, <1>8 DEF ReplaceNext, ReplaceBegins, ReplaceCancels, ReplaceWakes, ReplaceStarts
  <2> QED
    BY <1>6, <2>1
<1>9. CASE Start
  <2>1. seen' \in [Contacts -> Nat] /\ UNCHANGED poll
    BY <1>2, <1>9 DEF Start
  <2> QED
    BY <1>1, <1>2, <2>1 DEF Typed, PollOK, ChatOK
<1>10. CASE Exit \/ Crash
  <2>1. seen' = seen /\ poll' = [d \in Contacts |-> NoPoll]
    BY <1>10 DEF Exit, Crash, Down
  <2> QED
    BY <1>1, <1>3, <2>1 DEF PollOK, ChatOK, NoPoll
<1>11. ASSUME NEW c \in Contacts,
              \/ Write(c) \/ Reenroll(c)
              \/ TimerArms(c) \/ TimerFires(c) \/ TickDelivers(c) \/ RecoveryLists(c)
       PROVE  UNCHANGED <<poll, seen>>
  BY <1>11 DEF Write, Reenroll, TimerArms, TimerFires, TickDelivers, RecoveryLists, Rest, volatile
<1>12. ASSUME NEW p \in Procs, RecoverNext(p) \/ (DeliverNext(p) /\ ~JoinPoll(p))
       PROVE  UNCHANGED <<poll, seen>>
  BY <1>12 DEF DeliverNext, RecoverNext, FlushClaims, FlushMarks, FlushGenerates, Get1,
     Get2, CancelChanged, Admit, Check, FenceReply, NativeCheck, Press, Readback,
     CloseSession, Settle, CancelOwnerReplied, AfterFailure, CloseFailed, WakeContact,
     Finish, RecoveryCloses, RecoveryAdmit, RecoveryReads, RecoveryVerifies, Rest
<1>13. CASE Stop \/ StopCompletes \/ P0Asks \/ P0Takes \/ P0Releases \/ UNCHANGED vars
  BY <1>7, <1>13 DEF Stop, StopCompletes, P0Asks, P0Takes, P0Releases, vars, volatile
<1>14. ASSUME NEW k \in orphans, OrphanPresses(k) PROVE PollOK'
  BY <1>7, <1>14 DEF OrphanPresses, volatile
<1> QED
  BY <1>4, <1>5, <1>7, <1>8, <1>9, <1>10, <1>11, <1>12, <1>13, <1>14 DEF Next

LEMMA EpochStep ==
  ASSUME Typed, [Next]_vars
  PROVE  EpochOK'
<1> USE DEF Typed, EpochOK
<1>1. CASE UNCHANGED <<revision, session, epoch, lifecycle>>
  BY <1>1
<1>2. ASSUME NEW c \in Contacts, Reenroll(c) PROVE EpochOK'
  <2>1. revision[c] + 1 \in 1 .. MaxRevision
    BY <1>2, BoundsAssumption DEF Reenroll
  <2> QED
    BY <1>2, <2>1 DEF Reenroll, volatile
<1>3. ASSUME NEW c \in Contacts, ReplaceStarts(c) PROVE EpochOK'
  BY <1>3 DEF ReplaceStarts
<1>4. CASE Start
  BY <1>4, BoundsAssumption DEF Start
<1>5. CASE Stop \/ StopCompletes \/ Exit \/ Crash
  BY <1>5 DEF Stop, StopCompletes, Exit, Crash, Down, Running
<1>6. ASSUME NEW c \in Contacts,
             \/ Write(c) \/ PollNext(c) \/ (ReplaceNext(c) /\ ~ReplaceStarts(c))
             \/ TimerArms(c) \/ TimerFires(c) \/ TickDelivers(c) \/ RecoveryLists(c)
      PROVE  UNCHANGED <<revision, session, epoch, lifecycle>>
  BY <1>6 DEF Write, PollNext, ReplaceNext, TimerArms, TimerFires, TickDelivers,
     RecoveryLists, Rest, TickPoll, PollDone, PollFails, ReceiveIncoming, PollSchedules, ReceiveOutgoing,
     PollCancels, PollWakes, PollCommits, ReplaceBegins, ReplaceCancels, ReplaceWakes, volatile
<1>7. ASSUME NEW p \in Procs, RecoverNext(p) \/ DeliverNext(p)
      PROVE  UNCHANGED <<revision, session, epoch, lifecycle>>
  BY <1>7 DEF DeliverNext, RecoverNext, FlushClaims, FlushMarks, FlushGenerates, Get1,
     JoinPoll, Get2, CancelChanged, Admit, Check, FenceReply, NativeCheck, Press, Readback,
     CloseSession, Settle, CancelOwnerReplied, AfterFailure, CloseFailed, WakeContact,
     Finish, RecoveryCloses, RecoveryAdmit, RecoveryReads, RecoveryVerifies, Rest
<1>8. CASE P0Asks \/ P0Takes \/ P0Releases \/ UNCHANGED vars
  BY <1>1, <1>8 DEF P0Asks, P0Takes, P0Releases, vars, volatile
<1>9. ASSUME NEW k \in orphans, OrphanPresses(k) PROVE EpochOK'
  BY <1>1, <1>9 DEF OrphanPresses, volatile
<1> QED
  BY <1>1, <1>2, <1>3, <1>4, <1>5, <1>6, <1>7, <1>8, <1>9 DEF Next, ReplaceNext

-----------------------------------------------------------------------------
(* Timers, announcements, the dispatcher and the failures.                   *)

LEMMA RestStep ==
  ASSUME Typed, [Next]_vars
  PROVE  RestOK'
<1> DEFINE Timers == [Contacts -> SUBSET {"arming", "set"}]
           TimerOK == timer' \in Timers
           ReplacingOK == replacing' \in [Contacts -> {"no", "cancel", "wake", "start"}]
           GateOK == gate' \in SUBSET (Procs \cup {P0, P0Asking})
           OtherOK == announced' \subseteq Contacts /\ faults' \in 0 .. MaxFaults
           Good == TimerOK /\ ReplacingOK /\ GateOK /\ OtherOK
<1>1. SUFFICES Good
  BY DEF RestOK
<1>2. /\ timer \in Timers
      /\ replacing \in [Contacts -> {"no", "cancel", "wake", "start"}]
      /\ gate \in SUBSET (Procs \cup {P0, P0Asking})
      /\ announced \subseteq Contacts
      /\ faults \in 0 .. MaxFaults
  BY DEF Typed, RestOK
<1>3. /\ Fault => faults' \in 0 .. MaxFaults
      /\ NoFault => faults' \in 0 .. MaxFaults
  BY <1>2, BoundsAssumption DEF Fault, NoFault
<1>4. \A c \in Contacts :
        Scheduled(c) \in Timers /\ Armed(c) \in Timers /\ Cleared(c) \in Timers
  BY <1>2 DEF Scheduled, Armed, Cleared
<1>5. /\ Waiting \subseteq Contacts
      /\ Released \subseteq Contacts
      /\ \A c \in Contacts : Announced(c) \subseteq Contacts
  BY <1>2 DEF Waiting, Released, Announced
<1>6. ASSUME NEW c \in Contacts, Write(c) \/ Reenroll(c) PROVE Good
  BY <1>2, <1>6 DEF Write, Reenroll, volatile
<1>7. ASSUME NEW c \in Contacts, PollNext(c) PROVE Good
  <2>1. timer' \in {Scheduled(c), Armed(c), Cleared(c), timer}
    BY <1>7 DEF PollNext, TickPoll, PollDone, PollFails, ReceiveIncoming, PollSchedules,
       ReceiveOutgoing, PollCancels, PollWakes, PollCommits
  <2>2. announced' \subseteq Contacts
    BY <1>2, <1>5, <1>7 DEF PollNext, TickPoll, PollDone, PollFails, ReceiveIncoming,
       PollSchedules, ReceiveOutgoing, PollCancels, PollWakes, PollCommits
  <2>3. UNCHANGED <<replacing, gate>> /\ (Fault \/ NoFault)
    BY <1>7 DEF PollNext, TickPoll, PollDone, PollFails, ReceiveIncoming, PollSchedules,
       ReceiveOutgoing, PollCancels, PollWakes, PollCommits, NoFault
  <2> QED
    BY <1>2, <1>3, <1>4, <2>1, <2>2, <2>3
<1>8. ASSUME NEW c \in Contacts, ReplaceNext(c) PROVE Good
  <2>1. timer' \in {Scheduled(c), Cleared(c), timer}
    BY <1>8 DEF ReplaceNext, ReplaceBegins, ReplaceCancels, ReplaceWakes, ReplaceStarts
  <2>2. announced' = announced \/ announced' = Announced(c)
    BY <1>8 DEF ReplaceNext, ReplaceBegins, ReplaceCancels, ReplaceWakes, ReplaceStarts
  <2>3. ReplacingOK /\ UNCHANGED <<gate, faults>>
    BY <1>2, <1>8 DEF ReplaceNext, ReplaceBegins, ReplaceCancels, ReplaceWakes, ReplaceStarts
  <2> QED
    BY <1>2, <1>4, <1>5, <2>1, <2>2, <2>3
<1>9. ASSUME NEW c \in Contacts,
             TimerArms(c) \/ TimerFires(c) \/ TickDelivers(c) \/ RecoveryLists(c)
      PROVE  Good
  BY <1>2, <1>4, <1>9 DEF TimerArms, TimerFires, TickDelivers, RecoveryLists, Rest
<1>10. ASSUME NEW p \in Procs, DeliverNext(p) \/ RecoverNext(p) PROVE Good
  <2>0. p[2] \in Contacts
    BY DEF Procs
  <2>1. timer' = timer \/ timer' = Scheduled(p[2])
    BY <1>10 DEF DeliverNext, RecoverNext, FlushClaims, FlushMarks, FlushGenerates, Get1,
       JoinPoll, Get2, CancelChanged, Admit, Check, FenceReply, NativeCheck, Press, Readback,
       CloseSession, Settle, CancelOwnerReplied, AfterFailure, CloseFailed, WakeContact,
       Finish, RecoveryCloses, RecoveryAdmit, RecoveryReads, RecoveryVerifies, Rest
  <2>2. replacing' = replacing
    BY <1>10 DEF DeliverNext, RecoverNext, FlushClaims, FlushMarks, FlushGenerates, Get1,
       JoinPoll, Get2, CancelChanged, Admit, Check, FenceReply, NativeCheck, Press, Readback,
       CloseSession, Settle, CancelOwnerReplied, AfterFailure, CloseFailed, WakeContact,
       Finish, RecoveryCloses, RecoveryAdmit, RecoveryReads, RecoveryVerifies, Rest
  <2>3. gate' = gate \/ gate' = {p} \/ gate' = gate \ {p}
    BY <1>10 DEF DeliverNext, RecoverNext, FlushClaims, FlushMarks, FlushGenerates, Get1,
       JoinPoll, Get2, CancelChanged, Admit, Check, FenceReply, NativeCheck, Press, Readback,
       CloseSession, Settle, CancelOwnerReplied, AfterFailure, CloseFailed, WakeContact,
       Finish, RecoveryCloses, RecoveryAdmit, RecoveryReads, RecoveryVerifies, Rest
  <2>4. \/ announced' = announced \/ announced' = Released \/ announced' = Announced(p[2])
        \/ announced' = announced \cup Waiting \/ announced' = {}
    <3>1. CASE Finish(p)
      <4>1. announced' \in {announced, announced \cup Waiting, announced \cup {}, {}}
        BY <3>1 DEF Finish
      <4> QED
        BY <4>1
    <3>2. CASE ~Finish(p)
      BY <1>10, <3>2 DEF DeliverNext, RecoverNext, FlushClaims, FlushMarks, FlushGenerates,
         Get1, JoinPoll, Get2, CancelChanged, Admit, Check, FenceReply, NativeCheck, Press,
         Readback, CloseSession, Settle, CancelOwnerReplied, AfterFailure, CloseFailed,
         WakeContact, RecoveryCloses, RecoveryAdmit, RecoveryReads, RecoveryVerifies, Rest
    <3> QED
      BY <3>1, <3>2
  <2>5. Fault \/ NoFault
    BY <1>10 DEF DeliverNext, RecoverNext, FlushClaims, FlushMarks, FlushGenerates, Get1,
       JoinPoll, Get2, CancelChanged, Admit, Check, FenceReply, NativeCheck, Press, Readback,
       CloseSession, Settle, CancelOwnerReplied, AfterFailure, CloseFailed, WakeContact,
       Finish, RecoveryCloses, RecoveryAdmit, RecoveryReads, RecoveryVerifies, Rest, NoFault
  <2> QED
    BY <1>2, <1>3, <1>4, <1>5, <2>0, <2>1, <2>2, <2>3, <2>4, <2>5
<1>11. CASE Start \/ Stop \/ StopCompletes \/ Exit \/ Crash
  BY <1>2, <1>11 DEF Start, Stop, StopCompletes, Exit, Crash, Down
<1>12. CASE P0Asks \/ P0Takes \/ P0Releases \/ UNCHANGED vars
  BY <1>2, <1>12 DEF P0Asks, P0Takes, P0Releases, vars, volatile
<1>13. ASSUME NEW k \in orphans, OrphanPresses(k) PROVE Good
  BY <1>2, <1>13 DEF OrphanPresses, volatile
<1> QED
  BY <1>6, <1>7, <1>8, <1>9, <1>10, <1>11, <1>12, <1>13 DEF Next

LEMMA OrphansStep ==
  ASSUME Typed, [Next]_vars
  PROVE  OrphansOK'
<1>1. CASE UNCHANGED orphans
  BY <1>1 DEF Typed, OrphansOK
<1>2. CASE Crash
  <2>1. \A p \in Procs : At(p, "press") => task[p].key \in Key
    BY DEF Typed, TaskOK, Task, At, Keyless
  <2> QED
    BY <1>2, <2>1 DEF Crash, Typed, OrphansOK
<1>3. ASSUME NEW k \in orphans, OrphanPresses(k) PROVE OrphansOK'
  BY <1>3 DEF OrphanPresses, Typed, OrphansOK
<1>4. ASSUME NEW c \in Contacts,
             \/ Write(c) \/ Reenroll(c) \/ PollNext(c) \/ ReplaceNext(c)
             \/ TimerArms(c) \/ TimerFires(c) \/ TickDelivers(c) \/ RecoveryLists(c)
      PROVE  UNCHANGED orphans
  BY <1>4 DEF Write, Reenroll, PollNext, ReplaceNext, TimerArms, TimerFires, TickDelivers,
     RecoveryLists, Rest, TickPoll, PollDone, PollFails, ReceiveIncoming, PollSchedules,
     ReceiveOutgoing, PollCancels, PollWakes, PollCommits, ReplaceBegins, ReplaceCancels,
     ReplaceWakes, ReplaceStarts
<1>5. ASSUME NEW p \in Procs, DeliverNext(p) \/ RecoverNext(p)
      PROVE  UNCHANGED orphans
  BY <1>5 DEF DeliverNext, RecoverNext, FlushClaims, FlushMarks, FlushGenerates, Get1,
     JoinPoll, Get2, CancelChanged, Admit, Check, FenceReply, NativeCheck, Press, Readback,
     CloseSession, Settle, CancelOwnerReplied, AfterFailure, CloseFailed, WakeContact,
     Finish, RecoveryCloses, RecoveryAdmit, RecoveryReads, RecoveryVerifies, Rest
<1>6. CASE Start \/ Stop \/ StopCompletes \/ Exit \/ P0Asks \/ P0Takes \/ P0Releases
           \/ UNCHANGED vars
  BY <1>1, <1>6 DEF Start, Stop, StopCompletes, Exit, P0Asks, P0Takes, P0Releases, vars
<1> QED
  BY <1>1, <1>2, <1>3, <1>4, <1>5, <1>6 DEF Next

-----------------------------------------------------------------------------
(* A process that is down does nothing until it is started.                  *)

LEMMA AsleepStep ==
  ASSUME Typed, [Next]_vars
  PROVE  Asleep'
<1>1. CASE lifecycle' # "down"
  BY <1>1 DEF Asleep
<1>2. CASE Exit \/ Crash
  BY <1>2 DEF Exit, Crash, Down, Asleep, At, Idle
<1>3. ASSUME lifecycle' = "down", ~(Exit \/ Crash)
      PROVE  Asleep'
  <2>1. CASE lifecycle # "down"
    <3>1. ASSUME NEW c \in Contacts,
                 \/ Write(c) \/ Reenroll(c) \/ PollNext(c) \/ ReplaceNext(c)
                 \/ TimerArms(c) \/ TimerFires(c) \/ TickDelivers(c) \/ RecoveryLists(c)
          PROVE  lifecycle' = lifecycle
      BY <3>1 DEF Write, Reenroll, PollNext, ReplaceNext, TimerArms, TimerFires,
         TickDelivers, RecoveryLists, Rest, TickPoll, PollDone, PollFails, ReceiveIncoming, PollSchedules,
         ReceiveOutgoing, PollCancels, PollWakes, PollCommits, ReplaceBegins, ReplaceCancels,
         ReplaceWakes, ReplaceStarts, volatile
    <3>2. ASSUME NEW p \in Procs, DeliverNext(p) \/ RecoverNext(p)
          PROVE  lifecycle' = lifecycle
      BY <3>2 DEF DeliverNext, RecoverNext, FlushClaims, FlushMarks, FlushGenerates, Get1,
         JoinPoll, Get2, CancelChanged, Admit, Check, FenceReply, NativeCheck, Press, Readback,
         CloseSession, Settle, CancelOwnerReplied, AfterFailure, CloseFailed, WakeContact,
         Finish, RecoveryCloses, RecoveryAdmit, RecoveryReads, RecoveryVerifies, Rest
    <3>3. CASE Start \/ Stop \/ StopCompletes \/ P0Asks \/ P0Takes \/ P0Releases
               \/ UNCHANGED vars
      BY <1>3, <2>1, <3>3 DEF Start, Stop, StopCompletes, P0Asks, P0Takes, P0Releases, vars, volatile
    <3>4. ASSUME NEW k \in orphans, OrphanPresses(k) PROVE lifecycle' = lifecycle
      BY <3>4 DEF OrphanPresses, volatile
    <3> QED
      BY <1>3, <2>1, <3>1, <3>2, <3>3, <3>4 DEF Next
  <2>2. CASE lifecycle = "down"
    <3>0. /\ \A p \in Procs : At(p, "idle")
          /\ \A c \in Contacts : poll[c] = NoPoll /\ timer[c] = {} /\ replacing[c] = "no"
      BY <2>2 DEF Typed, Asleep
    <3>1. ASSUME NEW c \in Contacts,
                 \/ PollNext(c) \/ ReplaceNext(c)
                 \/ TimerArms(c) \/ TimerFires(c) \/ TickDelivers(c) \/ RecoveryLists(c)
          PROVE  FALSE
      BY <2>2, <3>0, <3>1 DEF PollNext, ReplaceNext, TimerArms, TimerFires, TickDelivers,
         RecoveryLists, TickPoll, PollDone, PollFails, ReceiveIncoming, PollSchedules,
         ReceiveOutgoing, PollCancels, PollWakes, PollCommits, ReplaceBegins, ReplaceCancels,
         ReplaceWakes, ReplaceStarts, Unseen, Running, NoPoll
    <3>2. ASSUME NEW p \in Procs, DeliverNext(p) \/ RecoverNext(p)
          PROVE  FALSE
      BY <3>0, <3>2 DEF DeliverNext, RecoverNext, FlushClaims, FlushMarks, FlushGenerates, Get1,
         JoinPoll, Get2, CancelChanged, Admit, Check, FenceReply, NativeCheck, Press, Readback,
         CloseSession, Settle, CancelOwnerReplied, AfterFailure, CloseFailed, WakeContact,
         Finish, RecoveryCloses, RecoveryAdmit, RecoveryReads, RecoveryVerifies, At
    <3>3. ASSUME NEW c \in Contacts, Write(c) \/ Reenroll(c)
          PROVE  UNCHANGED <<task, poll, timer, replacing>>
      BY <3>3 DEF Write, Reenroll, volatile
    <3>4. CASE Start \/ Stop \/ StopCompletes \/ P0Asks \/ P0Takes \/ P0Releases
               \/ UNCHANGED vars
      BY <1>3, <2>2, <3>0, <3>4 DEF Start, Stop, StopCompletes, Running, P0Asks, P0Takes, P0Releases, vars,
         volatile, Asleep, At
    <3>5. CASE UNCHANGED <<task, poll, timer, replacing>>
      BY <3>0, <3>5 DEF Asleep, At
    <3>6. ASSUME NEW k \in orphans, OrphanPresses(k)
          PROVE  UNCHANGED <<task, poll, timer, replacing>>
      BY <3>6 DEF OrphanPresses, volatile
    <3> QED
      BY <1>3, <3>1, <3>2, <3>3, <3>4, <3>5, <3>6 DEF Next
  <2> QED
    BY <2>1, <2>2
<1> QED
  BY <1>1, <1>2, <1>3

-----------------------------------------------------------------------------
(* What the service does to the ledger is what the repository's interface    *)
(* allows.                                                                  *)

LEMMA BuffersAreTyped ==
  ASSUME Typed, NEW c \in Contacts, Unseen(c, "contact")
  PROVE  Binding(c) \in Bindings /\ seen[c] + 1 \in Messages
<1>1. lifecycle # "down"
  BY DEF Typed, Asleep, Unseen, NoPoll
<1>2. epoch \in 1 .. MaxEpoch /\ session[c] \in 1 .. MaxRevision
  BY <1>1, BoundsAssumption DEF Typed, EpochOK
<1>3. /\ seen[c] \in Nat /\ poll[c].upto \in Nat /\ poll[c].upto <= Len(chat[c])
      /\ chat[c] \in Seq(ChatMessage)
  BY DEF Typed, PollOK, ChatOK
<1>4. seen[c] + 1 \in DOMAIN chat[c]
  BY <1>3 DEF Unseen
<1> QED
  BY <1>2, <1>4, BindingsAssumption DEF Binding, Typed, ChatOK, Unseen

LEMMA CompareAndSetIsAStoreStep ==
  ASSUME NEW k, NEW from, NEW to, NEW why \in Reasons \cup {NoReason},
         to \in Closed => why \in Reasons,
         CompareAndSet(k, from, to, why)
  PROVE  StoreNext
<1>1. PICK i \in DOMAIN records : k = records[i].key /\ <<from, to>> \in Transitions
  BY DEF CompareAndSet, IsFirst
<1>2. PICK r \in Reasons : CompareAndSet(records[i].key, from, to, r)
  <2>1. CASE to \in Closed
    BY <1>1, <2>1
  <2>2. CASE to \notin Closed
    BY <1>1, <2>2, ServiceReasonsAssumption DEF CompareAndSet
  <2> QED
    BY <2>1, <2>2
<1> DEFINE t == <<from, to>>
<1>3. t \in Transitions /\ CompareAndSet(records[i].key, t[1], t[2], r)
  BY <1>1, <1>2
<1> HIDE DEF t
<1> QED
  BY <1>3 DEF StoreNext

LEMMA CASIsAStoreStep ==
  ASSUME NEW p \in Procs, NEW from, NEW to, NEW why \in Reasons \cup {NoReason},
         to \in Closed => why \in Reasons,
         NEW yes, NEW no, CAS(p, from, to, why, yes, no)
  PROVE  [StoreNext]_storeVars
  BY CompareAndSetIsAStoreStep DEF CAS

LEMMA ServiceStoreStep ==
  ASSUME Typed, [Next]_vars
  PROVE  [StoreNext]_storeVars
<1>0. /\ {"OWNER_REPLIED", "CONTACT_CHANGED", "NO_REPLY", "SOURCE_BLOCKED",
          "RECOVERY_CANCELLED"} \subseteq Reasons
      /\ \A to \in {"new", "generating", "prepared", "submit-started", "submitted-uncertain",
                    "verified"} : to \notin Closed
  BY ServiceReasonsAssumption DEF Closed
<1>1. ASSUME NEW c \in Contacts, PollNext(c) PROVE [StoreNext]_storeVars
  <2>1. CASE ReceiveIncoming(c)
    <3>1. CASE UNCHANGED storeVars
      BY <3>1
    <3>2. CASE AppendBufferedMessage(c, Binding(c), seen[c] + 1)
      <4>1. Binding(c) \in Bindings /\ seen[c] + 1 \in Messages
        BY <2>1, BuffersAreTyped DEF ReceiveIncoming
      <4> QED
        BY <3>2, <4>1 DEF StoreNext
    <3> QED
      BY <2>1, <3>1, <3>2 DEF ReceiveIncoming
  <2>2. CASE ReceiveOutgoing(c)
    BY <2>2 DEF ReceiveOutgoing, StoreNext
  <2>3. CASE PollCancels(c)
    BY <1>0, <2>3 DEF PollCancels, StoreNext
  <2>4. CASE TickPoll(c) \/ PollDone(c) \/ PollFails(c) \/ PollSchedules(c) \/ PollWakes(c)
             \/ PollCommits(c)
    BY <2>4 DEF TickPoll, PollDone, PollFails, PollSchedules, PollWakes, PollCommits
  <2> QED
    BY <1>1, <2>1, <2>2, <2>3, <2>4 DEF PollNext
<1>2. ASSUME NEW c \in Contacts, ReplaceNext(c) PROVE [StoreNext]_storeVars
  <2>1. CASE ReplaceCancels(c)
    BY <1>0, <2>1 DEF ReplaceCancels, StoreNext
  <2> QED
    BY <1>2, <2>1 DEF ReplaceNext, ReplaceBegins, ReplaceWakes, ReplaceStarts
<1>3. ASSUME NEW p \in Procs, DeliverNext(p) PROVE [StoreNext]_storeVars
  <2>1. CASE FlushClaims(p)
    BY <2>1 DEF FlushClaims, StoreNext, Procs
  <2>2. CASE FlushMarks(p)
    BY <1>0, <2>2, CASIsAStoreStep DEF FlushMarks
  <2>3. CASE FlushGenerates(p)
    BY <1>0, <2>3, CASIsAStoreStep DEF FlushGenerates
  <2>4. CASE FenceReply(p)
    <3>1. CASE UNCHANGED storeVars
      BY <3>1
    <3>2. CASE CompareAndSet(task[p].key, "prepared", "submit-started", NoReason)
      BY <1>0, <3>2, CompareAndSetIsAStoreStep
    <3> QED
      BY <2>4, <3>1, <3>2 DEF FenceReply
  <2>5. CASE CancelChanged(p)
    BY <1>0, <2>5, CASIsAStoreStep DEF CancelChanged
  <2>6. CASE Settle(p)
    <3>1. CASE task[p].outcome \notin Closed
      BY <2>6, <3>1, CASIsAStoreStep DEF Settle
    <3>2. CASE task[p].outcome \in Closed
      BY <2>6, <3>2 DEF Settle, CAS, CompareAndSet, Transitions, PreSubmit, Closed
    <3> QED
      BY <3>1, <3>2
  <2>7. CASE CancelOwnerReplied(p)
    BY <1>0, <2>7, CASIsAStoreStep DEF CancelOwnerReplied
  <2>8. CASE CloseFailed(p)
    BY <1>0, <2>8, CASIsAStoreStep DEF CloseFailed
  <2>9. CASE Get1(p) \/ JoinPoll(p) \/ Get2(p) \/ Admit(p) \/ Check(p) \/ NativeCheck(p)
             \/ Press(p) \/ Readback(p) \/ CloseSession(p) \/ AfterFailure(p)
             \/ WakeContact(p) \/ Finish(p)
    BY <2>9 DEF Get1, JoinPoll, Get2, Admit, Check, NativeCheck, Press, Readback,
       CloseSession, AfterFailure, WakeContact, Finish
  <2> QED
    BY <1>3, <2>1, <2>2, <2>3, <2>4, <2>5, <2>6, <2>7, <2>8, <2>9 DEF DeliverNext
<1>4. ASSUME NEW p \in Procs, RecoverNext(p) PROVE [StoreNext]_storeVars
  <2>1. CASE RecoveryCloses(p)
    BY <1>0, <2>1, CASIsAStoreStep DEF RecoveryCloses
  <2>2. CASE RecoveryVerifies(p)
    BY <1>0, <2>2, CASIsAStoreStep DEF RecoveryVerifies
  <2> QED
    BY <1>4, <2>1, <2>2 DEF RecoverNext, RecoveryAdmit, RecoveryReads
<1>5. ASSUME NEW c \in Contacts,
             \/ Write(c) \/ Reenroll(c)
             \/ TimerArms(c) \/ TimerFires(c) \/ TickDelivers(c) \/ RecoveryLists(c)
      PROVE  UNCHANGED storeVars
  BY <1>5 DEF Write, Reenroll, TimerArms, TimerFires, TickDelivers, RecoveryLists
<1>6. CASE Start \/ Stop \/ StopCompletes \/ Exit \/ Crash \/ P0Asks \/ P0Takes
           \/ P0Releases \/ UNCHANGED vars
  BY <1>6 DEF Start, Stop, StopCompletes, Exit, Crash, Down, P0Asks, P0Takes, P0Releases,
     vars, storeVars
<1>7. ASSUME NEW k \in orphans, OrphanPresses(k) PROVE UNCHANGED storeVars
  BY <1>7 DEF OrphanPresses
<1> QED
  BY <1>1, <1>2, <1>3, <1>4, <1>5, <1>6, <1>7 DEF Next

LEMMA TypedStep == Typed /\ [Next]_vars => Typed'
<1> SUFFICES ASSUME Typed, [Next]_vars PROVE Typed'
  OBVIOUS
<1>1. StoreTypeOK'
  BY ServiceStoreStep, StoreTypeStep DEF Typed
<1>2. TaskOK'
  BY TaskStep
<1>3. ChatOK'
  BY ChatStep
<1> QED
  BY <1>1, <1>2, <1>3, PollStep, EpochStep, RestStep, OrphansStep, AsleepStep DEF Typed

LEMMA SpecTyped == Spec => []Typed
  BY TypedInit, TypedStep, PTL DEF Spec

(* The state of the service keeps its type, whatever interleaves, fails or    *)
(* crashes: every batch and record it writes is one the schemas of           *)
(* storage/repositories.ts accept.                                          *)
THEOREM ServiceTyped == Spec => []ServiceTypeOK
  BY SpecTyped, TypedImpliesTypeOK, PTL

(* The service uses the repository as its interface allows, so what is proved *)
(* of the repository holds of the service.                                   *)
THEOREM ServiceUsesStore == Spec => StoreSpec
<1>1. Init => StoreInit
  BY DEF Init
<1>2. Typed /\ [Next]_vars => [StoreNext]_storeVars
  BY ServiceStoreStep
<1> QED
  BY <1>1, <1>2, SpecTyped, PTL DEF Spec, StoreSpec

(* A contact has one reply in flight at a time (conversation/                *)
(* realtime-reply-service.ts claims a batch only through the ledger).        *)
THEOREM ServiceOneActive == Spec => []OneActivePerContact
  BY ServiceUsesStore, OneActive, PTL

(* No task, recovery, stop or restart takes a reply back before its fence,    *)
(* or reopens one that was closed.                                          *)
THEOREM ServiceNeverReopens == Spec => NeverReopened
  BY ServiceUsesStore, RecordsNeverReopened, PTL


(***************************************************************************)
(* Least and greatest numbers.                                             *)
(***************************************************************************)

LEMMA LeastOf ==
  ASSUME NEW T \in SUBSET Nat, T # {}
  PROVE  \E x \in T : \A y \in T : x <= y
<1> DEFINE R == OpToRel(<, Nat)
<1>1. IsWellFoundedOn(R, Nat)
  BY NatLessThanWellFounded
<1>2. \A x, y \in Nat : x < y => <<x, y>> \in R
  BY DEF OpToRel
<1> HIDE DEF R
<1>3. PICK x \in T : \A y \in T : ~ (<<y, x>> \in R)
  BY <1>1, WFMin
<1>4. \A y \in T : x <= y
  <2> TAKE y \in T
  <2>1. x \in Nat /\ y \in Nat /\ ~ (y < x)
    BY <1>2, <1>3
  <2> QED
    BY <2>1
<1> QED
  BY <1>4

LEMMA GreatestOf ==
  ASSUME NEW T \in SUBSET Nat, T # {}, NEW n \in Nat, \A x \in T : x <= n
  PROVE  \E x \in T : \A y \in T : y <= x
<1> DEFINE D == {n - x : x \in T}
<1>1. \A x \in T : x \in Nat /\ n - x \in Nat
  OBVIOUS
<1>2. D \in SUBSET Nat /\ D # {}
  BY <1>1
<1>3. PICK d \in D : \A e \in D : d <= e
  <2> HIDE DEF D
  <2> QED
    BY <1>2, LeastOf
<1>4. PICK x \in T : d = n - x
  OBVIOUS
<1>5. ASSUME NEW y \in T PROVE y <= x
  <2>1. x \in Nat /\ y \in Nat
    OBVIOUS
  <2>2. n - x <= n - y
    BY <1>3, <1>4
  <2> QED
    BY <2>1, <2>2
<1> QED
  BY <1>5

(* The last of some bounded messages is one of them.                         *)
LEMMA LastIsLast ==
  ASSUME NEW S \in SUBSET Nat, S # {}, NEW n \in Nat, \A m \in S : m <= n
  PROVE  Last(S) \in S /\ \A m \in S : m <= Last(S)
  BY GreatestOf DEF Last

-----------------------------------------------------------------------------
(* The first record of a trigger.                                          *)

LEMMA FirstIsOne ==
  ASSUME StoreTypeOK, NEW k, NEW i, NEW j, IsFirst(i, k), IsFirst(j, k)
  PROVE  i = j
<1>1. i \in Nat /\ j \in Nat
  BY DEF StoreTypeOK, IsFirst
<1>2. i <= j /\ j <= i
  BY DEF IsFirst
<1> QED
  BY <1>1, <1>2

LEMMA FirstExists ==
  ASSUME StoreTypeOK, NEW i \in DOMAIN records
  PROVE  \E f \in DOMAIN records : IsFirst(f, records[i].key)
<1> DEFINE T == {j \in DOMAIN records : records[j].key = records[i].key}
<1>1. T \in SUBSET Nat /\ T # {}
  BY DEF StoreTypeOK
<1>2. PICK f \in T : \A j \in T : f <= j
  <2> HIDE DEF T
  <2> QED
    BY <1>1, LeastOf
<1> QED
  BY <1>2 DEF IsFirst

(* The ledger grows at its end, and a record keeps its key.                   *)
LEMMA LedgerGrows ==
  ASSUME Typed, [Next]_vars
  PROVE  \A i \in DOMAIN records : i \in DOMAIN records' /\ Onward(records[i], records'[i])
<1>1. [RecordsGoOnward]_records
  BY ServiceStoreStep, OnwardStep DEF Typed
<1>2. CASE RecordsGoOnward
  BY <1>2 DEF RecordsGoOnward
<1>3. CASE records' = records
  BY <1>3, UnchangedIsOnward
<1> QED
  BY <1>1, <1>2, <1>3

LEMMA FirstStaysFirst ==
  ASSUME Typed, [Next]_vars, NEW k, NEW i, IsFirst(i, k)
  PROVE  IsFirst(i, k)' /\ Onward(records[i], records'[i])
<1>1. StoreTypeOK /\ StoreTypeOK'
  BY TypedStep DEF Typed
<1>2. \A j \in DOMAIN records : j \in DOMAIN records' /\ Onward(records[j], records'[j])
  BY LedgerGrows
<1>3. i \in DOMAIN records /\ records'[i].key = k
  BY <1>2 DEF IsFirst, Onward
<1>4. ASSUME NEW j \in DOMAIN records', records'[j].key = k PROVE i <= j
  <2>1. /\ Len(records) \in Nat /\ DOMAIN records = 1 .. Len(records)
        /\ Len(records') \in Nat /\ DOMAIN records' = 1 .. Len(records')
    BY <1>1 DEF StoreTypeOK
  <2>2. CASE j \in DOMAIN records
    BY <1>2, <1>4, <2>2 DEF IsFirst, Onward
  <2>3. CASE j \notin DOMAIN records
    BY <1>3, <2>1, <2>3
  <2> QED
    BY <2>2, <2>3
<1> QED
  BY <1>2, <1>3, <1>4 DEF IsFirst

-----------------------------------------------------------------------------
(* What a step does to the tasks.                                          *)

(* The task may press the key; it has seen its reply in the chat; it has seen *)
(* that the chat went past what the reply answers.                           *)
Holding(p) == task[p].pc \in {"native", "press"}

Proven(p) ==
  \/ task[p].pc \in {"close", "settle"} /\ task[p].outcome = "verified"
  \/ task[p].pc = "close" /\ task[p].outcome = "recovered"
  \/ task[p].pc = "recoverVerify"

Answered(p) ==
  \/ task[p].pc = "close" /\ task[p].outcome = "owner"
  \/ task[p].pc = "ownerReplied"

(* How a task comes to be one of these: by the durable fence, by the readback, *)
(* by the check; and it never changes its reply for another on the way.       *)
FencesOff(p) ==
  /\ task[p].pc = "fence"
  /\ CompareAndSet(task[p].key, "prepared", "submit-started", NoReason)
  /\ \A q \in Procs \ {p} : task'[q] = task[q]

Moves(p) ==
  /\ Holding(p)' => task'[p].key = task[p].key /\ (Holding(p) \/ FencesOff(p))
  /\ At(p, "press")' =>
       At(p, "press") \/ (At(p, "native") /\ StillLatest(task[p].key) /\ chat' = chat)
  /\ Proven(p)' =>
       /\ task'[p].key = task[p].key
       /\ Proven(p) \/ (ProvesAppend(task[p].key) /\ chat' = chat)
  /\ Answered(p)' =>
       /\ task'[p].key = task[p].key
       /\ Answered(p) \/ (~StillLatest(task[p].key) /\ chat' = chat)
  /\ \/ task'[p].key \in {task[p].key, NoKey}
     \/ \E i \in DOMAIN records' : records'[i].key = task'[p].key

Plain == TaskPCs \ {"native", "press", "settle", "recoverVerify", "close", "ownerReplied"}

LEMMA KeptMoves ==
  ASSUME NEW p \in Procs, task'[p].pc = task[p].pc, task'[p].key = task[p].key,
         task'[p].outcome = task[p].outcome
  PROVE  Moves(p)
  BY DEF Moves, Holding, Proven, Answered, At

LEMMA PlainMoves ==
  ASSUME NEW p \in Procs, task'[p].pc \in Plain, task'[p].key \in {task[p].key, NoKey}
  PROVE  Moves(p)
  BY DEF Moves, Holding, Proven, Answered, At, Plain

LEMMA GotoMoves ==
  ASSUME TaskOK, NEW q \in Procs, NEW l \in Plain, Goto(q, l)
  PROVE  \A p \in Procs : Moves(p)
<1> TAKE p \in Procs
<1>1. CASE p = q
  <2>1. task'[p].pc = l /\ task'[p].key = task[p].key
    BY <1>1 DEF TaskOK, Goto, Task
  <2> QED
    BY <2>1, PlainMoves
<1>2. CASE p # q
  BY <1>2, KeptMoves DEF TaskOK, Goto
<1> QED
  BY <1>1, <1>2

LEMMA CloseMoves ==
  ASSUME TaskOK, NEW q \in Procs, NEW why \in Outcomes, Close(q, why),
         why \in {"verified", "recovered"} => ProvesAppend(task[q].key) /\ chat' = chat,
         why = "owner" => ~StillLatest(task[q].key) /\ chat' = chat
  PROVE  \A p \in Procs : Moves(p)
<1> TAKE p \in Procs
<1>1. CASE p = q
  <2>1. task[p] \in Task
    BY DEF TaskOK
  <2>2. task'[p] = [task[p] EXCEPT !.pc = "close", !.outcome = why]
    BY <1>1, <2>1 DEF TaskOK, Close, Task
  <2>3. task'[p].pc = "close" /\ task'[p].key = task[p].key /\ task'[p].outcome = why
    BY <2>1, <2>2 DEF Task
  <2> QED
    BY <1>1, <2>3 DEF Moves, Holding, Proven, Answered, At
<1>2. CASE p # q
  <2>1. task'[p] = task[p]
    BY <1>2 DEF TaskOK, Close
  <2> QED
    BY <2>1, KeptMoves
<1> QED
  BY <1>1, <1>2

LEMMA CASMoves ==
  ASSUME TaskOK, NEW q \in Procs, NEW from, NEW to, NEW why,
         NEW yes \in Plain, NEW no \in Plain, CAS(q, from, to, why, yes, no)
  PROVE  \A p \in Procs : Moves(p)
  BY GotoMoves DEF CAS

(* A task takes up a reply of the ledger, or none.                           *)
LEMMA BeginMoves ==
  ASSUME TaskOK, NEW q \in Procs, NEW new, task' = [task EXCEPT ![q] = new],
         new.pc \in Plain,
         new.key = NoKey \/ \E i \in DOMAIN records' : records'[i].key = new.key
  PROVE  \A p \in Procs : Moves(p)
<1> TAKE p \in Procs
<1>1. CASE p = q
  <2>1. task'[p] = new
    BY <1>1 DEF TaskOK
  <2> QED
    BY <2>1 DEF Moves, Holding, Proven, Answered, At, Plain
<1>2. CASE p # q
  BY <1>2, KeptMoves DEF TaskOK
<1> QED
  BY <1>1, <1>2

LEMMA DeliverMoves ==
  ASSUME Typed, NEW q \in Procs, DeliverNext(q)
  PROVE  \A p \in Procs : Moves(p)
<1>0. TaskOK /\ StoreTypeOK
  BY DEF Typed
<1>p. \A l \in {"end", "mark", "generate", "get1", "wake", "finally", "poll", "changed", "polling",
                "admit", "wakeEnd", "afterFailure", "check", "fence", "readback", "uncertain",
                "fail", "idle", "get2"} : l \in Plain
  BY DEF Plain, TaskPCs
<1>o. \A why \in {"error", "submitted-uncertain", "unproven", "owner", "verified", "recovered"} :
        why \in Outcomes
  BY DEF Outcomes
<1>1. CASE FlushClaims(q)
  <2>1. CASE Goto(q, "end")
    BY <1>0, <1>p, <2>1, GotoMoves
  <2>2. ASSUME ClaimBufferedBatch(q[2]),
               task' = [task EXCEPT ![q].pc = "mark", ![q].key = BatchKey(q[2])]
        PROVE  \A p \in Procs : Moves(p)
    <3> DEFINE k == BatchKey(q[2])
               new == [task[q] EXCEPT !.pc = "mark", !.key = k]
    <3>1. k \in Key
      BY <1>0, <2>2, BatchKeyIsKey DEF ClaimBufferedBatch, Procs
    <3>2. \E i \in DOMAIN records' : records'[i].key = k
      BY <1>0, <2>2, <3>1, AppendedRecord DEF ClaimBufferedBatch, NewRecord
    <3> HIDE DEF k
    <3>3. task[q] \in Task
      BY <1>0 DEF TaskOK
    <3>4. new.pc = "mark" /\ new.key = k
      BY <3>3 DEF Task
    <3>5. task' = [task EXCEPT ![q] = new]
      BY <1>0, <2>2, <3>3 DEF Task, TaskOK, k
    <3> HIDE DEF new
    <3> QED
      BY <1>0, <1>p, <3>2, <3>4, <3>5, BeginMoves
  <2> QED
    BY <1>1, <2>1, <2>2 DEF FlushClaims
<1>2. CASE FlushMarks(q) \/ FlushGenerates(q)
  BY <1>0, <1>2, <1>p, GotoMoves, CASMoves DEF FlushMarks, FlushGenerates
<1>3. CASE Get1(q) \/ JoinPoll(q) \/ Get2(q) \/ CancelChanged(q)
  BY <1>0, <1>3, <1>p, GotoMoves, CASMoves DEF Get1, JoinPoll, Get2, CancelChanged
<1>4. CASE Admit(q) \/ AfterFailure(q) \/ WakeContact(q)
  BY <1>0, <1>4, <1>p, GotoMoves DEF Admit, AfterFailure, WakeContact
<1>5. CASE Check(q)
  BY <1>0, <1>5, <1>p, <1>o, GotoMoves, CloseMoves DEF Check, Rest
<1>6. CASE FenceReply(q)
  <2>1. CASE Close(q, "error")
    BY <1>0, <1>o, <2>1, CloseMoves
  <2>2. ASSUME CompareAndSet(task[q].key, "prepared", "submit-started", NoReason),
               Goto(q, "native")
        PROVE  \A p \in Procs : Moves(p)
    <3> TAKE p \in Procs
    <3>1. \A r \in Procs \ {q} : task'[r] = task[r]
      BY <1>0, <2>2 DEF TaskOK, Goto
    <3>2. CASE p = q
      <4>1. task'[p].pc = "native" /\ task'[p].key = task[p].key
        BY <1>0, <2>2, <3>2 DEF TaskOK, Task, Goto
      <4> QED
        BY <1>6, <2>2, <3>1, <3>2, <4>1
           DEF Moves, Holding, Proven, Answered, At, FencesOff, FenceReply
    <3>3. CASE p # q
      BY <3>1, <3>3, KeptMoves
    <3> QED
      BY <3>2, <3>3
  <2> QED
    BY <1>6, <2>1, <2>2 DEF FenceReply
<1>7. CASE NativeCheck(q)
  <2>1. CASE Close(q, "error") \/ Close(q, "submitted-uncertain")
    BY <1>0, <1>o, <2>1, CloseMoves
  <2>2. ASSUME StillLatest(task[q].key), Goto(q, "press")
        PROVE  \A p \in Procs : Moves(p)
    <3> TAKE p \in Procs
    <3>1. CASE p = q
      <4>1. task'[p].pc = "press" /\ task'[p].key = task[p].key
        BY <1>0, <2>2, <3>1 DEF TaskOK, Task, Goto
      <4> QED
        BY <1>7, <2>2, <3>1, <4>1 DEF Moves, Holding, Proven, Answered, At, NativeCheck, Rest
    <3>2. CASE p # q
      BY <1>0, <2>2, <3>2, KeptMoves DEF TaskOK, Goto
    <3> QED
      BY <3>1, <3>2
  <2> QED
    BY <1>7, <2>1, <2>2 DEF NativeCheck
<1>8. CASE Press(q)
  BY <1>0, <1>8, <1>p, <1>o, GotoMoves, CloseMoves DEF Press
<1>9. CASE Readback(q)
  BY <1>0, <1>9, <1>o, CloseMoves DEF Readback, Rest
<1>10. CASE CloseSession(q)
  <2> DEFINE next == CASE task[q].outcome \in {"verified", "submitted-uncertain"} -> "settle"
               [] task[q].outcome = "owner" -> "ownerReplied"
               [] task[q].outcome = "error" -> "afterFailure"
               [] task[q].outcome = "recovered" -> "recoverVerify"
               [] task[q].outcome = "unproven" -> "end"
  <2>1. task[q].outcome \in {"verified", "submitted-uncertain", "owner", "error", "recovered",
                            "unproven"}
    BY <1>0, <1>10 DEF CloseSession, TaskOK, Task, Outcomes
  <2>2. /\ next \in Plain \cup {"settle", "ownerReplied", "recoverVerify"}
        /\ next = "settle" => task[q].outcome \in {"verified", "submitted-uncertain"}
        /\ next = "ownerReplied" => task[q].outcome = "owner"
        /\ next = "recoverVerify" => task[q].outcome = "recovered"
    BY <2>1 DEF Plain, TaskPCs
  <2>3. Goto(q, next) /\ task[q].pc = "close"
    BY <1>10 DEF CloseSession, At
  <2> HIDE DEF next
  <2> TAKE p \in Procs
  <2>4. CASE p = q
    <3>1. /\ task'[p].pc = next /\ task'[p].key = task[p].key
          /\ task'[p].outcome = task[p].outcome
      BY <1>0, <2>3, <2>4 DEF TaskOK, Task, Goto
    <3> QED
      BY <2>2, <2>3, <2>4, <3>1 DEF Moves, Holding, Proven, Answered, At, Plain
  <2>5. CASE p # q
    BY <1>0, <2>3, <2>5, KeptMoves DEF TaskOK, Goto
  <2> QED
    BY <2>4, <2>5
<1>11. CASE Settle(q) \/ CancelOwnerReplied(q) \/ CloseFailed(q)
  BY <1>0, <1>11, <1>p, CASMoves DEF Settle, CancelOwnerReplied, CloseFailed
<1>12. CASE Finish(q)
  <2>1. task' = [task EXCEPT ![q] = Idle] /\ Idle.pc = "idle" /\ Idle.key = NoKey
    BY <1>12 DEF Finish, Idle
  <2> QED
    BY <1>0, <1>p, <2>1, BeginMoves
<1> QED
  BY <1>1, <1>2, <1>3, <1>4, <1>5, <1>6, <1>7, <1>8, <1>9, <1>10, <1>11, <1>12 DEF DeliverNext

LEMMA RecoverMoves ==
  ASSUME Typed, NEW q \in Procs, RecoverNext(q)
  PROVE  \A p \in Procs : Moves(p)
<1>0. TaskOK
  BY DEF Typed
<1>1. \A l \in {"wake", "end", "recoverAdmit", "recoverRead"} : l \in Plain
  BY DEF Plain, TaskPCs
<1>2. CASE RecoveryCloses(q) \/ RecoveryVerifies(q)
  BY <1>0, <1>1, <1>2, CASMoves DEF RecoveryCloses, RecoveryVerifies
<1>3. CASE RecoveryAdmit(q)
  BY <1>0, <1>1, <1>3, GotoMoves DEF RecoveryAdmit
<1>4. CASE RecoveryReads(q)
  BY <1>0, <1>4, CloseMoves DEF RecoveryReads, Rest, Outcomes
<1> QED
  BY <1>2, <1>3, <1>4 DEF RecoverNext

LEMMA ListMoves ==
  ASSUME Typed, NEW c \in Contacts, TickDelivers(c) \/ RecoveryLists(c)
  PROVE  \A p \in Procs : Moves(p)
<1>0. TaskOK /\ StoreTypeOK
  BY DEF Typed
<1>1. CASE TickDelivers(c)
  <2>1. PICK i \in DOMAIN records :
          task' = [task EXCEPT ![<<"tick", c>>] = Begin("get1", records[i].key)]
    BY <1>1 DEF TickDelivers
  <2>2. <<"tick", c>> \in Procs /\ records' = records
    BY <1>1 DEF TickDelivers, Procs, storeVars
  <2>3. /\ Begin("get1", records[i].key).pc \in Plain
        /\ Begin("get1", records[i].key).key = records[i].key
    BY DEF Begin, Idle, Plain, TaskPCs
  <2> QED
    BY <1>0, <2>1, <2>2, <2>3, BeginMoves
<1>2. CASE RecoveryLists(c)
  <2>1. PICK i \in Recoverable :
          task' = [task EXCEPT ![<<"recovery", c>>] =
                     Begin(RecoveryStep(records[i].status), records[i].key)]
    BY <1>2 DEF RecoveryLists
  <2>2. <<"recovery", c>> \in Procs /\ records' = records
    BY <1>2 DEF RecoveryLists, Procs, storeVars
  <2>3. i \in DOMAIN records /\ records[i].status \in Active
    BY DEF Recoverable
  <2> DEFINE new == Begin(RecoveryStep(records[i].status), records[i].key)
  <2>4. new.pc \in Plain /\ new.key = records[i].key
    BY <2>3 DEF Begin, Idle, Plain, TaskPCs, RecoveryStep, Active, PreSubmit, Fenced
  <2>5. task' = [task EXCEPT ![<<"recovery", c>>] = new]
    BY <2>1
  <2> HIDE DEF new
  <2> QED
    BY <1>0, <2>2, <2>3, <2>4, <2>5, BeginMoves
<1> QED
  BY <1>1, <1>2

LEMMA PollMovesTasks ==
  ASSUME Typed, NEW c \in Contacts,
         PollNext(c) \/ TimerArms(c) \/ TimerFires(c) \/ ReplaceNext(c)
  PROVE  \A p \in Procs : Moves(p)
<1>0. TaskOK
  BY DEF Typed
<1>1. ASSUME NEW l \in {"get2", "changed"}, PollSettles(c, l) PROVE \A p \in Procs : Moves(p)
  <2> TAKE p \in Procs
  <2>1. task[p] \in Task /\ l \in Plain
    BY <1>0 DEF TaskOK, Plain, TaskPCs
  <2>2. CASE p[2] = c /\ At(p, "polling")
    <3>1. task'[p] = [task[p] EXCEPT !.pc = l]
      BY <1>1, <2>2 DEF PollSettles
    <3>2. task'[p].pc = l /\ task'[p].key = task[p].key
      BY <2>1, <3>1 DEF Task
    <3> QED
      BY <2>1, <3>2, PlainMoves
  <2>3. CASE ~(p[2] = c /\ At(p, "polling"))
    <3>1. task'[p] = task[p]
      BY <1>1, <2>3 DEF PollSettles
    <3> QED
      BY <3>1, KeptMoves
  <2> QED
    BY <2>2, <2>3
<1>2. ASSUME UNCHANGED task PROVE \A p \in Procs : Moves(p)
  BY <1>2, KeptMoves
<1>3. CASE PollNext(c)
  BY <1>1, <1>2, <1>3
     DEF PollNext, TickPoll, PollDone, PollFails, ReceiveIncoming, PollSchedules,
         ReceiveOutgoing, PollCancels, PollWakes, PollCommits
<1>4. CASE TimerFires(c)
  <2>1. CASE task' = [task EXCEPT ![Flush(c)] = Begin("claim", NoKey)]
    <3>1. Flush(c) \in Procs
      BY <1>4 DEF TimerFires, Flush, Procs
    <3>2. Begin("claim", NoKey).pc \in Plain /\ Begin("claim", NoKey).key = NoKey
      BY DEF Begin, Idle, Plain, TaskPCs
    <3> QED
      BY <1>0, <2>1, <3>1, <3>2, BeginMoves
  <2> QED
    BY <1>2, <1>4, <2>1 DEF TimerFires
<1>5. CASE ReplaceBegins(c)
  <2> TAKE p \in Procs
  <2>1. task'[p] = task[p] \/ task'[p] = [task[p] EXCEPT !.halted = TRUE]
    BY <1>5 DEF ReplaceBegins
  <2>2. task[p] \in Task
    BY <1>0 DEF TaskOK
  <2>3. /\ task'[p].pc = task[p].pc /\ task'[p].key = task[p].key
        /\ task'[p].outcome = task[p].outcome
    BY <2>1, <2>2 DEF Task
  <2> QED
    BY <2>3, KeptMoves
<1>6. CASE TimerArms(c) \/ ReplaceCancels(c) \/ ReplaceWakes(c) \/ ReplaceStarts(c)
  BY <1>2, <1>6 DEF TimerArms, ReplaceCancels, ReplaceWakes, ReplaceStarts
<1> QED
  BY <1>3, <1>4, <1>5, <1>6 DEF ReplaceNext

LEMMA TaskMoves ==
  ASSUME Typed, [Next]_vars
  PROVE  \A p \in Procs : Moves(p)
<1>1. ASSUME UNCHANGED task PROVE \A p \in Procs : Moves(p)
  BY <1>1, KeptMoves
<1>2. ASSUME NEW c \in Contacts, Write(c) \/ Reenroll(c) PROVE \A p \in Procs : Moves(p)
  BY <1>1, <1>2 DEF Write, Reenroll, volatile
<1>3. CASE Start \/ StopCompletes \/ P0Asks \/ P0Takes \/ P0Releases \/ UNCHANGED vars
  BY <1>1, <1>3 DEF Start, StopCompletes, P0Asks, P0Takes, P0Releases, vars, volatile
<1>4. CASE Stop
  <2> TAKE p \in Procs
  <2>1. task'[p] = task[p] \/ task'[p] = [task[p] EXCEPT !.halted = TRUE]
    BY <1>4 DEF Stop
  <2>2. task[p] \in Task
    BY DEF Typed, TaskOK
  <2>3. /\ task'[p].pc = task[p].pc /\ task'[p].key = task[p].key
        /\ task'[p].outcome = task[p].outcome
    BY <2>1, <2>2 DEF Task
  <2> QED
    BY <2>3, KeptMoves
<1>5. CASE Exit \/ Crash
  <2> TAKE p \in Procs
  <2>1. task'[p] = Idle
    BY <1>5 DEF Exit, Crash, Down
  <2> QED
    BY <2>1, PlainMoves DEF Idle, Plain, TaskPCs
<1>6. ASSUME NEW k \in orphans, OrphanPresses(k) PROVE \A p \in Procs : Moves(p)
  BY <1>1, <1>6 DEF OrphanPresses, volatile
<1> QED
  BY <1>2, <1>3, <1>4, <1>5, <1>6, DeliverMoves, RecoverMoves, ListMoves, PollMovesTasks
     DEF Next

-----------------------------------------------------------------------------
(* What a step does to the chat.                                           *)

(* A task presses its reply, and is past the submit.                         *)
Submits(p) ==
  /\ At(p, "press")
  /\ Say(p[2], "bot", task[p].key)
  /\ ~Holding(p)'
  /\ orphans' = orphans

(* A submit that outlived its process goes through.                          *)
Outlives(k) == Say(k.contact, "bot", k) /\ orphans' = orphans \ {k}

LEMMA ChatMoves ==
  ASSUME Typed, [Next]_vars
  PROVE  \/ chat' = chat /\ orphans' = orphans
         \/ \E c \in Contacts, from \in {"contact", "owner"} :
              Say(c, from, NoKey) /\ orphans' = orphans /\ task' = task
              /\ (from = "contact" => Len(chat[c]) + 1 \in Messages)
         \/ \E p \in Procs : Submits(p)
         \/ \E k \in orphans : Outlives(k) /\ task' = task
         \/ /\ chat' = chat
            /\ orphans' = orphans \cup {task[p].key : p \in {q \in Procs : At(q, "press")}}
            /\ \A p \in Procs : ~Holding(p)'
<1>1. ASSUME NEW c \in Contacts, Write(c)
      PROVE  \E from \in {"contact", "owner"} :
               Say(c, from, NoKey) /\ orphans' = orphans /\ task' = task
               /\ (from = "contact" => Len(chat[c]) + 1 \in Messages)
  BY <1>1 DEF Write, volatile
<1>2. ASSUME NEW p \in Procs, Press(p), chat' # chat PROVE Submits(p)
  <2>1. Goto(p, "readback") \/ Close(p, "submitted-uncertain")
    BY <1>2 DEF Press
  <2>2. ~Holding(p)'
    <3>1. task'[p].pc \in {"readback", "close"}
      BY <2>1 DEF Goto, Close, Typed, TaskOK, Task
    <3> QED
      BY <3>1 DEF Holding
  <2> QED
    BY <1>2, <2>2 DEF Press, Submits
<1>3. ASSUME NEW k \in orphans, OrphanPresses(k) PROVE Outlives(k) /\ task' = task
  BY <1>3 DEF OrphanPresses, Outlives, volatile
<1>4. CASE Crash
  <2>1. \A p \in Procs : ~Holding(p)'
    BY <1>4 DEF Crash, Down, Holding, Idle
  <2> QED
    BY <1>4, <2>1 DEF Crash, Down
<1>5. ASSUME NEW p \in Procs, Press(p) PROVE orphans' = orphans
  BY <1>5 DEF Press
<1>6. ASSUME NEW c \in Contacts,
             \/ Reenroll(c) \/ PollNext(c) \/ ReplaceNext(c)
             \/ TimerArms(c) \/ TimerFires(c) \/ TickDelivers(c) \/ RecoveryLists(c)
      PROVE  UNCHANGED <<chat, orphans>>
  BY <1>6 DEF Reenroll, PollNext, ReplaceNext, TimerArms, TimerFires, TickDelivers,
     RecoveryLists, Rest, TickPoll, PollDone, PollFails, ReceiveIncoming, PollSchedules,
     ReceiveOutgoing, PollCancels, PollWakes, PollCommits, ReplaceBegins, ReplaceCancels,
     ReplaceWakes, ReplaceStarts
<1>7. ASSUME NEW p \in Procs, RecoverNext(p) \/ (DeliverNext(p) /\ ~Press(p))
      PROVE  UNCHANGED <<chat, orphans>>
  BY <1>7 DEF DeliverNext, RecoverNext, FlushClaims, FlushMarks, FlushGenerates, Get1,
     JoinPoll, Get2, CancelChanged, Admit, Check, FenceReply, NativeCheck, Readback,
     CloseSession, Settle, CancelOwnerReplied, AfterFailure, CloseFailed, WakeContact,
     Finish, RecoveryCloses, RecoveryAdmit, RecoveryReads, RecoveryVerifies, Rest
<1>8. CASE Start \/ Stop \/ StopCompletes \/ Exit \/ P0Asks \/ P0Takes \/ P0Releases
           \/ UNCHANGED vars
  BY <1>8 DEF Start, Stop, StopCompletes, Exit, Down, P0Asks, P0Takes, P0Releases, vars
<1> QED
  BY <1>1, <1>2, <1>3, <1>4, <1>5, <1>6, <1>7, <1>8 DEF Next

(* A message is added at the end of one chat.                                *)
LEMMA SaidEffect ==
  ASSUME ChatOK, NEW c \in Contacts, NEW from \in {"contact", "owner", "bot"},
         NEW k \in Key \cup {NoKey}, Say(c, from, k)
  PROVE  /\ \A d \in Contacts :
              /\ Len(chat[d]) \in Nat /\ DOMAIN chat[d] = 1 .. Len(chat[d])
              /\ d # c => chat'[d] = chat[d]
              /\ \A n \in DOMAIN chat[d] : n \in DOMAIN chat'[d] /\ chat'[d][n] = chat[d][n]
         /\ Len(chat'[c]) = Len(chat[c]) + 1
         /\ DOMAIN chat'[c] = DOMAIN chat[c] \cup {Len(chat[c]) + 1}
         /\ chat'[c][Len(chat[c]) + 1].from = from
         /\ chat'[c][Len(chat[c]) + 1].key = k
         /\ chat'[c][Len(chat[c]) + 1].late = Pressing(c)
<1> DEFINE late == Pressing(c)
           m == [from |-> from, key |-> k, late |-> late]
<1>1. late \in BOOLEAN
  BY DEF Pressing
<1>2. m.from = from /\ m.key = k /\ m.late = late
  OBVIOUS
<1>3. m \in ChatMessage
  <2> HIDE DEF late
  <2> QED
    BY <1>1 DEF ChatMessage
<1>4. chat' = [chat EXCEPT ![c] = Append(chat[c], m)]
  BY DEF Say, ChatOK
<1> HIDE DEF m
<1>5. \A d \in Contacts : /\ chat[d] \in Seq(ChatMessage) /\ Len(chat[d]) \in Nat
                          /\ DOMAIN chat[d] = 1 .. Len(chat[d])
  BY DEF ChatOK
<1>6. /\ Len(Append(chat[c], m)) = Len(chat[c]) + 1
      /\ DOMAIN Append(chat[c], m) = 1 .. Len(chat[c]) + 1
      /\ \A n \in 1 .. Len(chat[c]) : Append(chat[c], m)[n] = chat[c][n]
      /\ Append(chat[c], m)[Len(chat[c]) + 1] = m
  BY <1>3, <1>5, AppendProperties
<1>7. chat'[c] = Append(chat[c], m) /\ \A d \in Contacts \ {c} : chat'[d] = chat[d]
  BY <1>4 DEF ChatOK
<1>8. DOMAIN chat'[c] = DOMAIN chat[c] \cup {Len(chat[c]) + 1}
  BY <1>5, <1>6, <1>7
<1>9. \A d \in Contacts : \A n \in DOMAIN chat[d] : n \in DOMAIN chat'[d] /\ chat'[d][n] = chat[d][n]
  BY <1>5, <1>6, <1>7, <1>8
<1> QED
  BY <1>2, <1>5, <1>6, <1>7, <1>8, <1>9

(* The message of a reply carries its key, and no other message carries one.  *)
BotsCarryKeys ==
  \A c \in Contacts : \A n \in DOMAIN chat[c] :
    chat[c][n].from = "bot" <=> chat[c][n].key # NoKey

LEMMA PressedKeys ==
  ASSUME Typed, NEW p \in Procs, Holding(p)
  PROVE  task[p].key \in Key /\ task[p].key.contact = p[2] /\ p[2] \in Contacts
  BY DEF Typed, TaskOK, Task, Holding, Keyless, Procs

LEMMA SaidKeepsCarries ==
  ASSUME ChatOK, BotsCarryKeys,
         NEW c \in Contacts, NEW from \in {"contact", "owner", "bot"},
         NEW k \in Key \cup {NoKey}, Say(c, from, k), from = "bot" <=> k # NoKey
  PROVE  BotsCarryKeys'
<1>1. \A d \in Contacts : \A n \in DOMAIN chat'[d] :
        \/ n \in DOMAIN chat[d] /\ chat'[d][n] = chat[d][n]
        \/ chat'[d][n].from = from /\ chat'[d][n].key = k
  BY SaidEffect
<1> QED
  BY <1>1 DEF BotsCarryKeys

LEMMA CarriesStep == Typed /\ BotsCarryKeys /\ [Next]_vars => BotsCarryKeys'
<1> SUFFICES ASSUME Typed, BotsCarryKeys, [Next]_vars PROVE BotsCarryKeys'
  OBVIOUS
<1>0. ChatOK
  BY DEF Typed
<1>1. CASE chat' = chat
  BY <1>1 DEF BotsCarryKeys
<1>2. ASSUME NEW c \in Contacts, NEW from \in {"contact", "owner"}, Say(c, from, NoKey)
      PROVE  BotsCarryKeys'
  BY <1>0, <1>2, SaidKeepsCarries
<1>3. ASSUME NEW p \in Procs, Submits(p) PROVE BotsCarryKeys'
  <2>1. task[p].key \in Key /\ p[2] \in Contacts
    BY <1>3, PressedKeys DEF Submits, Holding, At
  <2> QED
    BY <1>0, <1>3, <2>1, SaidKeepsCarries, NoKeyAssumption DEF Submits
<1>4. ASSUME NEW k \in orphans, Outlives(k) PROVE BotsCarryKeys'
  <2>1. k \in Key /\ k.contact \in Contacts
    BY DEF Typed, OrphansOK, Key
  <2> QED
    BY <1>0, <1>4, <2>1, SaidKeepsCarries, NoKeyAssumption DEF Outlives
<1> QED
  BY <1>1, <1>2, <1>3, <1>4, ChatMoves

(* What is in the chat of a reply grows by its own submit only.              *)
LEMMA NotSent ==
  ASSUME ChatOK, NEW c \in Contacts, NEW from \in {"contact", "owner", "bot"},
         NEW j \in Key \cup {NoKey}, Say(c, from, j), NEW k \in Key, k # j
  PROVE  Sent(k)' = Sent(k)
<1>0. k.contact \in Contacts
  BY DEF Key
<1>1. CASE k.contact # c
  <2>1. chat'[k.contact] = chat[k.contact]
    BY <1>0, <1>1, SaidEffect
  <2> QED
    BY <2>1 DEF Sent
<1>2. CASE k.contact = c
  <2>1. /\ DOMAIN chat'[c] = DOMAIN chat[c] \cup {Len(chat[c]) + 1}
        /\ \A n \in DOMAIN chat[c] : chat'[c][n] = chat[c][n]
        /\ chat'[c][Len(chat[c]) + 1].key = j
    BY SaidEffect
  <2>2. Len(chat[c]) + 1 \notin DOMAIN chat[c]
    BY SaidEffect
  <2> QED
    BY <1>2, <2>1, <2>2 DEF Sent
<1> QED
  BY <1>1, <1>2

LEMMA IsSent ==
  ASSUME ChatOK, NEW k \in Key, Say(k.contact, "bot", k)
  PROVE  Sent(k)' = Sent(k) \cup {Len(chat[k.contact]) + 1}
<1> DEFINE c == k.contact
<1>0. c \in Contacts
  BY DEF Key
<1>1. /\ DOMAIN chat'[c] = DOMAIN chat[c] \cup {Len(chat[c]) + 1}
      /\ \A n \in DOMAIN chat[c] : chat'[c][n] = chat[c][n]
      /\ chat'[c][Len(chat[c]) + 1].from = "bot"
      /\ chat'[c][Len(chat[c]) + 1].key = k
  BY <1>0, SaidEffect
<1>2. Len(chat[c]) + 1 \notin DOMAIN chat[c]
  BY <1>0, SaidEffect
<1> QED
  BY <1>1, <1>2 DEF Sent

(* The whole story of what is sent in one step.                              *)
LEMMA SentMoves ==
  ASSUME Typed, [Next]_vars
  PROVE  \/ /\ \A k \in Key : Sent(k)' = Sent(k)
            /\ orphans' = orphans
         \/ /\ \A k \in Key : Sent(k)' = Sent(k)
            /\ orphans' = orphans \cup {task[p].key : p \in {q \in Procs : At(q, "press")}}
            /\ \A p \in Procs : ~Holding(p)'
         \/ \E p \in Procs, j \in Key :
              /\ At(p, "press") /\ ~Holding(p)' /\ task[p].key = j
              /\ \E n : Sent(j)' = Sent(j) \cup {n}
              /\ \A k \in Key \ {j} : Sent(k)' = Sent(k)
              /\ orphans' = orphans
         \/ \E j \in orphans :
              /\ \E n : Sent(j)' = Sent(j) \cup {n}
              /\ \A k \in Key \ {j} : Sent(k)' = Sent(k)
              /\ orphans' = orphans \ {j}
              /\ task' = task
<1>0. ChatOK
  BY DEF Typed
<1>1. ASSUME chat' = chat PROVE \A k \in Key : Sent(k)' = Sent(k)
  BY <1>1 DEF Sent
<1>2. ASSUME NEW c \in Contacts, NEW from \in {"contact", "owner"}, Say(c, from, NoKey)
      PROVE  \A k \in Key : Sent(k)' = Sent(k)
  BY <1>0, <1>2, NotSent, NoKeyAssumption
<1>3. ASSUME NEW p \in Procs, Submits(p)
      PROVE  \E j \in Key :
               /\ task[p].key = j
               /\ \E n : Sent(j)' = Sent(j) \cup {n}
               /\ \A k \in Key \ {j} : Sent(k)' = Sent(k)
  <2>1. PICK j \in Key : task[p].key = j /\ j.contact = p[2] /\ p[2] \in Contacts
    BY <1>3, PressedKeys DEF Submits, Holding, At
  <2>2. Say(j.contact, "bot", j) /\ j.contact \in Contacts
    BY <1>3, <2>1 DEF Submits
  <2>3. Sent(j)' = Sent(j) \cup {Len(chat[j.contact]) + 1}
    BY <1>0, <2>2, IsSent
  <2>4. \A k \in Key \ {j} : Sent(k)' = Sent(k)
    BY <1>0, <2>2, NotSent
  <2> QED
    BY <2>1, <2>3, <2>4
<1>4. ASSUME NEW j \in orphans, Outlives(j)
      PROVE  /\ \E n : Sent(j)' = Sent(j) \cup {n}
             /\ \A k \in Key \ {j} : Sent(k)' = Sent(k)
  <2>1. j \in Key /\ j.contact \in Contacts
    BY DEF Typed, OrphansOK, Key
  <2> QED
    BY <1>0, <1>4, <2>1, IsSent, NotSent DEF Outlives
<1>5. CASE chat' = chat /\ orphans' = orphans
  BY <1>1, <1>5
<1>6. CASE \E c \in Contacts, from \in {"contact", "owner"} : Say(c, from, NoKey) /\ orphans' = orphans
  BY <1>2, <1>6
<1>7. CASE \E p \in Procs : Submits(p)
  BY <1>3, <1>7 DEF Submits
<1>8. CASE \E k \in orphans : Outlives(k) /\ task' = task
  BY <1>4, <1>8 DEF Outlives
<1> QED
  BY <1>1, <1>5, <1>6, <1>7, <1>8, ChatMoves

-----------------------------------------------------------------------------
(* A reply is submitted at most once.                                       *)

(* The first record of the trigger is past the durable fence.                *)
PastFence(k) ==
  \E i \in DOMAIN records : IsFirst(i, k) /\ records[i].status \in Fenced \cup {"verified"}

Holds(p, k) == Holding(p) /\ task[p].key = k

(* The right to press is one of a kind: the task that put up the fence has it, *)
(* or the submit it left behind when it died, and only until it is used.      *)
OneHolder ==
  \A k \in Key : \A p, q \in Procs : Holds(p, k) /\ Holds(q, k) => p = q

HoldersAreFenced ==
  \A k \in Key : \A p \in Procs : Holds(p, k) => PastFence(k) /\ k \notin orphans /\ Sent(k) = {}

OrphansAreFenced == \A k \in orphans : PastFence(k) /\ Sent(k) = {}

SentAreFenced == \A k \in Key : Sent(k) # {} => PastFence(k)

SentOnlyOnce == \A k \in Key : \A m, n \in Sent(k) : m = n

AtMostOnce ==
  OneHolder /\ HoldersAreFenced /\ OrphansAreFenced /\ SentAreFenced /\ SentOnlyOnce

LEMMA PastFenceStays ==
  ASSUME Typed, [Next]_vars, NEW k, PastFence(k)
  PROVE  PastFence(k)'
<1>1. PICK i \in DOMAIN records : IsFirst(i, k) /\ records[i].status \in Fenced \cup {"verified"}
  BY DEF PastFence
<1>2. IsFirst(i, k)' /\ Onward(records[i], records'[i])
  BY <1>1, FirstStaysFirst
<1>3. records'[i].status \in Fenced \cup {"verified"}
  BY <1>1, <1>2 DEF Onward, Terminal
<1> QED
  BY <1>2, <1>3 DEF PastFence, IsFirst

LEMMA FenceGoesUp ==
  ASSUME Typed, NEW k, CompareAndSet(k, "prepared", "submit-started", NoReason)
  PROVE  ~PastFence(k)
<1>1. PICK i \in DOMAIN records : IsFirst(i, k) /\ records[i].status = "prepared"
  BY DEF CompareAndSet
<1>2. \A j : IsFirst(j, k) => j = i
  BY <1>1, FirstIsOne DEF Typed
<1> QED
  BY <1>1, <1>2 DEF PastFence, Fenced

LEMMA FenceIsUp ==
  ASSUME Typed, [Next]_vars, NEW k, CompareAndSet(k, "prepared", "submit-started", NoReason)
  PROVE  PastFence(k)'
<1>1. PICK i \in DOMAIN records :
        /\ IsFirst(i, k)
        /\ records' = [records EXCEPT ![i].status = "submit-started",
                                      ![i].reason = IF "submit-started" \in Closed
                                                      THEN NoReason ELSE NoReason]
  BY DEF CompareAndSet
<1>2. records[i] \in Record /\ records \in Seq(Record)
  BY DEF Typed, StoreTypeOK
<1>3. records'[i].status = "submit-started"
  BY <1>1, <1>2 DEF Record
<1>4. IsFirst(i, k)'
  BY <1>1, FirstStaysFirst
<1> QED
  BY <1>3, <1>4 DEF PastFence, IsFirst, Fenced

(* A task holds the right after a step only if it did before, or if the step   *)
(* is the fence.                                                            *)
LEMMA HoldsFrom ==
  ASSUME Typed, [Next]_vars, NEW k \in Key, NEW p \in Procs, Holds(p, k)'
  PROVE  \/ Holds(p, k)
         \/ /\ CompareAndSet(k, "prepared", "submit-started", NoReason)
            /\ \A q \in Procs \ {p} : Holds(q, k)' => Holds(q, k)
<1>1. task'[p].key = k /\ task[p].key = k /\ (Holding(p) \/ FencesOff(p))
  BY TaskMoves DEF Moves, Holds
<1> QED
  BY <1>1 DEF Holds, FencesOff, Holding

LEMMA OnceHolders ==
  ASSUME Typed, AtMostOnce, [Next]_vars
  PROVE  OneHolder' /\ HoldersAreFenced'
<1> USE DEF AtMostOnce
<1>1. ASSUME NEW k \in Key, NEW p \in Procs, Holds(p, k)', Holds(p, k)
      PROVE  PastFence(k)' /\ k \notin orphans' /\ Sent(k)' = {}
  <2>1. PastFence(k) /\ k \notin orphans /\ Sent(k) = {} /\ \A q \in Procs : Holds(q, k) => q = p
    BY <1>1 DEF OneHolder, HoldersAreFenced
  <2>2. Holding(p)'
    BY <1>1 DEF Holds
  <2>3. PastFence(k)'
    BY <2>1, PastFenceStays
  <2>4. ASSUME NEW q \in Procs, At(q, "press"), task[q].key = k PROVE q = p
    BY <2>1, <2>4 DEF Holds, Holding, At
  <2> QED
    BY <2>1, <2>2, <2>3, <2>4, SentMoves
<1>2. ASSUME NEW k \in Key, NEW p \in Procs, Holds(p, k)', ~Holds(p, k)
      PROVE  /\ PastFence(k)' /\ k \notin orphans' /\ Sent(k)' = {}
             /\ \A q \in Procs \ {p} : ~Holds(q, k)'
  <2>1. /\ CompareAndSet(k, "prepared", "submit-started", NoReason)
        /\ \A q \in Procs \ {p} : Holds(q, k)' => Holds(q, k)
    BY <1>2, HoldsFrom
  <2>2. ~PastFence(k) /\ PastFence(k)'
    BY <2>1, FenceGoesUp, FenceIsUp
  <2>3. /\ k \notin orphans /\ Sent(k) = {}
        /\ \A q \in Procs : ~Holds(q, k)
    BY <2>2 DEF HoldersAreFenced, OrphansAreFenced, SentAreFenced
  <2>4. ASSUME NEW q \in Procs, At(q, "press") PROVE task[q].key # k
    BY <2>3, <2>4 DEF Holds, Holding, At
  <2>5. Holding(p)'
    BY <1>2 DEF Holds
  <2> QED
    BY <2>1, <2>2, <2>3, <2>4, <2>5, SentMoves
<1>3. HoldersAreFenced'
  BY <1>1, <1>2 DEF HoldersAreFenced
<1>4. ASSUME NEW k \in Key, NEW p \in Procs, NEW q \in Procs, Holds(p, k)', Holds(q, k)'
      PROVE  p = q
  <2>1. CASE Holds(p, k) /\ Holds(q, k)
    BY <2>1 DEF OneHolder
  <2>2. CASE ~Holds(p, k) \/ ~Holds(q, k)
    BY <1>2, <1>4, <2>2
  <2> QED
    BY <2>1, <2>2
<1>5. OneHolder'
  BY <1>4 DEF OneHolder
<1> QED
  BY <1>3, <1>5

LEMMA OnceOrphans ==
  ASSUME Typed, AtMostOnce, [Next]_vars
  PROVE  OrphansAreFenced'
<1> SUFFICES ASSUME NEW k \in orphans' PROVE PastFence(k)' /\ Sent(k)' = {}
  BY DEF OrphansAreFenced
<1>1. k \in Key
  BY OrphansStep DEF OrphansOK
<1>2. ASSUME NEW q \in Procs, At(q, "press"), task[q].key = k
      PROVE  PastFence(k) /\ k \notin orphans /\ Sent(k) = {}
  BY <1>1, <1>2 DEF AtMostOnce, HoldersAreFenced, Holds, Holding, At
<1>3. CASE k \in orphans
  <2>1. PastFence(k) /\ Sent(k) = {}
    BY <1>3 DEF AtMostOnce, OrphansAreFenced
  <2>2. Sent(k)' = {}
    BY <1>1, <1>2, <1>3, <2>1, SentMoves
  <2> QED
    BY <2>1, <2>2, PastFenceStays
<1>4. CASE k \notin orphans
  <2>1. \E q \in Procs : At(q, "press") /\ task[q].key = k /\ Sent(k)' = Sent(k)
    BY <1>1, <1>4, SentMoves
  <2> QED
    BY <1>2, <2>1, PastFenceStays
<1> QED
  BY <1>3, <1>4

LEMMA OnceSent ==
  ASSUME Typed, AtMostOnce, [Next]_vars
  PROVE  SentAreFenced' /\ SentOnlyOnce'
<1>1. ASSUME NEW k \in Key
      PROVE  /\ Sent(k)' # {} => PastFence(k)'
             /\ \A m, n \in Sent(k)' : m = n
  <2>1. ASSUME NEW q \in Procs, At(q, "press"), task[q].key = k
        PROVE  PastFence(k) /\ Sent(k) = {}
    BY <2>1 DEF AtMostOnce, HoldersAreFenced, Holds, Holding, At
  <2>2. k \in orphans => PastFence(k) /\ Sent(k) = {}
    BY DEF AtMostOnce, OrphansAreFenced
  <2>3. /\ Sent(k) # {} => PastFence(k)
        /\ \A m, n \in Sent(k) : m = n
    BY DEF AtMostOnce, SentAreFenced, SentOnlyOnce
  <2>4. CASE Sent(k)' = Sent(k)
    BY <2>3, <2>4, PastFenceStays
  <2>5. CASE Sent(k)' # Sent(k)
    <3>1. (\E n : Sent(k)' = Sent(k) \cup {n}) /\ PastFence(k) /\ Sent(k) = {}
      BY <2>1, <2>2, <2>5, SentMoves
    <3> QED
      BY <3>1, PastFenceStays
  <2> QED
    BY <2>4, <2>5
<1> QED
  BY <1>1 DEF SentAreFenced, SentOnlyOnce

LEMMA AtMostOnceInit == Init => AtMostOnce
  BY DEF Init, AtMostOnce, OneHolder, HoldersAreFenced, OrphansAreFenced, SentAreFenced,
     SentOnlyOnce, Holds, Holding, Sent, Idle, Key

LEMMA AtMostOnceStep == Typed /\ AtMostOnce /\ [Next]_vars => AtMostOnce'
  BY OnceHolders, OnceOrphans, OnceSent DEF AtMostOnce

LEMMA OnceIsCounted ==
  ASSUME AtMostOnce, NEW k \in Key
  PROVE  Cardinality(Sent(k)) <= 1 /\ (Sent(k) # {} => Cardinality(Sent(k)) = 1)
<1>1. \A m, n \in Sent(k) : m = n
  BY DEF AtMostOnce, SentOnlyOnce
<1>2. Sent(k) = {} \/ \E n : Sent(k) = {n}
  BY <1>1
<1>3. CASE Sent(k) = {}
  BY <1>3, FS_EmptySet
<1>4. ASSUME NEW n, Sent(k) = {n} PROVE Cardinality(Sent(k)) = 1
  BY <1>4, FS_Singleton
<1> QED
  BY <1>2, <1>3, <1>4

LEMMA SpecAtMostOnce == Spec => []AtMostOnce
  BY AtMostOnceInit, AtMostOnceStep, SpecTyped, PTL DEF Spec

(* A reply is submitted at most once (runNativeDelivery of conversation/       *)
(* realtime-reply-service.ts and the submit of adapters/native-bridge.ts),     *)
(* whatever tasks deliver it, recover it or retry it, however often the        *)
(* process dies or is started again, and however many failures there are.      *)
THEOREM ServiceSubmitsOnce == Spec => []SubmittedOnce
<1>1. Typed /\ AtMostOnce => SubmittedOnce
  <2> SUFFICES ASSUME Typed, AtMostOnce, NEW i \in DOMAIN records
               PROVE  Cardinality(Sent(records[i].key)) <= 1
    BY DEF SubmittedOnce
  <2>1. records[i].key \in Key
    BY DEF Typed, StoreTypeOK, Record
  <2> QED
    BY <2>1, OnceIsCounted
<1> QED
  BY <1>1, SpecTyped, SpecAtMostOnce, PTL

-----------------------------------------------------------------------------
(* Nothing slips in between what a reply answers and the reply.               *)

(* All that came after the last message of k came while its submit was past   *)
(* its last look at the chat.                                              *)
Clear(k) ==
  /\ Last(k.messages) \in Nat
  /\ \A j \in Last(k.messages) + 1 .. Len(chat[k.contact]) : chat[k.contact][j].late

NothingSlipped ==
  \A c \in Contacts : \A n \in DOMAIN chat[c] :
    chat[c][n].from = "bot" =>
      /\ Last(chat[c][n].key.messages) \in Nat
      /\ \A j \in Last(chat[c][n].key.messages) + 1 .. n - 1 : chat[c][j].late

PressesAreClear == \A k \in Key : \A p \in Procs : At(p, "press") /\ task[p].key = k => Clear(k)

OrphansAreClear == \A k \in orphans : Clear(k)

ChatIsClear == NothingSlipped /\ PressesAreClear /\ OrphansAreClear

(* A message that arrives during the key press keeps the chat clear.          *)
LEMMA SaidKeepsClear ==
  ASSUME ChatOK, NEW c \in Contacts, NEW from \in {"contact", "owner", "bot"},
         NEW j \in Key \cup {NoKey}, Say(c, from, j),
         NEW k \in Key, Clear(k), k.contact = c => Pressing(c)
  PROVE  Clear(k)'
<1> DEFINE d == k.contact
<1>1. /\ d \in Contacts /\ Len(chat[d]) \in Nat /\ DOMAIN chat[d] = 1 .. Len(chat[d])
      /\ d # c => chat'[d] = chat[d]
      /\ \A n \in DOMAIN chat[d] : chat'[d][n] = chat[d][n]
      /\ d = c => Len(chat'[d]) = Len(chat[d]) + 1
      /\ d = c => chat'[d][Len(chat[d]) + 1].late
  BY SaidEffect DEF Key
<1>2. Last(k.messages) \in Nat
  BY DEF Clear
<1>3. ASSUME NEW n \in Last(k.messages) + 1 .. Len(chat'[d]) PROVE chat'[d][n].late
  <2>1. CASE d # c
    BY <1>1, <1>3, <2>1 DEF Clear
  <2>2. CASE d = c
    <3>1. n \in Nat /\ n >= 1 /\ n <= Len(chat[d]) + 1 /\ n >= Last(k.messages) + 1
      BY <1>1, <1>2, <2>2
    <3>2. CASE n = Len(chat[d]) + 1
      BY <1>1, <2>2, <3>2
    <3>3. CASE n # Len(chat[d]) + 1
      <4>1. n \in DOMAIN chat[d] /\ n \in Last(k.messages) + 1 .. Len(chat[d])
        BY <1>1, <1>2, <3>1, <3>3
      <4>2. chat[d][n].late
        BY <4>1 DEF Clear
      <4> QED
        BY <1>1, <4>1, <4>2
    <3> QED
      BY <3>2, <3>3
  <2> QED
    BY <2>1, <2>2
<1> QED
  BY <1>2, <1>3 DEF Clear

LEMMA SaidKeepsSlipped ==
  ASSUME ChatOK, NothingSlipped,
         NEW c \in Contacts, NEW from \in {"contact", "owner", "bot"},
         NEW k \in Key \cup {NoKey}, Say(c, from, k),
         from = "bot" => k.contact = c /\ Clear(k)
  PROVE  NothingSlipped'
<1> SUFFICES ASSUME NEW d \in Contacts, NEW n \in DOMAIN chat'[d], chat'[d][n].from = "bot"
             PROVE  /\ Last(chat'[d][n].key.messages) \in Nat
                    /\ \A j \in Last(chat'[d][n].key.messages) + 1 .. n - 1 : chat'[d][j].late
  BY DEF NothingSlipped
<1>1. /\ Len(chat[d]) \in Nat /\ DOMAIN chat[d] = 1 .. Len(chat[d])
      /\ \A m \in DOMAIN chat[d] : chat'[d][m] = chat[d][m]
  BY SaidEffect
<1>2. CASE n \in DOMAIN chat[d]
  <2>1. /\ chat'[d][n] = chat[d][n]
        /\ Last(chat[d][n].key.messages) \in Nat
        /\ \A j \in Last(chat[d][n].key.messages) + 1 .. n - 1 : chat[d][j].late
    BY <1>1, <1>2 DEF NothingSlipped
  <2>2. \A j \in Last(chat[d][n].key.messages) + 1 .. n - 1 : j \in DOMAIN chat[d]
    BY <1>1, <1>2, <2>1
  <2> QED
    BY <1>1, <2>1, <2>2
<1>3. CASE n \notin DOMAIN chat[d]
  <2>1. d = c /\ n = Len(chat[c]) + 1 /\ from = "bot" /\ chat'[c][n].key = k
    BY <1>3, SaidEffect
  <2>2. k.contact = c /\ Last(k.messages) \in Nat
        /\ \A j \in Last(k.messages) + 1 .. Len(chat[c]) : chat[c][j].late
    BY <2>1 DEF Clear
  <2>3. \A j \in Last(k.messages) + 1 .. n - 1 : j \in DOMAIN chat[c] /\ j \in Last(k.messages) + 1 .. Len(chat[c])
    BY <1>1, <2>1, <2>2
  <2> QED
    BY <1>1, <2>1, <2>2, <2>3
<1> QED
  BY <1>2, <1>3

LEMMA ChatIsClearSays ==
  ASSUME Typed, ChatIsClear, [Next]_vars,
         NEW c \in Contacts, NEW from \in {"contact", "owner", "bot"},
         NEW k \in Key \cup {NoKey}, Say(c, from, k),
         from = "bot" => k.contact = c /\ Clear(k),
         orphans' \subseteq orphans
  PROVE  ChatIsClear'
<1>0. ChatOK
  BY DEF Typed
<1>1. NothingSlipped'
  BY <1>0, SaidKeepsSlipped DEF ChatIsClear
<1>2. ASSUME NEW j \in Key, NEW p \in Procs, At(p, "press")', task'[p].key = j
      PROVE  Clear(j)'
  <2>1. Holding(p)' /\ chat' # chat
    <3>1. Len(chat'[c]) = Len(chat[c]) + 1 /\ Len(chat[c]) \in Nat
      BY <1>0, SaidEffect
    <3> QED
      BY <1>2, <3>1 DEF Holding, At
  <2>2. At(p, "press") /\ task[p].key = j
    BY <1>2, <2>1, TaskMoves DEF Moves
  <2>3. Clear(j)
    BY <2>2 DEF ChatIsClear, PressesAreClear
  <2>4. j.contact = p[2]
    BY <2>2, PressedKeys DEF Holding, At
  <2>5. j.contact = c => Pressing(c)
    BY <2>2, <2>4 DEF Pressing
  <2> QED
    BY <1>0, <2>3, <2>5, SaidKeepsClear
<1>3. ASSUME NEW j \in orphans' PROVE Clear(j)'
  <2>1. j \in Key /\ j \in orphans /\ Clear(j)
    BY <1>3 DEF ChatIsClear, OrphansAreClear, Typed, OrphansOK
  <2>2. j.contact = c => Pressing(c)
    BY <2>1 DEF Pressing
  <2> QED
    BY <1>0, <2>1, <2>2, SaidKeepsClear
<1> QED
  BY <1>1, <1>2, <1>3 DEF ChatIsClear, PressesAreClear, OrphansAreClear

LEMMA ChatIsClearRests ==
  ASSUME Typed, ChatIsClear, [Next]_vars, chat' = chat,
         orphans' \subseteq orphans \cup {task[p].key : p \in {q \in Procs : At(q, "press")}}
  PROVE  ChatIsClear'
<1>1. NothingSlipped'
  BY DEF ChatIsClear, NothingSlipped
<1>2. \A j : Clear(j) => Clear(j)'
  BY DEF Clear
<1>3. ASSUME NEW j \in Key, NEW p \in Procs, At(p, "press")', task'[p].key = j
      PROVE  Clear(j)
  <2>1. /\ task[p].key = j
        /\ At(p, "press") \/ (StillLatest(task[p].key) /\ At(p, "native"))
    BY <1>3, TaskMoves DEF Moves, Holding, At
  <2>2. CASE At(p, "press")
    BY <2>1, <2>2 DEF ChatIsClear, PressesAreClear
  <2>3. CASE StillLatest(j)
    <3>1. Len(chat[j.contact]) = Last(j.messages) /\ Len(chat[j.contact]) \in Nat
      BY <2>3 DEF StillLatest, Typed, ChatOK, Key
    <3> QED
      BY <3>1 DEF Clear
  <2> QED
    BY <2>1, <2>2, <2>3
<1>4. ASSUME NEW j \in orphans' PROVE Clear(j)
  <2>1. CASE j \in orphans
    BY <2>1 DEF ChatIsClear, OrphansAreClear
  <2>2. ASSUME NEW p \in Procs, At(p, "press"), task[p].key = j PROVE Clear(j)
    BY <2>2, PressedKeys DEF ChatIsClear, PressesAreClear, Holding, At
  <2> QED
    BY <2>1, <2>2
<1> QED
  BY <1>1, <1>2, <1>3, <1>4 DEF ChatIsClear, PressesAreClear, OrphansAreClear

LEMMA ChatIsClearStep == Typed /\ ChatIsClear /\ [Next]_vars => ChatIsClear'
<1> SUFFICES ASSUME Typed, ChatIsClear, [Next]_vars PROVE ChatIsClear'
  OBVIOUS
<1>1. ASSUME NEW c \in Contacts, NEW from \in {"contact", "owner"}, Say(c, from, NoKey),
             orphans' = orphans
      PROVE  ChatIsClear'
  BY <1>1, ChatIsClearSays
<1>2. ASSUME NEW p \in Procs, Submits(p) PROVE ChatIsClear'
  <2>1. PICK k \in Key : task[p].key = k /\ k.contact = p[2] /\ p[2] \in Contacts
    BY <1>2, PressedKeys DEF Submits, Holding, At
  <2>2. Clear(k) /\ Say(p[2], "bot", k) /\ orphans' = orphans
    BY <1>2, <2>1 DEF Submits, ChatIsClear, PressesAreClear
  <2> QED
    BY <2>1, <2>2, ChatIsClearSays
<1>3. ASSUME NEW k \in orphans, Outlives(k) PROVE ChatIsClear'
  <2>1. k \in Key /\ k.contact \in Contacts /\ Clear(k)
    BY DEF Typed, OrphansOK, Key, ChatIsClear, OrphansAreClear
  <2> QED
    BY <1>3, <2>1, ChatIsClearSays DEF Outlives
<1>4. CASE chat' = chat /\ orphans' = orphans
  BY <1>4, ChatIsClearRests
<1>5. CASE /\ chat' = chat
           /\ orphans' = orphans \cup {task[p].key : p \in {q \in Procs : At(q, "press")}}
  BY <1>5, ChatIsClearRests
<1> QED
  BY <1>1, <1>2, <1>3, <1>4, <1>5, ChatMoves

(* A reply goes out over no message that an earlier look could have seen       *)
(* (assertAuthorizedLatestIncoming and the bridge's own check): whatever       *)
(* stands between the last message it answers and the reply arrived during     *)
(* the native key press.                                                    *)
THEOREM ServiceLetsNothingSlipIn == Spec => []NothingSlipsIn
<1>1. Init => ChatIsClear
  BY DEF Init, ChatIsClear, NothingSlipped, PressesAreClear, OrphansAreClear, At, Idle
<1>2. ChatIsClear => NothingSlipsIn
  BY DEF ChatIsClear, NothingSlipped, NothingSlipsIn
<1> QED
  BY <1>1, <1>2, ChatIsClearStep, SpecTyped, PTL DEF Spec

-----------------------------------------------------------------------------
(* What a step does to the ledger, the chat it answers and the cursor.        *)

LEMMA ChatGrows ==
  ASSUME Typed, [Next]_vars, NEW c \in Contacts, NEW n \in DOMAIN chat[c]
  PROVE  n \in DOMAIN chat'[c] /\ chat'[c][n] = chat[c][n]
<1>0. ChatOK
  BY DEF Typed
<1>1. ASSUME NEW p \in Procs, Submits(p) PROVE n \in DOMAIN chat'[c] /\ chat'[c][n] = chat[c][n]
  <2>1. task[p].key \in Key /\ p[2] \in Contacts
    BY <1>1, PressedKeys DEF Submits, Holding, At
  <2> QED
    BY <1>0, <1>1, <2>1, SaidEffect DEF Submits
<1>2. ASSUME NEW k \in orphans, Outlives(k) PROVE n \in DOMAIN chat'[c] /\ chat'[c][n] = chat[c][n]
  <2>1. k \in Key /\ k.contact \in Contacts
    BY DEF Typed, OrphansOK, Key
  <2> QED
    BY <1>0, <1>2, <2>1, SaidEffect DEF Outlives
<1>3. ASSUME NEW d \in Contacts, NEW from \in {"contact", "owner"}, Say(d, from, NoKey)
      PROVE  n \in DOMAIN chat'[c] /\ chat'[c][n] = chat[c][n]
  BY <1>0, <1>3, SaidEffect
<1> QED
  BY <1>1, <1>2, <1>3, ChatMoves

LEMMA SentGrows ==
  ASSUME Typed, [Next]_vars, NEW k \in Key, Sent(k) # {}
  PROVE  Sent(k)' # {}
  BY SentMoves

(* The ledger changes by a message that joins a batch, by the end of a batch,  *)
(* by a claim, by a task's compare-and-set, or by a sweep; a reply is called   *)
(* verified by a task that proved it, and cancelled as answered by a task or   *)
(* a poll that saw it.                                                      *)
Buffers(c) == Unseen(c, "contact") /\ AppendBufferedMessage(c, Binding(c), seen[c] + 1)

Writes(p, from, to, why) ==
  /\ task[p].key # NoKey
  /\ CompareAndSet(task[p].key, from, to, why)
  /\ to \in Closed => why \in Reasons
  /\ to = "verified" => Proven(p)
  /\ to = "cancelled" /\ why = "OWNER_REPLIED" => Answered(p)

Sweeps(c, why) ==
  /\ CancelPreSubmit(c, why, {})
  /\ why \in Reasons
  /\ why = "OWNER_REPLIED" => poll[c].pc = "cancel"

LedgerMove ==
  /\ chat' = chat /\ seen' = seen
  /\ \/ \E c \in Contacts : Buffers(c)
     \/ \E c \in Contacts : ClearBufferedBatch(c)
     \/ \E c \in Contacts : ClaimBufferedBatch(c)
     \/ \E p \in Procs : \E from, to, why : Writes(p, from, to, why)
     \/ \E c \in Contacts, why \in Reasons : Sweeps(c, why)

LEMMA CASWrites ==
  ASSUME Typed, NEW p \in Procs, NEW from, NEW to, NEW why, NEW yes, NEW no,
         CAS(p, from, to, why, yes, no), task[p].pc \notin Keyless,
         to \in Closed => why \in Reasons,
         to = "verified" => Proven(p),
         to = "cancelled" /\ why = "OWNER_REPLIED" => Answered(p)
  PROVE  UNCHANGED storeVars \/ \E f, t, w : Writes(p, f, t, w)
<1>1. task[p].key # NoKey
  BY DEF Typed, TaskOK
<1> QED
  BY <1>1 DEF CAS, Writes

LEMMA DeliverLedger ==
  ASSUME Typed, NEW p \in Procs, DeliverNext(p)
  PROVE  \/ UNCHANGED storeVars
         \/ LedgerMove
<1>r. /\ \A why \in {"OWNER_REPLIED", "CONTACT_CHANGED", "NO_REPLY", "SOURCE_BLOCKED"} :
           why \in Reasons
      /\ "verified" \notin Closed
      /\ p[2] \in Contacts
  BY ServiceReasonsAssumption DEF Closed, Procs
<1> USE DEF Keyless, At
<1>1. CASE FlushClaims(p)
  BY <1>1, <1>r DEF FlushClaims, LedgerMove, Rest
<1>2. CASE FlushMarks(p)
  <2>1. UNCHANGED storeVars \/ \E f, t, w : Writes(p, f, t, w)
    BY <1>2, CASWrites DEF FlushMarks, Closed
  <2> QED
    BY <1>2, <2>1 DEF FlushMarks, LedgerMove, Rest
<1>3. CASE FlushGenerates(p)
  <2>1. UNCHANGED storeVars \/ \E f, t, w : Writes(p, f, t, w)
    BY <1>3, <1>r, CASWrites DEF FlushGenerates, Closed
  <2> QED
    BY <1>3, <2>1 DEF FlushGenerates, LedgerMove, Rest
<1>4. CASE CancelChanged(p)
  <2>1. UNCHANGED storeVars \/ \E f, t, w : Writes(p, f, t, w)
    BY <1>4, <1>r, CASWrites DEF CancelChanged
  <2> QED
    BY <1>4, <2>1 DEF CancelChanged, LedgerMove, Rest
<1>5. CASE FenceReply(p)
  <2>1. ASSUME CompareAndSet(task[p].key, "prepared", "submit-started", NoReason)
        PROVE  \E f, t, w : Writes(p, f, t, w)
    BY <1>5, <2>1 DEF FenceReply, Writes, Closed, Typed, TaskOK
  <2> QED
    BY <1>5, <2>1 DEF FenceReply, LedgerMove, Rest
<1>6. CASE Settle(p)
  <2>1. UNCHANGED storeVars \/ \E f, t, w : Writes(p, f, t, w)
    <3>1. task[p].outcome = "verified" => Proven(p)
      BY <1>6 DEF Settle, Proven
    <3>2. CASE task[p].outcome \notin Closed
      BY <1>6, <3>1, <3>2, CASWrites DEF Settle, Closed
    <3>3. CASE task[p].outcome \in Closed
      BY <1>6, <3>3 DEF Settle, CAS, CompareAndSet, Transitions, PreSubmit, Closed
    <3> QED
      BY <3>2, <3>3
  <2> QED
    BY <1>6, <2>1 DEF Settle, LedgerMove, Rest
<1>7. CASE CancelOwnerReplied(p)
  <2>1. UNCHANGED storeVars \/ \E f, t, w : Writes(p, f, t, w)
    BY <1>7, <1>r, CASWrites DEF CancelOwnerReplied, Answered
  <2> QED
    BY <1>7, <2>1 DEF CancelOwnerReplied, LedgerMove, Rest
<1>8. CASE CloseFailed(p)
  <2>1. UNCHANGED storeVars \/ \E f, t, w : Writes(p, f, t, w)
    BY <1>8, <1>r, CASWrites DEF CloseFailed, Closed
  <2> QED
    BY <1>8, <2>1 DEF CloseFailed, LedgerMove, Rest
<1>9. CASE Get1(p) \/ JoinPoll(p) \/ Get2(p) \/ Admit(p) \/ Check(p) \/ NativeCheck(p)
           \/ Press(p) \/ Readback(p) \/ CloseSession(p) \/ AfterFailure(p)
           \/ WakeContact(p) \/ Finish(p)
  BY <1>9 DEF Get1, JoinPoll, Get2, Admit, Check, NativeCheck, Press, Readback,
     CloseSession, AfterFailure, WakeContact, Finish
<1> QED
  BY <1>1, <1>2, <1>3, <1>4, <1>5, <1>6, <1>7, <1>8, <1>9 DEF DeliverNext

LEMMA LedgerMoves ==
  ASSUME Typed, [Next]_vars
  PROVE  UNCHANGED storeVars \/ LedgerMove
<1>r. {"OWNER_REPLIED", "CONTACT_CHANGED", "RECOVERY_CANCELLED"} \subseteq Reasons
  BY ServiceReasonsAssumption
<1>1. ASSUME NEW c \in Contacts, PollNext(c) PROVE UNCHANGED storeVars \/ LedgerMove
  <2>1. CASE ReceiveIncoming(c)
    BY <2>1 DEF ReceiveIncoming, LedgerMove, Buffers
  <2>2. CASE ReceiveOutgoing(c)
    BY <2>2 DEF ReceiveOutgoing, LedgerMove
  <2>3. CASE PollCancels(c)
    BY <1>r, <2>3 DEF PollCancels, LedgerMove, Sweeps
  <2>4. CASE TickPoll(c) \/ PollDone(c) \/ PollFails(c) \/ PollSchedules(c) \/ PollWakes(c)
             \/ PollCommits(c)
    BY <2>4 DEF TickPoll, PollDone, PollFails, PollSchedules, PollWakes, PollCommits
  <2> QED
    BY <1>1, <2>1, <2>2, <2>3, <2>4 DEF PollNext
<1>2. ASSUME NEW c \in Contacts, ReplaceNext(c) PROVE UNCHANGED storeVars \/ LedgerMove
  <2>1. CASE ReplaceCancels(c)
    BY <1>r, <2>1 DEF ReplaceCancels, LedgerMove, Sweeps
  <2> QED
    BY <1>2, <2>1 DEF ReplaceNext, ReplaceBegins, ReplaceWakes, ReplaceStarts
<1>3. ASSUME NEW p \in Procs, RecoverNext(p) PROVE UNCHANGED storeVars \/ LedgerMove
  <2>1. CASE RecoveryCloses(p)
    <3>1. UNCHANGED storeVars \/ \E f, t, w : Writes(p, f, t, w)
      BY <1>r, <2>1, CASWrites DEF RecoveryCloses, Closed, Keyless, At
    <3> QED
      BY <2>1, <3>1 DEF RecoveryCloses, LedgerMove, Rest
  <2>2. CASE RecoveryVerifies(p)
    <3>1. UNCHANGED storeVars \/ \E f, t, w : Writes(p, f, t, w)
      BY <2>2, CASWrites DEF RecoveryVerifies, Closed, Keyless, At, Proven
    <3> QED
      BY <2>2, <3>1 DEF RecoveryVerifies, LedgerMove, Rest
  <2> QED
    BY <1>3, <2>1, <2>2 DEF RecoverNext, RecoveryAdmit, RecoveryReads
<1>4. ASSUME NEW c \in Contacts,
             \/ Write(c) \/ Reenroll(c)
             \/ TimerArms(c) \/ TimerFires(c) \/ TickDelivers(c) \/ RecoveryLists(c)
      PROVE  UNCHANGED storeVars
  BY <1>4 DEF Write, Reenroll, TimerArms, TimerFires, TickDelivers, RecoveryLists
<1>5. CASE Start \/ Stop \/ StopCompletes \/ Exit \/ Crash \/ P0Asks \/ P0Takes
           \/ P0Releases \/ UNCHANGED vars
  BY <1>5 DEF Start, Stop, StopCompletes, Exit, Crash, Down, P0Asks, P0Takes, P0Releases,
     vars, storeVars
<1>6. ASSUME NEW k \in orphans, OrphanPresses(k) PROVE UNCHANGED storeVars
  BY <1>6 DEF OrphanPresses
<1> QED
  BY <1>1, <1>2, <1>3, <1>4, <1>5, <1>6, DeliverLedger DEF Next

(* The cursor goes over one message at a time, or to the end of the chat; and  *)
(* it stays put while a poll deals with an outgoing message.                  *)
CursorMove(c) ==
  /\ \/ seen'[c] \in {seen[c], seen[c] + 1}
     \/ seen'[c] = Len(chat[c]) /\ chat' = chat
  /\ poll'[c].pc = "cancel" =>
       /\ seen'[c] = seen[c]
       /\ \/ poll[c].pc = "cancel"
          \/ Unseen(c, "outgoing") /\ chat' = chat

LEMMA CursorMoves ==
  ASSUME Typed, [Next]_vars, NEW c \in Contacts
  PROVE  CursorMove(c)
<1> USE DEF CursorMove
<1>0. /\ seen \in [Contacts -> Nat] /\ DOMAIN poll = Contacts
      /\ \A d \in Contacts : poll[d] = [pc |-> poll[d].pc, upto |-> poll[d].upto]
  BY DEF Typed, PollOK
<1>1. ASSUME UNCHANGED <<seen, poll>> PROVE CursorMove(c)
  BY <1>1
<1>2. ASSUME NEW d \in Contacts, UNCHANGED seen, PollGoto(d, "schedule") \/ PollGoto(d, "commit")
                                                 \/ PollGoto(d, "wake") \/ PollGoto(d, "next")
      PROVE  CursorMove(c)
  <2>1. poll'[d].pc # "cancel" /\ (d # c => poll'[c] = poll[c])
    BY <1>0, <1>2 DEF PollGoto
  <2> QED
    BY <1>2, <2>1
<1>3. ASSUME NEW d \in Contacts, UNCHANGED seen, poll' = [poll EXCEPT ![d] = NoPoll] \/ StartPoll(d)
      PROVE  CursorMove(c)
  <2>1. poll'[d].pc # "cancel" /\ (d # c => poll'[c] = poll[c])
    BY <1>0, <1>3 DEF NoPoll, StartPoll
  <2> QED
    BY <1>3, <2>1
<1>4. ASSUME NEW d \in Contacts, PollNext(d) PROVE CursorMove(c)
  <2>1. CASE TickPoll(d)
    BY <1>3, <2>1 DEF TickPoll
  <2>2. CASE PollDone(d) \/ PollFails(d)
    BY <1>3, <2>2 DEF PollDone, PollFails, PollSettles
  <2>3. CASE ReceiveIncoming(d)
    BY <1>2, <1>3, <2>3 DEF ReceiveIncoming, PollSettles
  <2>4. CASE PollSchedules(d) \/ PollCancels(d) \/ PollWakes(d)
    BY <1>2, <2>4 DEF PollSchedules, PollCancels, PollWakes
  <2>5. CASE ReceiveOutgoing(d)
    <3>1. d # c => poll'[c] = poll[c]
      BY <1>0, <2>5 DEF ReceiveOutgoing, PollGoto
    <3> QED
      BY <2>5, <3>1 DEF ReceiveOutgoing
  <2>6. CASE PollCommits(d)
    <3>1. /\ d # c => poll'[c] = poll[c] /\ seen'[c] = seen[c]
          /\ d = c => poll'[c].pc = "next" /\ seen'[c] = seen[c] + 1
      BY <1>0, <2>6 DEF PollCommits, PollGoto
    <3> QED
      BY <3>1
  <2> QED
    BY <1>4, <2>1, <2>2, <2>3, <2>4, <2>5, <2>6 DEF PollNext
<1>5. ASSUME NEW p \in Procs, JoinPoll(p) PROVE CursorMove(c)
  <2>1. p[2] \in Contacts
    BY DEF Procs
  <2> QED
    BY <1>1, <1>3, <1>5, <2>1 DEF JoinPoll
<1>6. ASSUME NEW d \in Contacts, ReplaceNext(d) PROVE CursorMove(c)
  <2>1. CASE ReplaceStarts(d)
    <3>1. /\ d # c => seen'[c] = seen[c]
          /\ d = c => seen'[c] = Len(chat[c]) /\ poll[c] = NoPoll
      BY <1>0, <2>1 DEF ReplaceStarts
    <3> QED
      BY <2>1, <3>1 DEF ReplaceStarts, NoPoll
  <2>2. CASE ~ReplaceStarts(d)
    BY <1>1, <1>6, <2>2 DEF ReplaceNext, ReplaceBegins, ReplaceCancels, ReplaceWakes
  <2> QED
    BY <2>1, <2>2
<1>7. CASE Start
  <2>1. poll[c] = NoPoll /\ poll' = poll /\ seen'[c] = Len(chat[c]) /\ chat' = chat
    BY <1>7 DEF Start, Typed, Asleep
  <2> QED
    BY <2>1 DEF NoPoll
<1>8. CASE Exit \/ Crash
  <2>1. seen' = seen /\ poll'[c].pc # "cancel"
    BY <1>8 DEF Exit, Crash, Down, NoPoll
  <2> QED
    BY <2>1
<1>9. ASSUME NEW d \in Contacts,
             \/ Write(d) \/ Reenroll(d)
             \/ TimerArms(d) \/ TimerFires(d) \/ TickDelivers(d) \/ RecoveryLists(d)
      PROVE  CursorMove(c)
  BY <1>1, <1>9 DEF Write, Reenroll, TimerArms, TimerFires, TickDelivers, RecoveryLists, Rest,
     volatile
<1>10. ASSUME NEW p \in Procs, RecoverNext(p) \/ (DeliverNext(p) /\ ~JoinPoll(p))
       PROVE  CursorMove(c)
  <2>1. UNCHANGED <<seen, poll>>
    BY <1>10 DEF DeliverNext, RecoverNext, FlushClaims, FlushMarks, FlushGenerates, Get1,
       Get2, CancelChanged, Admit, Check, FenceReply, NativeCheck, Press, Readback,
       CloseSession, Settle, CancelOwnerReplied, AfterFailure, CloseFailed, WakeContact,
       Finish, RecoveryCloses, RecoveryAdmit, RecoveryReads, RecoveryVerifies, Rest
  <2> QED
    BY <1>1, <2>1
<1>11. CASE Stop \/ StopCompletes \/ P0Asks \/ P0Takes \/ P0Releases \/ UNCHANGED vars
  BY <1>1, <1>11 DEF Stop, StopCompletes, P0Asks, P0Takes, P0Releases, vars, volatile
<1>12. ASSUME NEW k \in orphans, OrphanPresses(k) PROVE CursorMove(c)
  BY <1>1, <1>12 DEF OrphanPresses, volatile
<1> HIDE DEF CursorMove
<1> QED
  BY <1>4, <1>5, <1>6, <1>7, <1>8, <1>9, <1>10, <1>11, <1>12 DEF Next

-----------------------------------------------------------------------------
(* What a reply answers is in the chat.                                     *)

(* S is of messages the contact wrote, and of none the source has yet to      *)
(* deliver.                                                                *)
InChat(c, S) ==
  \A m \in S : m \in DOMAIN chat[c] /\ chat[c][m].from = "contact" /\ m <= seen[c] + 1

(* What a task carries is in the ledger; a poll that is about to cancel what   *)
(* the owner answered looks at a message that the contact did not write.      *)
Heard ==
  /\ \A i \in DOMAIN records : InChat(records[i].key.contact, records[i].key.messages)
  /\ \A c \in Contacts : batches[c] # NoBatch => InChat(c, batches[c].messages)
  /\ \A p \in Procs : task[p].key # NoKey =>
       \E i \in DOMAIN records : records[i].key = task[p].key
  /\ \A c \in Contacts : poll[c].pc = "cancel" =>
       seen[c] + 1 \in DOMAIN chat[c] /\ chat[c][seen[c] + 1].from # "contact"

LEMMA InChatStays ==
  ASSUME Typed, [Next]_vars, NEW c \in Contacts, NEW S, InChat(c, S)
  PROVE  InChat(c, S)'
<1> SUFFICES ASSUME NEW m \in S
             PROVE  m \in DOMAIN chat'[c] /\ chat'[c][m].from = "contact" /\ m <= seen'[c] + 1
  BY DEF InChat
<1>1. /\ m \in DOMAIN chat[c] /\ chat[c][m].from = "contact" /\ m <= seen[c] + 1
      /\ m \in DOMAIN chat'[c] /\ chat'[c][m] = chat[c][m]
  BY ChatGrows DEF InChat
<1>2. /\ Len(chat[c]) \in Nat /\ DOMAIN chat[c] = 1 .. Len(chat[c])
      /\ seen[c] \in Nat
  BY DEF Typed, ChatOK, PollOK
<1>3. m \in Nat /\ m <= Len(chat[c])
  BY <1>1, <1>2
<1> QED
  BY <1>1, <1>2, <1>3, CursorMoves DEF CursorMove

(* Every reply of the ledger was there or was the batch of its contact, and   *)
(* every batch was there or has just got its last message.                    *)
LEMMA LedgerKeys ==
  ASSUME Typed, [Next]_vars
  PROVE  /\ \A i \in DOMAIN records' :
              \/ i \in DOMAIN records /\ records'[i].key = records[i].key
              \/ \E c \in Contacts : batches[c] # NoBatch /\ records'[i].key = BatchKey(c)
         /\ \A c \in Contacts :
              \/ batches'[c] \in {batches[c], NoBatch}
              \/ /\ Unseen(c, "contact") /\ chat' = chat /\ seen' = seen
                 /\ batches'[c].messages = BufferedAfter(c, Binding(c), seen[c] + 1)
<1> DEFINE Claimed == \A i \in DOMAIN records' :
                        \/ i \in DOMAIN records /\ records'[i].key = records[i].key
                        \/ \E c \in Contacts : batches[c] # NoBatch /\ records'[i].key = BatchKey(c)
           Buffered(c) == \/ batches'[c] \in {batches[c], NoBatch}
                          \/ /\ Unseen(c, "contact") /\ chat' = chat /\ seen' = seen
                             /\ batches'[c].messages = BufferedAfter(c, Binding(c), seen[c] + 1)
<1>0. StoreTypeOK
  BY DEF Typed
<1>1. CASE UNCHANGED storeVars
  BY <1>1 DEF storeVars
<1>2. ASSUME NEW c \in Contacts, Buffers(c), chat' = chat, seen' = seen
      PROVE  Claimed /\ \A d \in Contacts : Buffered(d)
  <2> DEFINE b == [binding |-> Binding(c), messages |-> BufferedAfter(c, Binding(c), seen[c] + 1)]
  <2>1. batches' = [batches EXCEPT ![c] = b] /\ records' = records
    BY <1>2 DEF Buffers, AppendBufferedMessage
  <2>2. b.messages = BufferedAfter(c, Binding(c), seen[c] + 1)
    OBVIOUS
  <2> HIDE DEF b
  <2>3. batches'[c] = b /\ \A d \in Contacts \ {c} : batches'[d] = batches[d]
    BY <1>0, <2>1 DEF StoreTypeOK
  <2> QED
    BY <1>2, <2>1, <2>2, <2>3 DEF Buffers
<1>3. ASSUME NEW c \in Contacts, ClearBufferedBatch(c)
      PROVE  Claimed /\ \A d \in Contacts : Buffered(d)
  BY <1>0, <1>3 DEF ClearBufferedBatch, StoreTypeOK
<1>4. ASSUME NEW c \in Contacts, ClaimBufferedBatch(c)
      PROVE  Claimed /\ \A d \in Contacts : Buffered(d)
  <2>1. BatchKey(c) \in Key /\ records' = Append(records, NewRecord(BatchKey(c)))
    BY <1>0, <1>4, BatchKeyIsKey DEF ClaimBufferedBatch
  <2>2. NewRecord(BatchKey(c)).key = BatchKey(c)
    BY DEF NewRecord
  <2>3. \A i \in DOMAIN records' :
          \/ i \in DOMAIN records /\ records'[i] = records[i]
          \/ records'[i] = NewRecord(BatchKey(c))
    BY <1>0, <2>1, AppendedRecord
  <2> QED
    BY <1>0, <1>4, <2>2, <2>3 DEF ClaimBufferedBatch, StoreTypeOK
<1>5. ASSUME NEW p \in Procs, NEW from, NEW to, NEW why, Writes(p, from, to, why)
      PROVE  Claimed /\ \A d \in Contacts : Buffered(d)
  BY <1>0, <1>5, CompareAndSetEffect DEF Writes
<1>6. ASSUME NEW c \in Contacts, NEW why \in Reasons, Sweeps(c, why)
      PROVE  Claimed /\ \A d \in Contacts : Buffered(d)
  BY <1>0, <1>6, CancelPreSubmitEffect DEF Sweeps
<1>7. UNCHANGED storeVars \/ LedgerMove
  BY LedgerMoves
<1> HIDE DEF Claimed, Buffered
<1>8. CASE LedgerMove
  <2>1. Claimed /\ \A d \in Contacts : Buffered(d)
    BY <1>2, <1>3, <1>4, <1>5, <1>6, <1>8 DEF LedgerMove
  <2> QED
    BY <2>1 DEF Claimed, Buffered
<1> QED
  BY <1>1, <1>7, <1>8

LEMMA HeardStep == Typed /\ Heard /\ [Next]_vars => Heard'
<1> SUFFICES ASSUME Typed, Heard, [Next]_vars PROVE Heard'
  OBVIOUS
<1>1. ASSUME NEW i \in DOMAIN records'
      PROVE  InChat(records[i].key.contact, records[i].key.messages)'
  <2>1. ASSUME i \in DOMAIN records, records'[i].key = records[i].key
        PROVE  InChat(records[i].key.contact, records[i].key.messages)'
    <3>1. PICK k \in Key : k = records[i].key
      BY <2>1 DEF Typed, StoreTypeOK, Record
    <3>2. InChat(k.contact, k.messages) /\ k.contact \in Contacts
      BY <2>1, <3>1 DEF Heard, Key
    <3>3. InChat(k.contact, k.messages)'
      BY <3>2, InChatStays
    <3> QED
      BY <2>1, <3>1, <3>3 DEF InChat
  <2>2. ASSUME NEW c \in Contacts, batches[c] # NoBatch, records'[i].key = BatchKey(c)
        PROVE  InChat(records[i].key.contact, records[i].key.messages)'
    <3>1. PICK k \in Key : k = BatchKey(c)
      BY <2>2, BatchKeyIsKey DEF Typed
    <3>2. InChat(k.contact, k.messages) /\ k.contact \in Contacts
      BY <2>2, <3>1 DEF Heard, BatchKey
    <3>3. InChat(k.contact, k.messages)'
      BY <3>2, InChatStays
    <3> QED
      BY <2>2, <3>1, <3>3 DEF InChat
  <2> QED
    BY <2>1, <2>2, LedgerKeys
<1>2. ASSUME NEW c \in Contacts, batches'[c] # NoBatch
      PROVE  InChat(c, batches[c].messages)'
  <2>1. CASE batches'[c] = batches[c]
    <3>1. PICK S : S = batches[c].messages
      OBVIOUS
    <3>2. InChat(c, S)'
      BY <1>2, <2>1, <3>1, InChatStays DEF Heard
    <3> QED
      BY <2>1, <3>1, <3>2 DEF InChat
  <2>2. CASE /\ Unseen(c, "contact") /\ chat' = chat /\ seen' = seen
             /\ batches'[c].messages = BufferedAfter(c, Binding(c), seen[c] + 1)
    <3>1. seen[c] + 1 \in DOMAIN chat[c] /\ chat[c][seen[c] + 1].from = "contact"
      BY <2>2 DEF Unseen, Typed, PollOK, ChatOK
    <3>2. seen[c] + 1 <= seen[c] + 1
      BY DEF Typed, PollOK
    <3>3. InChat(c, BufferedAfter(c, Binding(c), seen[c] + 1))
      BY <3>1, <3>2 DEF InChat, BufferedAfter, Heard
    <3> QED
      BY <2>2, <3>3 DEF InChat
  <2> QED
    BY <1>2, <2>1, <2>2, LedgerKeys
<1>3. ASSUME NEW p \in Procs, task'[p].key # NoKey
      PROVE  \E i \in DOMAIN records' : records'[i].key = task'[p].key
  <2>1. CASE task'[p].key = task[p].key
    <3>1. PICK i \in DOMAIN records : records[i].key = task[p].key
      BY <1>3, <2>1 DEF Heard
    <3> QED
      BY <2>1, <3>1, LedgerGrows DEF Onward
  <2> QED
    BY <1>3, <2>1, TaskMoves DEF Moves
<1>4. ASSUME NEW c \in Contacts, poll'[c].pc = "cancel"
      PROVE  seen'[c] + 1 \in DOMAIN chat'[c] /\ chat'[c][seen'[c] + 1].from # "contact"
  <2>1. seen'[c] = seen[c]
    BY <1>4, CursorMoves DEF CursorMove
  <2>2. CASE poll[c].pc = "cancel"
    BY <2>1, <2>2, ChatGrows DEF Heard
  <2>3. CASE Unseen(c, "outgoing") /\ chat' = chat
    BY <2>1, <2>3 DEF Unseen, Typed, PollOK, ChatOK
  <2> QED
    BY <1>4, <2>2, <2>3, CursorMoves DEF CursorMove
<1> QED
  BY <1>1, <1>2, <1>3, <1>4 DEF Heard

LEMMA SpecHeard == Spec => []Heard
<1>1. Init => Heard
  BY DEF Init, StoreInit, Heard, Idle, NoPoll
<1> QED
  BY <1>1, HeardStep, SpecTyped, PTL DEF Spec

(* The last message of a reply is one of its messages, and is in the chat.     *)
LEMMA LastIsHeard ==
  ASSUME Typed, Heard, NEW i \in DOMAIN records, NEW k, records[i].key = k
  PROVE  /\ Last(k.messages) \in Nat /\ Last(k.messages) <= Len(chat[k.contact])
         /\ Last(k.messages) \in k.messages
<1>1. k \in Key /\ InChat(k.contact, k.messages)
  BY DEF Heard, Typed, StoreTypeOK, Record
<1>2. k.contact \in Contacts /\ k.messages # {}
  BY <1>1 DEF Key, MessageSets
<1>3. Len(chat[k.contact]) \in Nat /\ DOMAIN chat[k.contact] = 1 .. Len(chat[k.contact])
  BY <1>2 DEF Typed, ChatOK
<1>4. k.messages \in SUBSET Nat /\ \A m \in k.messages : m <= Len(chat[k.contact])
  BY <1>1, <1>3 DEF InChat
<1>5. Last(k.messages) \in k.messages
  BY <1>2, <1>3, <1>4, LastIsLast
<1> QED
  BY <1>4, <1>5

-----------------------------------------------------------------------------
(* How a record changes: by the compare-and-set of a task that carries it, or  *)
(* by a sweep while it is before its fence.                                  *)

LEMMA WritesOneRecord ==
  ASSUME StoreTypeOK, NEW k, NEW from, NEW to, NEW why, CompareAndSet(k, from, to, why)
  PROVE  \E i \in DOMAIN records :
           /\ IsFirst(i, k) /\ <<from, to>> \in Transitions
           /\ records[i].status = from
           /\ DOMAIN records' = DOMAIN records
           /\ \A j \in DOMAIN records \ {i} : records'[j] = records[j]
           /\ records'[i].key = k /\ records'[i].status = to
           /\ records'[i].reason = IF to \in Closed THEN why ELSE NoReason
<1>1. PICK i \in DOMAIN records :
        /\ IsFirst(i, k)
        /\ records[i].status = from
        /\ records' = [records EXCEPT ![i].status = to,
                                      ![i].reason = IF to \in Closed THEN why ELSE NoReason]
  BY DEF CompareAndSet
<1>2. records \in Seq(Record) /\ records[i] \in Record /\ records[i].key = k
  BY <1>1 DEF StoreTypeOK, IsFirst
<1> DEFINE new == [records[i] EXCEPT !.status = to,
                                     !.reason = IF to \in Closed THEN why ELSE NoReason]
<1>3. /\ new.status = to /\ new.key = k
      /\ new.reason = IF to \in Closed THEN why ELSE NoReason
  BY <1>2 DEF Record
<1>4. records' = [records EXCEPT ![i] = new]
  BY <1>1, <1>2 DEF Record
<1> HIDE DEF new
<1>5. /\ DOMAIN records' = DOMAIN records
      /\ \A j \in DOMAIN records \ {i} : records'[j] = records[j]
      /\ records'[i] = new
  BY <1>2, <1>4
<1> QED
  BY <1>1, <1>3, <1>5 DEF CompareAndSet

RecordMove(i) ==
  \/ i \in DOMAIN records /\ records'[i] = records[i]
  \/ /\ i \notin DOMAIN records /\ records'[i].status = "new"
     /\ \E c \in Contacts : ClaimBufferedBatch(c) /\ records'[i].key = BatchKey(c)
  \/ /\ i \in DOMAIN records /\ records'[i].key = records[i].key
     /\ \E p \in Procs : \E from, to, why :
          /\ Writes(p, from, to, why) /\ <<from, to>> \in Transitions
          /\ IsFirst(i, task[p].key)
          /\ records[i].status = from /\ records'[i].status = to
          /\ records'[i].reason = IF to \in Closed THEN why ELSE NoReason
  \/ /\ i \in DOMAIN records /\ records'[i].key = records[i].key
     /\ records[i].status \in PreSubmit /\ records'[i].status = "cancelled"
     /\ \E c \in Contacts, why \in Reasons :
          Sweeps(c, why) /\ records[i].key.contact = c /\ records'[i].reason = why

LEMMA RecordMoves ==
  ASSUME Typed, [Next]_vars, NEW i \in DOMAIN records'
  PROVE  RecordMove(i) /\ (records'[i] = records[i] \/ (chat' = chat /\ seen' = seen))
<1>0. StoreTypeOK
  BY DEF Typed
<1>1. ASSUME records' = records PROVE RecordMove(i)
  BY <1>1 DEF RecordMove
<1>2. ASSUME NEW c \in Contacts, ClaimBufferedBatch(c) PROVE RecordMove(i)
  <2>1. BatchKey(c) \in Key /\ records' = Append(records, NewRecord(BatchKey(c)))
    BY <1>0, <1>2, BatchKeyIsKey DEF ClaimBufferedBatch
  <2>2. NewRecord(BatchKey(c)).key = BatchKey(c) /\ NewRecord(BatchKey(c)).status = "new"
    BY DEF NewRecord
  <2>3. \/ i \in DOMAIN records /\ records'[i] = records[i]
        \/ i \notin DOMAIN records /\ records'[i] = NewRecord(BatchKey(c))
    BY <1>0, <2>1, AppendedRecord
  <2> QED
    BY <1>2, <2>2, <2>3 DEF RecordMove
<1>3. ASSUME NEW p \in Procs, NEW from, NEW to, NEW why, Writes(p, from, to, why)
      PROVE  RecordMove(i)
  <2>1. PICK j \in DOMAIN records :
           /\ IsFirst(j, task[p].key) /\ <<from, to>> \in Transitions
           /\ records[j].status = from
           /\ DOMAIN records' = DOMAIN records
           /\ \A n \in DOMAIN records \ {j} : records'[n] = records[n]
           /\ records'[j].key = task[p].key /\ records'[j].status = to
           /\ records'[j].reason = IF to \in Closed THEN why ELSE NoReason
    BY <1>0, <1>3, WritesOneRecord DEF Writes
  <2>2. CASE i = j
    BY <1>3, <2>1, <2>2 DEF RecordMove, IsFirst
  <2>3. CASE i # j
    BY <2>1, <2>3 DEF RecordMove
  <2> QED
    BY <2>2, <2>3
<1>4. ASSUME NEW c \in Contacts, NEW why \in Reasons, Sweeps(c, why) PROVE RecordMove(i)
  <2>1. i \in DOMAIN records /\ records'[i] = Cancelled(records[i], c, why, {})
    BY <1>4 DEF Sweeps, CancelPreSubmit
  <2>2. records[i] \in Record
    BY <1>0, <2>1 DEF StoreTypeOK
  <2>3. CASE records'[i] = records[i]
    BY <2>1, <2>3 DEF RecordMove
  <2>4. CASE records'[i] # records[i]
    <3>1. /\ records[i].key.contact = c /\ records[i].status \in PreSubmit
          /\ records'[i] = [records[i] EXCEPT !.status = "cancelled", !.reason = why]
      BY <2>1, <2>4 DEF Cancelled
    <3>2. /\ records'[i].key = records[i].key /\ records'[i].status = "cancelled"
          /\ records'[i].reason = why
      BY <2>2, <3>1 DEF Record
    <3> QED
      BY <1>4, <2>1, <3>1, <3>2 DEF RecordMove
  <2> QED
    BY <2>3, <2>4
<1>5. RecordMove(i)
  <2>1. CASE UNCHANGED storeVars
    BY <1>1, <2>1 DEF storeVars
  <2>2. CASE LedgerMove
    BY <1>1, <1>2, <1>3, <1>4, <2>2
       DEF LedgerMove, Buffers, AppendBufferedMessage, ClearBufferedBatch
  <2> QED
    BY <2>1, <2>2, LedgerMoves
<1>6. UNCHANGED storeVars \/ LedgerMove
  BY LedgerMoves
<1> QED
  BY <1>5, <1>6 DEF LedgerMove, storeVars

-----------------------------------------------------------------------------
(* A reply that is called verified was submitted.                           *)

ProvenWereSent == \A k \in Key : \A p \in Procs : Proven(p) /\ task[p].key = k => Sent(k) # {}

VerifiedInv == VerifiedWasSubmitted /\ ProvenWereSent

LEMMA AppendIsSent ==
  ASSUME Typed, Heard, BotsCarryKeys, NEW k \in Key, NEW p \in Procs, task[p].key = k,
         ProvesAppend(k)
  PROVE  Sent(k) # {}
<1>1. PICK i \in DOMAIN records : records[i].key = k
  BY NoKeyAssumption DEF Heard
<1>2. Last(k.messages) \in Nat /\ k.contact \in Contacts
  BY <1>1, LastIsHeard DEF Key
<1> DEFINE ch == chat[k.contact]
<1>3. Len(ch) \in DOMAIN ch /\ ch[Len(ch)].key = k
  BY <1>2 DEF ProvesAppend, Typed, ChatOK
<1>4. ch[Len(ch)].from = "bot"
  BY <1>2, <1>3, NoKeyAssumption DEF BotsCarryKeys
<1> QED
  BY <1>3, <1>4 DEF Sent

LEMMA VerifiedStep ==
  Typed /\ Heard /\ BotsCarryKeys /\ VerifiedInv /\ [Next]_vars => VerifiedInv'
<1> SUFFICES ASSUME Typed, Heard, BotsCarryKeys, VerifiedInv, [Next]_vars PROVE VerifiedInv'
  OBVIOUS
<1>1. ASSUME NEW k \in Key, NEW p \in Procs, Proven(p)', task'[p].key = k
      PROVE  Sent(k)' # {}
  <2>1. task[p].key = k /\ (Proven(p) \/ ProvesAppend(k))
    BY <1>1, TaskMoves DEF Moves
  <2>2. Sent(k) # {}
    BY <2>1, AppendIsSent DEF VerifiedInv, ProvenWereSent
  <2> QED
    BY <2>2, SentGrows
<1>2. ASSUME NEW i \in DOMAIN records', records'[i].status = "verified"
      PROVE  Sent(records[i].key)' # {}
  <2>1. i \in DOMAIN records /\ records'[i].key = records[i].key
    BY <1>2, RecordMoves DEF RecordMove
  <2>2. PICK k \in Key : k = records[i].key
    BY <2>1 DEF Typed, StoreTypeOK, Record
  <2>3. CASE records[i].status = "verified"
    <3>1. Sent(k) # {}
      BY <2>1, <2>2, <2>3 DEF VerifiedInv, VerifiedWasSubmitted
    <3>2. Sent(k)' # {}
      BY <3>1, SentGrows
    <3> QED
      BY <2>1, <2>2, <3>2 DEF Sent
  <2>4. CASE records[i].status # "verified"
    <3>1. PICK p \in Procs : Proven(p) /\ IsFirst(i, task[p].key)
      BY <1>2, <2>1, <2>4, RecordMoves DEF RecordMove, Writes
    <3>2. Sent(k) # {}
      BY <2>2, <3>1 DEF VerifiedInv, ProvenWereSent, IsFirst
    <3>3. Sent(k)' # {}
      BY <3>2, SentGrows
    <3> QED
      BY <2>1, <2>2, <3>3 DEF Sent
  <2> QED
    BY <2>3, <2>4
<1> QED
  BY <1>1, <1>2 DEF VerifiedInv, ProvenWereSent, VerifiedWasSubmitted

LEMMA SpecCarries == Spec => []BotsCarryKeys
<1>1. Init => BotsCarryKeys
  BY DEF Init, BotsCarryKeys
<1> QED
  BY <1>1, CarriesStep, SpecTyped, PTL DEF Spec

LEMMA SpecVerified == Spec => []VerifiedInv
<1>1. Init => VerifiedInv
  BY DEF Init, StoreInit, VerifiedInv, VerifiedWasSubmitted, ProvenWereSent, Proven, Idle
<1> QED
  BY <1>1, VerifiedStep, SpecTyped, SpecHeard, SpecCarries, PTL DEF Spec

(* A reply the ledger calls verified is in the chat (runNativeDelivery's        *)
(* readback and the recovery's, conversation/realtime-reply-service.ts):       *)
(* neither a readback of another message nor a recovery after a crash takes a   *)
(* reply for submitted that was not.                                        *)
THEOREM ServiceVerifiesTheSubmitted == Spec => []VerifiedWasSubmitted
  BY SpecVerified, PTL DEF VerifiedInv

(* The ledger and the chat agree on every reply, submitted and verified        *)
(* (runNativeDelivery, conversation/realtime-reply-service.ts).               *)
THEOREM ServiceLedgerIsTrue == Spec => []LedgerIsTrue
  BY ServiceSubmitsOnce, ServiceVerifiesTheSubmitted, PTL DEF LedgerIsTrue

-----------------------------------------------------------------------------
(* A reply that is cancelled as answered was answered.                       *)

WentPast(k) == Len(chat[k.contact]) > Last(k.messages)

AnsweredWentPast == \A k \in Key : \A p \in Procs : Answered(p) /\ task[p].key = k => WentPast(k)

AnsweredInv == OwnerRepliedIsTrue /\ AnsweredWentPast

LEMMA WentPastStays ==
  ASSUME Typed, Heard, [Next]_vars, NEW k \in Key, WentPast(k),
         NEW i \in DOMAIN records, records[i].key = k
  PROVE  WentPast(k)'
<1>1. Last(k.messages) \in Nat /\ k.contact \in Contacts
  BY LastIsHeard DEF Key
<1>2. Len(chat[k.contact]) <= Len(chat'[k.contact]) /\ ChatOK'
  BY <1>1, ChatStep
<1>3. Len(chat[k.contact]) \in Nat /\ Len(chat'[k.contact]) \in Nat
  BY <1>1, <1>2 DEF Typed, ChatOK
<1> QED
  BY <1>1, <1>2, <1>3 DEF WentPast

(* A sweep that a poll starts finds every reply of the contact answered.       *)
LEMMA SweptWentPast ==
  ASSUME Typed, Heard, NEW c \in Contacts, poll[c].pc = "cancel",
         NEW i \in DOMAIN records, NEW k \in Key, records[i].key = k, k.contact = c
  PROVE  WentPast(k)
<1>1. /\ seen[c] + 1 \in DOMAIN chat[c] /\ chat[c][seen[c] + 1].from # "contact"
      /\ InChat(c, k.messages)
  BY DEF Heard
<1>2. Last(k.messages) \in Nat /\ Last(k.messages) \in k.messages
  BY LastIsHeard
<1>3. /\ seen[c] \in Nat /\ Len(chat[c]) \in Nat /\ DOMAIN chat[c] = 1 .. Len(chat[c])
  BY DEF Typed, PollOK, ChatOK
<1>4. Last(k.messages) <= seen[c] + 1 /\ Last(k.messages) # seen[c] + 1
  BY <1>1, <1>2 DEF InChat
<1> QED
  BY <1>1, <1>2, <1>3, <1>4 DEF WentPast

LEMMA AnsweredStep ==
  ASSUME IdsAgree
  PROVE  Typed /\ Heard /\ AnsweredInv /\ [Next]_vars => AnsweredInv'
<1> SUFFICES ASSUME Typed, Heard, AnsweredInv, [Next]_vars PROVE AnsweredInv'
  OBVIOUS
<1>1. ASSUME NEW k \in Key, NEW p \in Procs, Answered(p)', task'[p].key = k
      PROVE  WentPast(k)'
  <2>1. task[p].key = k /\ (Answered(p) \/ ~StillLatest(k))
    BY <1>1, TaskMoves DEF Moves
  <2>2. PICK i \in DOMAIN records : records[i].key = k
    BY <2>1, NoKeyAssumption DEF Heard
  <2>3. WentPast(k)
    <3>1. CASE Answered(p)
      BY <2>1, <3>1 DEF AnsweredInv, AnsweredWentPast
    <3>2. CASE ~StillLatest(k)
      <4>1. Last(k.messages) \in Nat /\ Last(k.messages) <= Len(chat[k.contact])
        BY <2>2, LastIsHeard
      <4>2. Len(chat[k.contact]) \in Nat
        BY DEF Typed, ChatOK, Key
      <4> QED
        BY <3>2, <4>1, <4>2 DEF StillLatest, WentPast
    <3> QED
      BY <2>1, <3>1, <3>2
  <2> QED
    BY <2>2, <2>3, WentPastStays
<1>2. ASSUME NEW i \in DOMAIN records', records'[i].status = "cancelled",
             records'[i].reason = "OWNER_REPLIED"
      PROVE  Len(chat'[records'[i].key.contact]) > Last(records'[i].key.messages)
  <2>1. i \in DOMAIN records /\ records'[i].key = records[i].key
    BY <1>2, RecordMoves DEF RecordMove
  <2>2. PICK k \in Key : k = records[i].key
    BY <2>1 DEF Typed, StoreTypeOK, Record
  <2>3. ASSUME records'[i] = records[i] PROVE WentPast(k)
    BY <1>2, <2>1, <2>2, <2>3 DEF AnsweredInv, OwnerRepliedIsTrue, WentPast
  <2>4. ASSUME NEW p \in Procs, NEW from, NEW to, NEW why, Writes(p, from, to, why),
               IsFirst(i, task[p].key), records'[i].status = to,
               records'[i].reason = IF to \in Closed THEN why ELSE NoReason
        PROVE  WentPast(k)
    <3>1. Answered(p) /\ task[p].key = k
      BY <1>2, <2>2, <2>4 DEF Writes, IsFirst, Closed
    <3> QED
      BY <3>1 DEF AnsweredInv, AnsweredWentPast
  <2>5. ASSUME NEW c \in Contacts, NEW why \in Reasons, Sweeps(c, why),
               records[i].key.contact = c, records'[i].reason = why
        PROVE  WentPast(k)
    BY <1>2, <2>1, <2>2, <2>5, SweptWentPast DEF Sweeps
  <2>6. WentPast(k)
    BY <1>2, <2>1, <2>3, <2>4, <2>5, RecordMoves DEF RecordMove
  <2>7. WentPast(k)'
    BY <2>1, <2>2, <2>6, WentPastStays
  <2> QED
    BY <2>1, <2>2, <2>7 DEF WentPast
<1> QED
  BY <1>1, <1>2 DEF AnsweredInv, AnsweredWentPast, OwnerRepliedIsTrue

(* When the chat and the source name a message alike, a reply is cancelled as   *)
(* OWNER_REPLIED (receiveMessage and deliverPrepared, conversation/            *)
(* realtime-reply-service.ts) only when the chat has moved past what it         *)
(* answers: no contact is left without a reply because of a failure that was    *)
(* taken for an answer.                                                     *)
THEOREM ServiceAnsweredIsTrue ==
  ASSUME IdsAgree
  PROVE  Spec => []OwnerRepliedIsTrue
<1>1. Init => AnsweredInv
  BY DEF Init, StoreInit, AnsweredInv, OwnerRepliedIsTrue, AnsweredWentPast, Answered, Idle
<1>2. AnsweredInv => OwnerRepliedIsTrue
  BY DEF AnsweredInv
<1> QED
  BY <1>1, <1>2, AnsweredStep, SpecTyped, SpecHeard, PTL DEF Spec

-----------------------------------------------------------------------------
(* P0 is told of every batch.                                              *)

(* No batch appears, the process does not start, and an announcement is taken  *)
(* back only when there is no work at all.                                  *)
KeepsWord ==
  /\ \A c \in Contacts : batches'[c] # NoBatch => batches[c] # NoBatch
  /\ Running' => Running
  /\ announced \subseteq announced' \/ ~HasPendingWork

LEMMA WordKept ==
  ASSUME BufferedIsAnnounced, KeepsWord
  PROVE  BufferedIsAnnounced'
  BY DEF BufferedIsAnnounced, KeepsWord, HasPendingWork

LEMMA AnnouncedStep == Typed /\ BufferedIsAnnounced /\ [Next]_vars => BufferedIsAnnounced'
<1> SUFFICES ASSUME Typed, BufferedIsAnnounced, [Next]_vars PROVE BufferedIsAnnounced'
  OBVIOUS
<1>0. batches \in [Contacts -> Batch \cup {NoBatch}]
  BY DEF Typed, StoreTypeOK
<1>1. ASSUME NEW c \in Contacts, ReceiveIncoming(c) PROVE BufferedIsAnnounced'
  <2>1. /\ lifecycle' = lifecycle /\ announced \subseteq announced'
        /\ \A d \in Contacts \ {c} : batches'[d] = batches[d]
        /\ c \in announced' \/ batches'[c] = batches[c]
    BY <1>0, <1>1 DEF ReceiveIncoming, AppendBufferedMessage, storeVars
  <2> QED
    BY <2>1 DEF BufferedIsAnnounced, Running
<1>2. ASSUME NEW c \in Contacts, PollNext(c), ~ReceiveIncoming(c) PROVE KeepsWord
  <2>1. CASE ReceiveOutgoing(c)
    BY <1>0, <2>1 DEF ReceiveOutgoing, ClearBufferedBatch, KeepsWord, Running
  <2>2. CASE PollCancels(c)
    BY <2>2 DEF PollCancels, CancelPreSubmit, KeepsWord, Running
  <2>3. CASE PollWakes(c)
    BY <2>3 DEF PollWakes, storeVars, KeepsWord, Running, Announced
  <2>4. CASE TickPoll(c) \/ PollDone(c) \/ PollFails(c) \/ PollSchedules(c) \/ PollCommits(c)
    BY <2>4 DEF TickPoll, PollDone, PollFails, PollSchedules, PollCommits, storeVars, KeepsWord,
       Running
  <2> QED
    BY <1>2, <2>1, <2>2, <2>3, <2>4 DEF PollNext
<1>3. ASSUME NEW c \in Contacts, ReplaceNext(c) PROVE KeepsWord
  BY <1>3 DEF ReplaceNext, ReplaceBegins, ReplaceCancels, ReplaceWakes, ReplaceStarts,
     CancelPreSubmit, storeVars, KeepsWord, Running, Announced
<1>4. ASSUME NEW c \in Contacts,
             \/ Write(c) \/ Reenroll(c)
             \/ TimerArms(c) \/ TimerFires(c) \/ TickDelivers(c) \/ RecoveryLists(c)
      PROVE  KeepsWord
  BY <1>4 DEF Write, Reenroll, TimerArms, TimerFires, TickDelivers, RecoveryLists, Rest,
     volatile, storeVars, KeepsWord, Running
<1>5. ASSUME NEW p \in Procs, FlushClaims(p) PROVE KeepsWord
  <2>1. p[2] \in Contacts /\ lifecycle' = lifecycle
    BY <1>5 DEF Procs, FlushClaims, Rest
  <2>2. announced' \in {announced, Released}
    BY <1>5 DEF FlushClaims
  <2>3. UNCHANGED storeVars \/ ClaimBufferedBatch(p[2])
    BY <1>5 DEF FlushClaims
  <2> QED
    BY <1>0, <2>1, <2>2, <2>3 DEF ClaimBufferedBatch, storeVars, Released, KeepsWord, Running
<1>6. ASSUME NEW p \in Procs, DeliverNext(p), ~FlushClaims(p), ~Finish(p), ~WakeContact(p)
      PROVE  KeepsWord
  BY <1>6 DEF DeliverNext, FlushMarks, FlushGenerates, Get1,
     JoinPoll, Get2, CancelChanged, Admit, Check, FenceReply, NativeCheck, Press, Readback,
     CloseSession, Settle, CancelOwnerReplied, AfterFailure, CloseFailed,
     Rest, CAS, CompareAndSet, storeVars, KeepsWord, Running
<1>7. ASSUME NEW p \in Procs, Finish(p) \/ WakeContact(p) PROVE KeepsWord
  BY <1>7 DEF Finish, WakeContact, Rest, storeVars, Announced, KeepsWord, Running
<1>8. ASSUME NEW p \in Procs, RecoverNext(p) PROVE KeepsWord
  BY <1>8 DEF RecoverNext, RecoveryCloses, RecoveryAdmit, RecoveryReads, RecoveryVerifies,
     Rest, CAS, CompareAndSet, storeVars, KeepsWord, Running
<1>9. CASE Start
  BY <1>9 DEF Start, storeVars, BufferedIsAnnounced
<1>10. CASE Stop \/ StopCompletes \/ Exit \/ Crash
  BY <1>10 DEF Stop, StopCompletes, Exit, Crash, Down, BufferedIsAnnounced, Running
<1>11. CASE P0Asks \/ P0Takes \/ P0Releases \/ UNCHANGED vars
  BY <1>11, WordKept DEF P0Asks, P0Takes, P0Releases, vars, volatile, storeVars, KeepsWord, Running
<1>12. ASSUME NEW k \in orphans, OrphanPresses(k) PROVE KeepsWord
  BY <1>12 DEF OrphanPresses, volatile, storeVars, KeepsWord, Running
<1> QED
  BY <1>1, <1>2, <1>3, <1>4, <1>5, <1>6, <1>7, <1>8, <1>9, <1>10, <1>11, <1>12, WordKept
     DEF Next

(* While a running service has a batch buffered, its P1 announcement stands     *)
(* (ensurePendingAnnouncement and releasePendingIfIdle, conversation/            *)
(* realtime-reply-service.ts): no task that ends, wakes or gives up takes it      *)
(* back over another contact's batch.                                        *)
THEOREM ServiceAnnouncesBuffered == Spec => []BufferedIsAnnounced
<1>1. Init => BufferedIsAnnounced
  BY DEF Init, BufferedIsAnnounced, Running
<1> QED
  BY <1>1, AnnouncedStep, SpecTyped, PTL DEF Spec

-----------------------------------------------------------------------------
(* No batch is left without a wakeup.                                       *)

(* The task will look for a queued batch before it ends: a generation and a    *)
(* recovery always do, a tick's delivery once it has settled its reply.        *)
Obliged(p) ==
  \/ p[1] \in {"flush", "recovery"} /\ ~At(p, "idle")
  \/ task[p].pc \in {"wake", "wakeEnd", "finally"}

Wakeup(c) ==
  \/ timer[c] # {}
  \/ poll[c].pc \in {"schedule", "cancel", "wake"}
  \/ replacing[c] \in {"cancel", "wake"}
  \/ \E p \in Procs : p[2] = c /\ Obliged(p)

Awake(c) == Running /\ batches[c] # NoBatch /\ ~HasActive(c) => Wakeup(c)

NeverStranded == \A c \in Contacts : Awake(c)

(* A step of the tasks that starts no wakeup and uses none: where it ends the   *)
(* last active reply of a contact, one of the contact's tasks is obliged.      *)
Careful ==
  /\ lifecycle' = lifecycle /\ batches' = batches
  /\ timer' = timer /\ replacing' = replacing
  /\ \A c \in Contacts : poll'[c] = poll[c] \/ poll[c].pc \notin {"schedule", "cancel", "wake"}
  /\ \A p \in Procs : Obliged(p) => Obliged(p)'
  /\ \A c \in Contacts :
       (HasActive(c) => HasActive(c)') \/ \E p \in Procs : p[2] = c /\ Obliged(p)'

LEMMA CarefulKeeps ==
  ASSUME NeverStranded, Careful
  PROVE  NeverStranded'
<1> SUFFICES ASSUME NEW c \in Contacts, Running', batches'[c] # NoBatch, ~HasActive(c)'
             PROVE  Wakeup(c)'
  BY DEF NeverStranded, Awake
<1>1. CASE \E p \in Procs : p[2] = c /\ Obliged(p)'
  BY <1>1 DEF Wakeup
<1>2. CASE HasActive(c) => HasActive(c)'
  <2>1. Wakeup(c)
    BY <1>2 DEF Careful, NeverStranded, Awake, Running
  <2> QED
    BY <2>1 DEF Careful, Wakeup
<1> QED
  BY <1>1, <1>2 DEF Careful

LEMMA GotoObliged ==
  ASSUME TaskOK, NEW p \in Procs, NEW l, l # "idle", Goto(p, l),
         task[p].pc \notin {"wake", "wakeEnd", "finally"}
  PROVE  \A q \in Procs : Obliged(q) => Obliged(q)'
<1> TAKE q \in Procs
<1>1. CASE q = p
  <2>1. task'[p].pc = l
    BY DEF TaskOK, Task, Goto
  <2> QED
    BY <1>1, <2>1 DEF Obliged, At
<1>2. CASE q # p
  <2>1. task'[q] = task[q]
    BY <1>2 DEF TaskOK, Goto
  <2> QED
    BY <2>1 DEF Obliged, At
<1> QED
  BY <1>1, <1>2

LEMMA CloseObliged ==
  ASSUME TaskOK, NEW p \in Procs, NEW why, Close(p, why),
         task[p].pc \notin {"wake", "wakeEnd", "finally"}
  PROVE  \A q \in Procs : Obliged(q) => Obliged(q)'
<1> TAKE q \in Procs
<1>1. CASE q = p
  <2>1. task[p] \in Task
    BY DEF TaskOK
  <2>2. task'[p] = [task[p] EXCEPT !.pc = "close", !.outcome = why]
    BY <2>1 DEF TaskOK, Close, Task
  <2>3. task'[p].pc = "close"
    BY <2>1, <2>2 DEF Task
  <2> QED
    BY <1>1, <2>3 DEF Obliged, At
<1>2. CASE q # p
  <2>1. task'[q] = task[q]
    BY <1>2 DEF TaskOK, Close
  <2> QED
    BY <2>1 DEF Obliged, At
<1> QED
  BY <1>1, <1>2

(* A compare-and-set ends no active reply but its own.                        *)
LEMMA ActiveStays ==
  ASSUME StoreTypeOK, NEW k, NEW from, NEW to, NEW why, CompareAndSet(k, from, to, why),
         NEW c \in Contacts, to \in Active \/ k.contact # c, HasActive(c)
  PROVE  HasActive(c)'
<1>1. PICK i \in DOMAIN records :
        /\ IsFirst(i, k) /\ <<from, to>> \in Transitions
        /\ records[i].status = from
        /\ DOMAIN records' = DOMAIN records
        /\ \A j \in DOMAIN records \ {i} : records'[j] = records[j]
        /\ records'[i].key = k /\ records'[i].status = to
        /\ records'[i].reason = IF to \in Closed THEN why ELSE NoReason
  BY WritesOneRecord
<1>2. PICK j \in DOMAIN records : records[j].key.contact = c /\ records[j].status \in Active
  BY DEF HasActive
<1>3. CASE i = j
  BY <1>1, <1>2, <1>3 DEF HasActive, IsFirst
<1>4. CASE i # j
  BY <1>1, <1>2, <1>4 DEF HasActive
<1> QED
  BY <1>3, <1>4

(* The task's record moves on, and where it stops being active the task wakes   *)
(* its contact.                                                            *)
LEMMA CASCareful ==
  ASSUME Typed, NEW p \in Procs, NEW from, NEW to, NEW why, NEW yes, NEW no,
         CAS(p, from, to, why, yes, no), yes # "idle", no # "idle",
         task[p].pc \notin {"wake", "wakeEnd", "finally"} \cup Keyless,
         to \in Active \/ yes \in {"wake", "wakeEnd"},
         lifecycle' = lifecycle, timer' = timer, replacing' = replacing, poll' = poll
  PROVE  Careful
<1>0. TaskOK /\ StoreTypeOK /\ task[p].key.contact = p[2]
  BY DEF Typed, TaskOK
<1>1. \A q \in Procs : Obliged(q) => Obliged(q)'
  BY <1>0, GotoObliged DEF CAS
<1>2. CASE UNCHANGED storeVars
  BY <1>1, <1>2 DEF Careful, storeVars, HasActive
<1>3. CASE CompareAndSet(task[p].key, from, to, why) /\ Goto(p, yes)
  <2>1. ASSUME NEW c \in Contacts, to \in Active \/ c # p[2], HasActive(c)
        PROVE  HasActive(c)'
    BY <1>0, <1>3, <2>1, ActiveStays
  <2>2. ASSUME to \notin Active PROVE Obliged(p)'
    <3>1. task'[p].pc = yes
      BY <1>0, <1>3 DEF TaskOK, Task, Goto
    <3> QED
      BY <2>2, <3>1 DEF Obliged
  <2> QED
    BY <1>1, <1>3, <2>1, <2>2 DEF Careful, CompareAndSet
<1> QED
  BY <1>2, <1>3 DEF CAS
(* What a step leaves of a contact it does not work for.                       *)
LEMMA ElsewhereAwake ==
  ASSUME NEW d \in Contacts, Awake(d), lifecycle' = lifecycle, batches'[d] = batches[d],
         timer'[d] = timer[d], poll'[d] = poll[d], replacing'[d] = replacing[d],
         \A q \in Procs : q[2] = d => task'[q] = task[q],
         HasActive(d) => HasActive(d)'
  PROVE  Awake(d)'
<1>1. \A q \in Procs : q[2] = d /\ Obliged(q) => Obliged(q)'
  BY DEF Obliged, At
<1> QED
  BY <1>1 DEF Awake, Wakeup, Running

LEMMA SweepsElsewhere ==
  ASSUME StoreTypeOK, NEW c \in Contacts, NEW why, CancelPreSubmit(c, why, {}),
         NEW d \in Contacts \ {c}, HasActive(d)
  PROVE  HasActive(d)'
<1>1. PICK i \in DOMAIN records : records[i].key.contact = d /\ records[i].status \in Active
  BY DEF HasActive
<1>2. i \in DOMAIN records' /\ records'[i] = records[i]
  BY <1>1 DEF CancelPreSubmit, Cancelled
<1> QED
  BY <1>1, <1>2 DEF HasActive

LEMMA ClaimElsewhere ==
  ASSUME StoreTypeOK, NEW c \in Contacts, ClaimBufferedBatch(c), NEW d \in Contacts, HasActive(d)
  PROVE  HasActive(d)'
<1>1. PICK i \in DOMAIN records : records[i].key.contact = d /\ records[i].status \in Active
  BY DEF HasActive
<1>2. i \in DOMAIN records' /\ records'[i] = records[i]
  BY <1>1 DEF ClaimBufferedBatch, StoreTypeOK
<1> QED
  BY <1>1, <1>2 DEF HasActive

(* A scheduling that finds a waiting batch and a free contact sets its timer.  *)
LEMMA ScheduledWakes ==
  ASSUME RestOK, NEW c \in Contacts, timer' = Scheduled(c),
         lifecycle' = lifecycle, batches' = batches, records' = records
  PROVE  /\ Awake(c)'
         /\ \A d \in Contacts \ {c} : timer'[d] = timer[d]
<1>1. \A d \in Contacts \ {c} : timer'[d] = timer[d]
  BY DEF Scheduled, RestOK
<1>2. ASSUME Running, batches[c] # NoBatch, ~HasActive(c) PROVE timer'[c] # {}
  <2>1. timer' = [timer EXCEPT ![c] = @ \cup {"arming"}]
    BY <1>2 DEF Scheduled
  <2>2. timer'[c] = timer[c] \cup {"arming"}
    BY <2>1 DEF RestOK
  <2> QED
    BY <2>2
<1>3. Awake(c)'
  BY <1>2 DEF Awake, Wakeup, Running, HasActive
<1> QED
  BY <1>1, <1>3

LEMMA ArmedWakes ==
  ASSUME RestOK, NEW c \in Contacts, timer' = Armed(c) \/ timer' = [Armed(c) EXCEPT ![c] = @ \ {"arming"}],
         lifecycle' = lifecycle, batches' = batches, records' = records
  PROVE  /\ Awake(c)'
         /\ \A d \in Contacts \ {c} : timer'[d] = timer[d]
<1>1. \A d \in Contacts \ {c} : timer'[d] = timer[d]
  BY DEF Armed, RestOK
<1>2. ASSUME ~HasActive(c) PROVE timer'[c] # {}
  <2>1. Armed(c) = [timer EXCEPT ![c] = @ \cup {"set"}]
    BY <1>2 DEF Armed
  <2>2. "set" \in timer'[c]
    BY <2>1 DEF RestOK
  <2> QED
    BY <2>2
<1>3. Awake(c)'
  BY <1>2 DEF Awake, Wakeup, Running, HasActive
<1> QED
  BY <1>1, <1>3

LEMMA ClearedElsewhere ==
  ASSUME RestOK, NEW c \in Contacts, timer' = Cleared(c)
  PROVE  \A d \in Contacts \ {c} : timer'[d] = timer[d]
  BY DEF Cleared, RestOK

LEMMA PollGotoEffect ==
  ASSUME PollOK, NEW c \in Contacts, NEW l, PollGoto(c, l)
  PROVE  poll'[c].pc = l /\ \A d \in Contacts \ {c} : poll'[d] = poll[d]
  BY DEF PollGoto, PollOK

LEMMA SettledCareful ==
  ASSUME Typed, NEW c \in Contacts, NEW l, l # "idle", PollSettles(c, l),
         poll[c].pc \notin {"schedule", "cancel", "wake"}, UNCHANGED storeVars,
         lifecycle' = lifecycle, timer' = timer, replacing' = replacing
  PROVE  Careful
<1>1. \A d \in Contacts : poll'[d] = poll[d] \/ poll[d].pc \notin {"schedule", "cancel", "wake"}
  BY DEF PollSettles, Typed, PollOK
<1>2. \A p \in Procs : Obliged(p) => Obliged(p)'
  <2> TAKE p \in Procs
  <2>1. CASE p[2] = c /\ At(p, "polling")
    <3>1. task'[p].pc = l
      BY <2>1 DEF PollSettles, Typed, TaskOK, Task
    <3> QED
      BY <2>1, <3>1 DEF Obliged, At
  <2>2. CASE ~(p[2] = c /\ At(p, "polling"))
    <3>1. task'[p] = task[p]
      BY <2>2 DEF PollSettles
    <3> QED
      BY <3>1 DEF Obliged, At
  <2> QED
    BY <2>1, <2>2
<1> QED
  BY <1>1, <1>2 DEF Careful, storeVars, HasActive

LEMMA IdleCareful ==
  ASSUME task' = task, UNCHANGED storeVars, lifecycle' = lifecycle, timer' = timer,
         replacing' = replacing,
         \A c \in Contacts : poll'[c] = poll[c] \/ poll[c].pc \notin {"schedule", "cancel", "wake"}
  PROVE  Careful
  BY DEF Careful, storeVars, HasActive, Obliged, At

LEMMA PollAwake ==
  ASSUME Typed, NeverStranded, NEW c \in Contacts, PollNext(c)
  PROVE  NeverStranded'
<1>0. PollOK /\ RestOK /\ StoreTypeOK
  BY DEF Typed
<1>1. CASE TickPoll(c)
  <2>1. \A d \in Contacts : poll'[d] = poll[d] \/ poll[d].pc \notin {"schedule", "cancel", "wake"}
    BY <1>0, <1>1 DEF TickPoll, StartPoll, PollOK, NoPoll
  <2>2. Careful
    BY <1>1, <2>1, IdleCareful DEF TickPoll
  <2> QED
    BY <2>2, CarefulKeeps
<1>2. CASE PollDone(c)
  <2>1. Careful
    BY <1>2, SettledCareful DEF PollDone
  <2> QED
    BY <2>1, CarefulKeeps
<1>3. CASE PollFails(c)
  <2>1. Careful
    BY <1>3, SettledCareful DEF PollFails
  <2> QED
    BY <2>1, CarefulKeeps
<1>4. CASE ReceiveIncoming(c)
  <2>1. /\ poll[c].pc = "next" /\ lifecycle' = lifecycle /\ timer' = timer
        /\ replacing' = replacing
    BY <1>4 DEF ReceiveIncoming, Unseen
  <2>2. CASE PollSettles(c, "changed") /\ UNCHANGED storeVars
    <3>1. Careful
      BY <2>1, <2>2, SettledCareful
    <3> QED
      BY <3>1, CarefulKeeps
  <2>3. CASE /\ AppendBufferedMessage(c, Binding(c), seen[c] + 1) /\ task' = task
             /\ PollGoto(c, IF Running THEN "schedule" ELSE "commit")
    <3>1. /\ poll'[c].pc = IF Running THEN "schedule" ELSE "commit"
          /\ \A d \in Contacts \ {c} : poll'[d] = poll[d]
      BY <1>0, <2>3, PollGotoEffect
    <3>2. \A d \in Contacts \ {c} : batches'[d] = batches[d]
      BY <1>0, <2>3 DEF AppendBufferedMessage, StoreTypeOK
    <3>3. \A d \in Contacts : HasActive(d) => HasActive(d)'
      BY <2>3 DEF AppendBufferedMessage, HasActive
    <3>4. ASSUME NEW d \in Contacts, d # c PROVE Awake(d)'
      BY <2>1, <2>3, <3>1, <3>2, <3>3, <3>4, ElsewhereAwake DEF NeverStranded
    <3>5. Awake(c)'
      BY <2>1, <3>1 DEF Awake, Wakeup, Running
    <3> QED
      BY <3>4, <3>5 DEF NeverStranded
  <2> QED
    BY <1>4, <2>2, <2>3 DEF ReceiveIncoming
<1>5. CASE PollSchedules(c)
  <2>1. /\ Awake(c)' /\ \A d \in Contacts \ {c} : timer'[d] = timer[d]
    BY <1>0, <1>5, ArmedWakes DEF PollSchedules, storeVars
  <2>2. \A d \in Contacts \ {c} : poll'[d] = poll[d]
    BY <1>0, <1>5, PollGotoEffect DEF PollSchedules
  <2>3. ASSUME NEW d \in Contacts, d # c PROVE Awake(d)'
    BY <1>5, <2>1, <2>2, <2>3, ElsewhereAwake
       DEF NeverStranded, PollSchedules, storeVars, HasActive
  <2> QED
    BY <2>1, <2>3 DEF NeverStranded
<1>6. CASE ReceiveOutgoing(c)
  <2>1. \A d \in Contacts \ {c} : poll'[d] = poll[d] /\ batches'[d] = batches[d]
    BY <1>0, <1>6, PollGotoEffect DEF ReceiveOutgoing, ClearBufferedBatch, StoreTypeOK
  <2>2. batches'[c] = NoBatch
    BY <1>0, <1>6 DEF ReceiveOutgoing, ClearBufferedBatch, StoreTypeOK
  <2>3. ASSUME NEW d \in Contacts, d # c PROVE Awake(d)'
    BY <1>6, <2>1, <2>3, ElsewhereAwake
       DEF NeverStranded, ReceiveOutgoing, ClearBufferedBatch, HasActive
  <2>4. Awake(c)'
    BY <2>2 DEF Awake
  <2> QED
    BY <2>3, <2>4 DEF NeverStranded
<1>7. CASE PollCancels(c)
  <2>1. /\ poll'[c].pc = "wake" /\ \A d \in Contacts \ {c} : poll'[d] = poll[d]
    BY <1>0, <1>7, PollGotoEffect DEF PollCancels
  <2>2. \A d \in Contacts \ {c} : timer'[d] = timer[d]
    BY <1>0, <1>7, ClearedElsewhere DEF PollCancels
  <2>3. \A d \in Contacts \ {c} : HasActive(d) => HasActive(d)'
    BY <1>0, <1>7, SweepsElsewhere DEF PollCancels
  <2>4. ASSUME NEW d \in Contacts, d # c PROVE Awake(d)'
    BY <1>7, <2>1, <2>2, <2>3, <2>4, ElsewhereAwake
       DEF NeverStranded, PollCancels, CancelPreSubmit
  <2>5. Awake(c)'
    BY <2>1 DEF Awake, Wakeup
  <2> QED
    BY <2>4, <2>5 DEF NeverStranded
<1>8. CASE PollWakes(c)
  <2>1. /\ Awake(c)' /\ \A d \in Contacts \ {c} : timer'[d] = timer[d]
    BY <1>0, <1>8, ScheduledWakes DEF PollWakes, storeVars
  <2>2. \A d \in Contacts \ {c} : poll'[d] = poll[d]
    BY <1>0, <1>8, PollGotoEffect DEF PollWakes
  <2>3. ASSUME NEW d \in Contacts, d # c PROVE Awake(d)'
    BY <1>8, <2>1, <2>2, <2>3, ElsewhereAwake
       DEF NeverStranded, PollWakes, storeVars, HasActive
  <2> QED
    BY <2>1, <2>3 DEF NeverStranded
<1>9. CASE PollCommits(c)
  <2>1. \A d \in Contacts : poll'[d] = poll[d] \/ poll[d].pc \notin {"schedule", "cancel", "wake"}
    BY <1>0, <1>9, PollGotoEffect DEF PollCommits
  <2>2. Careful
    BY <1>9, <2>1, IdleCareful DEF PollCommits
  <2> QED
    BY <2>2, CarefulKeeps
<1> QED
  BY <1>1, <1>2, <1>3, <1>4, <1>5, <1>6, <1>7, <1>8, <1>9 DEF PollNext

(* A task that goes on, or closes its session, without touching the ledger.    *)
LEMMA MovedCareful ==
  ASSUME TaskOK, NEW p \in Procs, task[p].pc \notin {"wake", "wakeEnd", "finally"},
         \/ \E l : l # "idle" /\ Goto(p, l)
         \/ \E why : Close(p, why),
         UNCHANGED storeVars, lifecycle' = lifecycle, timer' = timer, replacing' = replacing,
         \A c \in Contacts : poll'[c] = poll[c] \/ poll[c].pc \notin {"schedule", "cancel", "wake"}
  PROVE  Careful
<1>1. \A q \in Procs : Obliged(q) => Obliged(q)'
  BY GotoObliged, CloseObliged
<1> QED
  BY <1>1 DEF Careful, storeVars, HasActive

LEMMA DeliverCareful ==
  ASSUME Typed, NEW p \in Procs, DeliverNext(p),
         ~FlushClaims(p), ~WakeContact(p), ~Finish(p)
  PROVE  Careful
<1>0. TaskOK
  BY DEF Typed
<1>1. CASE FlushMarks(p)
  BY <1>1, CASCareful DEF FlushMarks, At, Keyless, Rest, Active, PreSubmit
<1>2. CASE FlushGenerates(p)
  <2>1. task[p].pc = "generate" /\ UNCHANGED <<Rest, timer>>
    BY <1>2 DEF FlushGenerates, At
  <2>2. \/ Goto(p, "end") /\ UNCHANGED storeVars
        \/ CAS(p, "generating", "prepared", NoReason, "get1", "end")
        \/ CAS(p, "generating", "failed", "NO_REPLY", "wake", "finally")
        \/ CAS(p, "generating", "failed", "SOURCE_BLOCKED", "wake", "finally")
    BY <1>2 DEF FlushGenerates
  <2> QED
    BY <1>0, <2>1, <2>2, CASCareful, MovedCareful DEF Keyless, Rest, Active, PreSubmit
<1>3. CASE Get1(p) \/ Get2(p) \/ AfterFailure(p)
  <2>1. /\ \E l \in {"end", "poll", "changed", "admit", "uncertain", "fail"} : Goto(p, l)
        /\ task[p].pc \in {"get1", "get2", "afterFailure"}
        /\ UNCHANGED <<storeVars, Rest, timer>>
    BY <1>3 DEF Get1, Get2, AfterFailure, At
  <2> QED
    BY <1>0, <2>1, MovedCareful DEF Rest
<1>4. CASE JoinPoll(p)
  <2>1. \A c \in Contacts : poll'[c] = poll[c] \/ poll[c].pc \notin {"schedule", "cancel", "wake"}
    BY <1>4 DEF JoinPoll, StartPoll, NoPoll, Typed, PollOK
  <2>2. (\E l \in {"changed", "polling"} : Goto(p, l)) /\ At(p, "poll")
    BY <1>4 DEF JoinPoll
  <2> QED
    BY <1>0, <1>4, <2>1, <2>2, MovedCareful DEF JoinPoll, At
<1>5. CASE CancelChanged(p)
  BY <1>5, CASCareful DEF CancelChanged, At, Keyless, Rest
<1>6. CASE Admit(p)
  <2>1. (\E l \in {"afterFailure", "check", "finally"} : Goto(p, l)) /\ task[p].pc = "admit"
    BY <1>6 DEF Admit, At
  <2> QED
    BY <1>0, <1>6, <2>1, MovedCareful DEF Admit, Rest
<1>7. CASE Check(p) \/ NativeCheck(p) \/ Press(p) \/ Readback(p)
  <2>1. /\ (\E l \in {"fence", "press", "readback"} : Goto(p, l)) \/ (\E why : Close(p, why))
        /\ task[p].pc \in {"check", "native", "press", "readback"}
        /\ UNCHANGED <<storeVars, lifecycle, poll, replacing, timer>>
    BY <1>7 DEF Check, NativeCheck, Press, Readback, At, Rest
  <2> QED
    BY <1>0, <2>1, MovedCareful
<1>8. CASE FenceReply(p)
  <2>1. task[p].pc = "fence" /\ UNCHANGED <<Rest, timer>>
    BY <1>8 DEF FenceReply, At
  <2>2. CASE UNCHANGED storeVars /\ Close(p, "error")
    BY <1>0, <2>1, <2>2, MovedCareful DEF Rest
  <2>3. CASE CompareAndSet(task[p].key, "prepared", "submit-started", NoReason) /\ Goto(p, "native")
    <3>1. CAS(p, "prepared", "submit-started", NoReason, "native", "close")
      BY <2>3 DEF CAS
    <3> QED
      BY <2>1, <3>1, CASCareful DEF Keyless, Rest, Active, Fenced
  <2> QED
    BY <1>8, <2>2, <2>3 DEF FenceReply
<1>9. CASE CloseSession(p)
  <2>1. task[p].outcome \in {"verified", "submitted-uncertain", "owner", "error", "recovered", "unproven"}
    BY <1>0, <1>9 DEF CloseSession, TaskOK, Task, Outcomes
  <2>2. /\ \E l \in {"settle", "ownerReplied", "afterFailure", "recoverVerify", "end"} : Goto(p, l)
        /\ task[p].pc = "close"
    BY <1>9, <2>1 DEF CloseSession, At
  <2> QED
    BY <1>0, <1>9, <2>2, MovedCareful DEF CloseSession, Rest
<1>10. CASE Settle(p)
  BY <1>10, CASCareful DEF Settle, At, Keyless, Rest
<1>11. CASE CancelOwnerReplied(p)
  BY <1>11, CASCareful DEF CancelOwnerReplied, At, Keyless, Rest
<1>12. CASE CloseFailed(p)
  <2>1. /\ UNCHANGED <<Rest, timer>> /\ task[p].pc \in {"uncertain", "fail"}
        /\ \/ CAS(p, "submit-started", "submitted-uncertain", NoReason, "wake", "finally")
           \/ CAS(p, "prepared", "failed", "SOURCE_BLOCKED", "wake", "finally")
    BY <1>12 DEF CloseFailed, At
  <2> QED
    BY <2>1, CASCareful DEF Keyless, Rest
<1> QED
  BY <1>1, <1>2, <1>3, <1>4, <1>5, <1>6, <1>7, <1>8, <1>9, <1>10, <1>11, <1>12 DEF DeliverNext

LEMMA RecoverCareful ==
  ASSUME Typed, NEW p \in Procs, RecoverNext(p)
  PROVE  Careful
<1>0. TaskOK
  BY DEF Typed
<1>1. CASE RecoveryCloses(p)
  <2>1. /\ UNCHANGED <<Rest, timer>>
        /\ task[p].pc \in {"recoverNew", "recoverGenerating", "recoverMark"}
        /\ \/ CAS(p, "new", "failed", "RECOVERY_CANCELLED", "wake", "end")
           \/ CAS(p, "generating", "failed", "RECOVERY_CANCELLED", "wake", "end")
           \/ CAS(p, "submit-started", "submitted-uncertain", NoReason, "recoverAdmit", "end")
    BY <1>1 DEF RecoveryCloses, At
  <2> QED
    BY <2>1, CASCareful DEF Keyless, Rest, Active, Fenced
<1>2. CASE RecoveryAdmit(p)
  <2>1. (\E l \in {"end", "recoverRead"} : Goto(p, l)) /\ task[p].pc = "recoverAdmit"
    BY <1>2 DEF RecoveryAdmit, At
  <2> QED
    BY <1>0, <1>2, <2>1, MovedCareful DEF RecoveryAdmit, Rest
<1>3. CASE RecoveryReads(p)
  <2>1. (\E why : Close(p, why)) /\ task[p].pc = "recoverRead"
    BY <1>3 DEF RecoveryReads, At
  <2> QED
    BY <1>0, <1>3, <2>1, MovedCareful DEF RecoveryReads, Rest
<1>4. CASE RecoveryVerifies(p)
  BY <1>4, CASCareful DEF RecoveryVerifies, At, Keyless, Rest
<1> QED
  BY <1>1, <1>2, <1>3, <1>4 DEF RecoverNext

LEMMA ClaimsAwake ==
  ASSUME Typed, NeverStranded, NEW p \in Procs, FlushClaims(p)
  PROVE  NeverStranded'
<1>0. TaskOK /\ StoreTypeOK /\ p[2] \in Contacts /\ task[p].pc = "claim" /\ UNCHANGED <<Rest, timer>>
  BY DEF Typed, FlushClaims, At, Procs
<1>1. CASE Goto(p, "end") /\ UNCHANGED storeVars
  <2>1. Careful
    BY <1>0, <1>1, MovedCareful DEF Rest
  <2> QED
    BY <2>1, CarefulKeeps
<1>2. CASE /\ ClaimBufferedBatch(p[2])
           /\ task' = [task EXCEPT ![p].pc = "mark", ![p].key = BatchKey(p[2])]
  <2>1. batches'[p[2]] = NoBatch /\ \A d \in Contacts \ {p[2]} : batches'[d] = batches[d]
    BY <1>0, <1>2 DEF ClaimBufferedBatch, StoreTypeOK
  <2>2. \A q \in Procs \ {p} : task'[q] = task[q]
    BY <1>0, <1>2 DEF TaskOK
  <2>3. ASSUME NEW d \in Contacts, d # p[2] PROVE Awake(d)'
    <3>1. HasActive(d) => HasActive(d)'
      BY <1>0, <1>2, ClaimElsewhere
    <3> QED
      BY <1>0, <2>1, <2>2, <2>3, <3>1, ElsewhereAwake DEF NeverStranded, Rest
  <2>4. Awake(p[2])'
    BY <2>1 DEF Awake
  <2> QED
    BY <2>3, <2>4 DEF NeverStranded
<1> QED
  BY <1>1, <1>2 DEF FlushClaims

LEMMA WakesAwake ==
  ASSUME Typed, NeverStranded, NEW p \in Procs, WakeContact(p) \/ Finish(p)
  PROVE  NeverStranded'
<1>0. /\ TaskOK /\ RestOK /\ p[2] \in Contacts /\ UNCHANGED <<storeVars, Rest>>
      /\ \A q \in Procs \ {p} : task'[q] = task[q]
  BY DEF Typed, TaskOK, WakeContact, Finish, Goto, Procs
<1>1. CASE timer' = Scheduled(p[2])
  <2>1. Awake(p[2])' /\ \A d \in Contacts \ {p[2]} : timer'[d] = timer[d]
    BY <1>0, <1>1, ScheduledWakes DEF Rest, storeVars
  <2>2. ASSUME NEW d \in Contacts, d # p[2] PROVE Awake(d)'
    BY <1>0, <2>1, <2>2, ElsewhereAwake DEF NeverStranded, Rest, storeVars, HasActive
  <2> QED
    BY <2>1, <2>2 DEF NeverStranded
<1>2. CASE timer' # Scheduled(p[2])
  <2>1. p[1] = "tick" /\ task[p].pc = "end" /\ timer' = timer
    BY <1>2 DEF WakeContact, Finish, At
  <2>2. \A q \in Procs : Obliged(q) => Obliged(q)'
    BY <1>0, <2>1 DEF Obliged, At
  <2>3. Careful
    BY <1>0, <2>1, <2>2 DEF Careful, Rest, storeVars, HasActive
  <2> QED
    BY <2>3, CarefulKeeps
<1> QED
  BY <1>1, <1>2

LEMMA TimersAwake ==
  ASSUME Typed, NeverStranded, NEW c \in Contacts, TimerArms(c) \/ TimerFires(c)
  PROVE  NeverStranded'
<1>0. TaskOK /\ RestOK /\ UNCHANGED <<storeVars, Rest>>
  BY DEF Typed, TimerArms, TimerFires
<1>1. CASE TimerArms(c)
  <2>1. Awake(c)' /\ \A d \in Contacts \ {c} : timer'[d] = timer[d]
    BY <1>0, <1>1, ArmedWakes DEF TimerArms, Rest, storeVars
  <2>2. ASSUME NEW d \in Contacts, d # c PROVE Awake(d)'
    BY <1>0, <1>1, <2>1, <2>2, ElsewhereAwake
       DEF NeverStranded, TimerArms, Rest, storeVars, HasActive
  <2> QED
    BY <2>1, <2>2 DEF NeverStranded
<1>2. CASE TimerFires(c)
  <2>1. Flush(c) \in Procs /\ Flush(c)[1] = "flush" /\ Flush(c)[2] = c
    BY <1>2 DEF TimerFires, Flush, Procs
  <2>2. task'[Flush(c)].pc # "idle"
    BY <1>0, <1>2, <2>1 DEF TimerFires, TaskOK, At, Begin, Idle
  <2>3. Awake(c)'
    BY <2>1, <2>2 DEF Awake, Wakeup, Obliged, At
  <2>4. \A d \in Contacts \ {c} : timer'[d] = timer[d]
    BY <1>0, <1>2, ClearedElsewhere DEF TimerFires
  <2>5. \A q \in Procs \ {Flush(c)} : task'[q] = task[q]
    BY <1>0, <1>2 DEF TimerFires, TaskOK
  <2>6. ASSUME NEW d \in Contacts, d # c PROVE Awake(d)'
    BY <1>0, <2>1, <2>4, <2>5, <2>6, ElsewhereAwake DEF NeverStranded, Rest, storeVars, HasActive
  <2> QED
    BY <2>3, <2>6 DEF NeverStranded
<1> QED
  BY <1>1, <1>2

(* A task that begins takes no wakeup away.                                    *)
LEMMA BeginsCareful ==
  ASSUME Typed, NEW c \in Contacts, TickDelivers(c) \/ RecoveryLists(c)
  PROVE  Careful
<1>1. PICK p \in {<<"tick", c>>, <<"recovery", c>>} : \E new :
        /\ At(p, "idle") /\ p \in Procs
        /\ task' = [task EXCEPT ![p] = new]
        /\ UNCHANGED <<storeVars, Rest, timer>>
  BY DEF TickDelivers, RecoveryLists, Procs
<1>2. \A q \in Procs \ {p} : task'[q] = task[q]
  BY <1>1 DEF Typed, TaskOK
<1>3. \A q \in Procs : Obliged(q) => Obliged(q)'
  BY <1>1, <1>2 DEF Obliged, At
<1> QED
  BY <1>1, <1>3 DEF Careful, Rest, storeVars, HasActive

LEMMA ReplacesAwake ==
  ASSUME Typed, NeverStranded, NEW c \in Contacts, ReplaceNext(c)
  PROVE  NeverStranded'
<1>0. /\ TaskOK /\ RestOK /\ StoreTypeOK /\ lifecycle' = lifecycle /\ poll' = poll
      /\ \A d \in Contacts \ {c} : replacing'[d] = replacing[d]
  BY DEF Typed, RestOK, ReplaceNext, ReplaceBegins, ReplaceCancels, ReplaceWakes, ReplaceStarts
<1>1. CASE ReplaceBegins(c)
  <2>1. replacing'[c] = "cancel"
    BY <1>0, <1>1 DEF ReplaceBegins, RestOK
  <2>2. Awake(c)'
    BY <2>1 DEF Awake, Wakeup
  <2>3. \A d \in Contacts \ {c} : timer'[d] = timer[d]
    BY <1>0, <1>1, ClearedElsewhere DEF ReplaceBegins
  <2>4. \A q \in Procs : q[2] # c => task'[q] = task[q]
    BY <1>1 DEF ReplaceBegins, Flush
  <2>5. ASSUME NEW d \in Contacts, d # c PROVE Awake(d)'
    BY <1>0, <1>1, <2>3, <2>4, <2>5, ElsewhereAwake
       DEF NeverStranded, ReplaceBegins, storeVars, HasActive
  <2> QED
    BY <2>2, <2>5 DEF NeverStranded
<1>2. CASE ReplaceCancels(c)
  <2>1. replacing'[c] = "wake"
    BY <1>0, <1>2 DEF ReplaceCancels, RestOK
  <2>2. Awake(c)'
    BY <2>1 DEF Awake, Wakeup
  <2>3. \A d \in Contacts \ {c} : HasActive(d) => HasActive(d)'
    BY <1>0, <1>2, SweepsElsewhere DEF ReplaceCancels
  <2>4. ASSUME NEW d \in Contacts, d # c PROVE Awake(d)'
    BY <1>0, <1>2, <2>3, <2>4, ElsewhereAwake DEF NeverStranded, ReplaceCancels, CancelPreSubmit
  <2> QED
    BY <2>2, <2>4 DEF NeverStranded
<1>3. CASE ReplaceWakes(c)
  <2>1. Awake(c)' /\ \A d \in Contacts \ {c} : timer'[d] = timer[d]
    BY <1>0, <1>3, ScheduledWakes DEF ReplaceWakes, storeVars
  <2>2. ASSUME NEW d \in Contacts, d # c PROVE Awake(d)'
    BY <1>0, <1>3, <2>1, <2>2, ElsewhereAwake DEF NeverStranded, ReplaceWakes, storeVars, HasActive
  <2> QED
    BY <2>1, <2>2 DEF NeverStranded
<1>4. CASE ReplaceStarts(c)
  <2>1. replacing[c] = "start"
    BY <1>4 DEF ReplaceStarts
  <2>2. ASSUME NEW d \in Contacts, Wakeup(d) PROVE Wakeup(d)'
    BY <1>0, <1>4, <2>1, <2>2 DEF ReplaceStarts, Wakeup, Obliged, At
  <2> QED
    BY <1>4, <2>2 DEF ReplaceStarts, NeverStranded, Awake, Running, storeVars, HasActive
<1> QED
  BY <1>1, <1>2, <1>3, <1>4 DEF ReplaceNext

LEMMA NeverStrandedStep == Typed /\ NeverStranded /\ [Next]_vars => NeverStranded'
<1> SUFFICES ASSUME Typed, NeverStranded, [Next]_vars PROVE NeverStranded'
  OBVIOUS
<1>1. ASSUME NEW c \in Contacts, Write(c) \/ Reenroll(c) PROVE NeverStranded'
  <2>1. Careful
    BY <1>1, IdleCareful DEF Write, Reenroll, volatile
  <2> QED
    BY <2>1, CarefulKeeps
<1>2. ASSUME NEW c \in Contacts, PollNext(c) PROVE NeverStranded'
  BY <1>2, PollAwake
<1>3. ASSUME NEW c \in Contacts, ReplaceNext(c) PROVE NeverStranded'
  BY <1>3, ReplacesAwake
<1>4. ASSUME NEW c \in Contacts, TimerArms(c) \/ TimerFires(c) PROVE NeverStranded'
  BY <1>4, TimersAwake
<1>5. ASSUME NEW c \in Contacts, TickDelivers(c) \/ RecoveryLists(c) PROVE NeverStranded'
  BY <1>5, BeginsCareful, CarefulKeeps
<1>6. ASSUME NEW p \in Procs, DeliverNext(p) PROVE NeverStranded'
  BY <1>6, DeliverCareful, CarefulKeeps, ClaimsAwake, WakesAwake
<1>7. ASSUME NEW p \in Procs, RecoverNext(p) PROVE NeverStranded'
  BY <1>7, RecoverCareful, CarefulKeeps
<1>8. CASE Start
  <2>1. \A c \in Contacts : batches[c] # NoBatch /\ ~HasActive(c) => timer'[c] # {}
    BY <1>8 DEF Start
  <2> QED
    BY <1>8, <2>1 DEF Start, NeverStranded, Awake, Wakeup, storeVars, HasActive
<1>9. CASE Stop \/ StopCompletes \/ Exit \/ Crash
  BY <1>9 DEF Stop, StopCompletes, Exit, Crash, Down, NeverStranded, Awake, Running
<1>10. CASE P0Asks \/ P0Takes \/ P0Releases \/ UNCHANGED vars
  <2>1. Careful
    BY <1>10, IdleCareful DEF P0Asks, P0Takes, P0Releases, vars, volatile, storeVars
  <2> QED
    BY <2>1, CarefulKeeps
<1>11. ASSUME NEW k \in orphans, OrphanPresses(k) PROVE NeverStranded'
  <2>1. Careful
    BY <1>11, IdleCareful DEF OrphanPresses, volatile
  <2> QED
    BY <2>1, CarefulKeeps
<1> QED
  BY <1>1, <1>2, <1>3, <1>4, <1>5, <1>6, <1>7, <1>8, <1>9, <1>10, <1>11 DEF Next

(* When nothing of a contact is under way, its buffered batch has a timer, or   *)
(* an active reply whose end will start it: every path by which a reply stops  *)
(* being active ends in wakeBufferedContact or startQueuedBatch                *)
(* (conversation/realtime-reply-service.ts).                                 *)
THEOREM ServiceStrandsNoBatch == Spec => []NoStrandedBatch
<1>1. Init => NeverStranded
  BY DEF Init, NeverStranded, Awake, Running
<1>2. NeverStranded => NoStrandedBatch
  <2> SUFFICES ASSUME NeverStranded, NEW c \in Contacts, Running, batches[c] # NoBatch, Quiet(c),
                      ~HasActive(c)
               PROVE  timer[c] # {}
    BY DEF NoStrandedBatch
  <2>1. Wakeup(c)
    BY DEF NeverStranded, Awake
  <2> QED
    BY <2>1 DEF Quiet, Wakeup, Obliged, At, NoPoll
<1> QED
  BY <1>1, <1>2, NeverStrandedStep, SpecTyped, PTL DEF Spec

-----------------------------------------------------------------------------
(* The service keeps the promise of ReplyOnce.                                *)

LEMMA PhaseOfFirst ==
  ASSUME StoreTypeOK, NEW k, NEW i, IsFirst(i, k)
  PROVE  PhaseOf(k) = PhaseWhen(records[i].status)
<1>1. \A j : IsFirst(j, k) => j = i
  BY FirstIsOne
<1>2. (CHOOSE j \in DOMAIN records : IsFirst(j, k)) = i
  BY <1>1 DEF IsFirst
<1> QED
  BY <1>2 DEF PhaseOf, IsFirst

LEMMA PhaseOfFirstNext ==
  ASSUME StoreTypeOK', NEW k, NEW i, IsFirst(i, k)'
  PROVE  PhaseOf(k)' = PhaseWhen(records'[i].status)
<1>1. ASSUME NEW j, IsFirst(j, k)' PROVE j = i
  <2>1. i \in Nat /\ j \in Nat
    BY <1>1 DEF StoreTypeOK, IsFirst
  <2>2. i <= j /\ j <= i
    BY <1>1 DEF IsFirst
  <2> QED
    BY <2>1, <2>2
<1>2. (CHOOSE j \in DOMAIN records' : IsFirst(j, k)') = i
  BY <1>1 DEF IsFirst
<1> QED
  BY <1>2 DEF PhaseOf, IsFirst

(* A trigger whose first record stays as it is stays in its phase.              *)
LEMMA PhaseKept ==
  ASSUME Typed, [Next]_vars, NEW k \in Key,
         \A i \in DOMAIN records : IsFirst(i, k) => records'[i].status = records[i].status,
         \A i \in DOMAIN records' \ DOMAIN records :
           records'[i].key = k => \E j \in DOMAIN records : records[j].key = k
  PROVE  PhaseOf(k)' = PhaseOf(k)
<1>0. StoreTypeOK /\ StoreTypeOK'
  BY TypedStep DEF Typed
<1>1. CASE \E j \in DOMAIN records : records[j].key = k
  <2>1. PICK i \in DOMAIN records : IsFirst(i, k)
    BY <1>0, <1>1, FirstExists
  <2>2. IsFirst(i, k)' /\ records'[i].status = records[i].status
    BY <2>1, FirstStaysFirst
  <2> QED
    BY <1>0, <2>1, <2>2, PhaseOfFirst, PhaseOfFirstNext
<1>2. CASE ~ \E j \in DOMAIN records : records[j].key = k
  <2>1. \A i \in DOMAIN records' : records'[i].key # k
    BY <1>2, LedgerGrows DEF Onward
  <2> QED
    BY <1>2, <2>1 DEF PhaseOf
<1> QED
  BY <1>1, <1>2

(* The phases of two triggers never change in one step, and each change is one  *)
(* the promise allows.                                                      *)
PhaseStep(k) ==
  \/ /\ PhaseOf(k) = "none" /\ PhaseOf(k)' = "open"
     /\ ~HasActive(k.contact)
  \/ PhaseOf(k) = "open" /\ PhaseOf(k)' = "dropped"
  \/ PhaseOf(k) = "open" /\ PhaseOf(k)' = "fenced"
  \/ PhaseOf(k) = "fenced" /\ PhaseOf(k)' = "verified" /\ Sent(k) # {}

PhasesMove ==
  \/ \A k \in Key : PhaseOf(k)' = PhaseOf(k)
  \/ /\ chat' = chat
     /\ \E k \in Key :
          /\ PhaseStep(k)
          /\ \A j \in Key \ {k} : PhaseOf(j)' = PhaseOf(j)

LEMMA ClaimPhases ==
  ASSUME Typed, [Next]_vars, chat' = chat, NEW c \in Contacts, ClaimBufferedBatch(c)
  PROVE  PhasesMove
<1>0. StoreTypeOK /\ StoreTypeOK'
  BY TypedStep DEF Typed
<1>1. /\ BatchKey(c) \in Key /\ records' = Append(records, NewRecord(BatchKey(c)))
      /\ BatchKey(c).contact = c
  BY <1>0, BatchKeyIsKey DEF ClaimBufferedBatch, BatchKey
<1>b. PICK b \in Key : b = BatchKey(c)
  BY <1>1
<1>n. PICK n \in Nat : n = Len(records) + 1
  BY <1>0 DEF StoreTypeOK
<1>2. /\ \A i \in DOMAIN records : i \in DOMAIN records' /\ records'[i] = records[i]
      /\ DOMAIN records' = DOMAIN records \cup {n} /\ n \notin DOMAIN records
      /\ records'[n] = NewRecord(b)
      /\ \A i \in DOMAIN records : i <= n
  BY <1>0, <1>1, <1>b, <1>n DEF StoreTypeOK
<1>3. NewRecord(b).key = b /\ NewRecord(b).status = "new"
  BY DEF NewRecord
<1>4. ASSUME NEW k \in Key, k # b \/ \E j \in DOMAIN records : records[j].key = k
      PROVE  PhaseOf(k)' = PhaseOf(k)
  BY <1>2, <1>3, <1>4, PhaseKept
<1>5. CASE \E j \in DOMAIN records : records[j].key = b
  BY <1>4, <1>5 DEF PhasesMove
<1>6. CASE ~ \E j \in DOMAIN records : records[j].key = b
  <2>1. PhaseOf(b) = "none"
    BY <1>6 DEF PhaseOf
  <2>2. IsFirst(n, b)'
    BY <1>2, <1>3, <1>6 DEF IsFirst
  <2>3. PhaseOf(b)' = "open"
    <3>1. PhaseOf(b)' = PhaseWhen(records'[n].status)
      BY <1>0, <2>2, PhaseOfFirstNext
    <3>2. PhaseWhen("new") = "open"
      BY DEF PhaseWhen, PreSubmit, Fenced
    <3> QED
      BY <1>2, <1>3, <3>1, <3>2
  <2>4. PhaseStep(b)
    BY <1>1, <1>b, <2>1, <2>3 DEF PhaseStep, ClaimBufferedBatch
  <2> QED
    BY <1>4, <2>4 DEF PhasesMove
<1> QED
  BY <1>5, <1>6

LEMMA WritesPhases ==
  ASSUME Typed, [Next]_vars, VerifiedInv, chat' = chat, NEW p \in Procs,
         NEW from, NEW to, NEW why, Writes(p, from, to, why)
  PROVE  PhasesMove
<1>0. StoreTypeOK /\ StoreTypeOK' /\ TaskOK
  BY TypedStep DEF Typed
<1>1. PICK k \in Key : k = task[p].key
  BY <1>0 DEF TaskOK, Task, Writes
<1>2. PICK i \in DOMAIN records :
        /\ IsFirst(i, k) /\ <<from, to>> \in Transitions
        /\ records[i].status = from
        /\ DOMAIN records' = DOMAIN records
        /\ \A j \in DOMAIN records \ {i} : records'[j] = records[j]
        /\ records'[i].key = k /\ records'[i].status = to
        /\ records'[i].reason = IF to \in Closed THEN why ELSE NoReason
  BY <1>0, <1>1, WritesOneRecord DEF Writes
<1>3. ASSUME NEW j \in Key \ {k} PROVE PhaseOf(j)' = PhaseOf(j)
  <2>1. \A m \in DOMAIN records : IsFirst(m, j) => records'[m].status = records[m].status
    BY <1>2 DEF IsFirst
  <2> QED
    BY <1>2, <2>1, PhaseKept
<1>4. PhaseOf(k) = PhaseWhen(from) /\ PhaseOf(k)' = PhaseWhen(to)
  <2>1. IsFirst(i, k)'
    BY <1>2, FirstStaysFirst
  <2> QED
    BY <1>0, <1>2, <2>1, PhaseOfFirst, PhaseOfFirstNext
<1>5. to = "verified" => Sent(k) # {}
  BY <1>1 DEF Writes, VerifiedInv, ProvenWereSent
<1>6. PhaseOf(k)' = PhaseOf(k) \/ PhaseStep(k)
  BY <1>2, <1>4, <1>5 DEF Transitions, PhaseStep, PhaseWhen, PreSubmit, Fenced
<1> QED
  BY <1>3, <1>6 DEF PhasesMove

LEMMA SweepsPhases ==
  ASSUME Typed, [Next]_vars, OneActivePerContact, chat' = chat, NEW c \in Contacts, NEW why,
         CancelPreSubmit(c, why, {})
  PROVE  PhasesMove
<1>0. StoreTypeOK /\ StoreTypeOK'
  BY TypedStep DEF Typed
<1>1. DOMAIN records' = DOMAIN records
  BY DEF CancelPreSubmit
<1>2. ASSUME NEW i \in DOMAIN records, records'[i] # records[i]
      PROVE  /\ records[i].key.contact = c /\ records[i].status \in PreSubmit
             /\ records'[i].status = "cancelled" /\ records'[i].key = records[i].key
  <2>1. records'[i] = Cancelled(records[i], c, why, {}) /\ records[i] \in Record
    BY <1>0 DEF CancelPreSubmit, StoreTypeOK
  <2>2. /\ records[i].key.contact = c /\ records[i].status \in PreSubmit
        /\ records'[i] = [records[i] EXCEPT !.status = "cancelled", !.reason = why]
    BY <1>2, <2>1 DEF Cancelled
  <2> QED
    BY <2>1, <2>2 DEF Record
<1>3. CASE \E i \in DOMAIN records : records'[i] # records[i]
  <2>1. PICK i \in DOMAIN records : records'[i] # records[i]
    BY <1>3
  <2>2. PICK k \in Key : k = records[i].key
    BY <1>0 DEF StoreTypeOK, Record
  <2>3. \A j \in DOMAIN records \ {i} : records'[j] = records[j]
    BY <1>2, <2>1 DEF OneActivePerContact, Active
  <2>4. ASSUME NEW j \in Key \ {k} PROVE PhaseOf(j)' = PhaseOf(j)
    <3>1. \A m \in DOMAIN records : IsFirst(m, j) => records'[m].status = records[m].status
      BY <2>2, <2>3 DEF IsFirst
    <3> QED
      BY <1>1, <3>1, PhaseKept
  <2>5. CASE IsFirst(i, k)
    <3>1. IsFirst(i, k)'
      BY <2>5, FirstStaysFirst
    <3>2. PhaseOf(k) = "open" /\ PhaseOf(k)' = "dropped"
      BY <1>0, <1>2, <2>1, <2>5, <3>1, PhaseOfFirst, PhaseOfFirstNext DEF PhaseWhen, PreSubmit, Fenced
    <3> QED
      BY <2>4, <3>2 DEF PhasesMove, PhaseStep
  <2>6. CASE ~IsFirst(i, k)
    <3>1. \A m \in DOMAIN records : IsFirst(m, k) => records'[m].status = records[m].status
      BY <2>3, <2>6
    <3>2. PhaseOf(k)' = PhaseOf(k)
      BY <1>1, <3>1, PhaseKept
    <3> QED
      BY <2>4, <3>2 DEF PhasesMove
  <2> QED
    BY <2>5, <2>6
<1>4. CASE \A i \in DOMAIN records : records'[i] = records[i]
  BY <1>1, <1>4, PhaseKept DEF PhasesMove
<1> QED
  BY <1>3, <1>4

LEMMA LedgerPhases ==
  ASSUME Typed, [Next]_vars, OneActivePerContact, VerifiedInv
  PROVE  PhasesMove
<1>1. CASE records' = records
  BY <1>1, PhaseKept DEF PhasesMove
<1>2. CASE LedgerMove /\ records' # records
  BY <1>2, ClaimPhases, WritesPhases, SweepsPhases
     DEF LedgerMove, Buffers, AppendBufferedMessage, ClearBufferedBatch, Sweeps
<1> QED
  BY <1>1, <1>2, LedgerMoves DEF storeVars

(* A reply that may be pressed, or is left to a submit that outlived its        *)
(* process, is fenced off.                                                  *)
LEMMA FencedPhase ==
  ASSUME Typed, VerifiedInv, NEW k \in Key, PastFence(k), Sent(k) = {}
  PROVE  PhaseOf(k) = "fenced"
<1>1. PICK i \in DOMAIN records : IsFirst(i, k) /\ records[i].status \in Fenced \cup {"verified"}
  BY DEF PastFence
<1>2. records[i].status # "verified"
  BY <1>1 DEF VerifiedInv, VerifiedWasSubmitted, IsFirst
<1>3. PhaseOf(k) = PhaseWhen(records[i].status)
  BY <1>1, PhaseOfFirst DEF Typed
<1> QED
  BY <1>1, <1>2, <1>3 DEF PhaseWhen, PreSubmit, Fenced

(* The chat gets at most one reply in a step, and a fenced one.                 *)
SubmissionStep(j) ==
  /\ PhaseOf(j) = "fenced"
  /\ Cardinality(Sent(j)) = 0 /\ Cardinality(Sent(j)') = 1

LEMMA SubmissionsMove ==
  ASSUME Typed, AtMostOnce, VerifiedInv, [Next]_vars
  PROVE  \/ \A k \in Key : Sent(k)' = Sent(k)
         \/ \E j \in Key :
              /\ SubmissionStep(j)
              /\ \A k \in Key \ {j} : Sent(k)' = Sent(k)
<1>1. ASSUME NEW j \in Key, PastFence(j), Sent(j) = {}, NEW n, Sent(j)' = Sent(j) \cup {n}
      PROVE  SubmissionStep(j)
  <2>1. Sent(j)' = {n}
    BY <1>1
  <2>2. Cardinality(Sent(j)) = 0 /\ Cardinality(Sent(j)') = 1
    BY <1>1, <2>1, FS_EmptySet, FS_Singleton
  <2> QED
    BY <1>1, <2>2, FencedPhase DEF SubmissionStep
<1>2. ASSUME NEW p \in Procs, NEW j \in Key, At(p, "press"), task[p].key = j
      PROVE  PastFence(j) /\ Sent(j) = {}
  BY <1>2 DEF AtMostOnce, HoldersAreFenced, Holds, Holding, At
<1>3. ASSUME NEW j \in orphans PROVE j \in Key /\ PastFence(j) /\ Sent(j) = {}
  BY DEF AtMostOnce, OrphansAreFenced, Typed, OrphansOK
<1>4. CASE \E p \in Procs, j \in Key :
             /\ At(p, "press") /\ task[p].key = j
             /\ \E n : Sent(j)' = Sent(j) \cup {n}
             /\ \A k \in Key \ {j} : Sent(k)' = Sent(k)
  BY <1>1, <1>2, <1>4
<1>5. CASE \E j \in orphans :
             /\ \E n : Sent(j)' = Sent(j) \cup {n}
             /\ \A k \in Key \ {j} : Sent(k)' = Sent(k)
  BY <1>1, <1>3, <1>5
<1> QED
  BY <1>4, <1>5, SentMoves

LEMMA PromiseInit == Init => Promise!ReplyInit
<1> SUFFICES ASSUME Init PROVE Promise!ReplyInit
  OBVIOUS
<1>1. ASSUME NEW k \in Key PROVE PhaseOf(k) = "none" /\ Cardinality(Sent(k)) = 0
  <2>1. Sent(k) = {}
    BY DEF Init, Sent, Key
  <2> QED
    BY <2>1, FS_EmptySet DEF Init, StoreInit, PhaseOf
<1> QED
  BY <1>1 DEF Promise!ReplyInit

LEMMA PromiseStep ==
  ASSUME Typed, OneActivePerContact, AtMostOnce, VerifiedInv, [Next]_vars
  PROVE  [Promise!ReplyNext]_(Promise!replyVars)
<1>1. CASE /\ \A k \in Key : PhaseOf(k)' = PhaseOf(k)
           /\ \A k \in Key : Sent(k)' = Sent(k)
  BY <1>1 DEF Promise!replyVars
<1>2. ASSUME NEW j \in Key, SubmissionStep(j), \A k \in Key : PhaseOf(k)' = PhaseOf(k),
             \A k \in Key \ {j} : Sent(k)' = Sent(k)
      PROVE  Promise!Submit(j)
  BY <1>2 DEF Promise!Submit, Promise!Only, SubmissionStep
<1>3. ASSUME NEW j \in Key, PhaseStep(j), \A k \in Key \ {j} : PhaseOf(k)' = PhaseOf(k),
             \A k \in Key : Sent(k)' = Sent(k)
      PROVE  Promise!Open(j) \/ Promise!Drop(j) \/ Promise!FenceOff(j) \/ Promise!Verify(j)
  <2>1. ASSUME NEW from, NEW to, PhaseOf(j) = from, PhaseOf(j)' = to PROVE Promise!Move(j, from, to)
    BY <1>3, <2>1 DEF Promise!Move, Promise!Only
  <2>2. ASSUME ~HasActive(j.contact) PROVE ~Promise!InFlight(j.contact)
    <3>1. ASSUME NEW k \in Key, k.contact = j.contact PROVE PhaseOf(k) \notin {"open", "fenced"}
      <4>1. CASE \E i \in DOMAIN records : records[i].key = k
        <5>1. PICK i \in DOMAIN records : IsFirst(i, k)
          BY <4>1, FirstExists DEF Typed
        <5>2. records[i].status \notin Active
          BY <2>2, <3>1, <5>1 DEF HasActive, IsFirst
        <5>3. PhaseOf(k) = PhaseWhen(records[i].status)
          BY <5>1, PhaseOfFirst DEF Typed
        <5> QED
          BY <5>2, <5>3 DEF PhaseWhen, Active
      <4>2. CASE ~ \E i \in DOMAIN records : records[i].key = k
        BY <4>2 DEF PhaseOf
      <4> QED
        BY <4>1, <4>2
    <3> QED
      BY <3>1 DEF Promise!InFlight
  <2>3. Sent(j) # {} => Cardinality(Sent(j)) = 1
    BY OnceIsCounted
  <2> QED
    BY <1>3, <2>1, <2>2, <2>3
       DEF PhaseStep, Promise!Open, Promise!Drop, Promise!FenceOff, Promise!Verify
<1>4. chat' = chat => \A k \in Key : Sent(k)' = Sent(k)
  BY DEF Sent
<1> QED
  BY <1>1, <1>2, <1>3, <1>4, LedgerPhases, SubmissionsMove DEF PhasesMove, Promise!ReplyNext

(* The ledger and the chat together keep the promise of ReplyOnce, whatever      *)
(* interleaves, fails or crashes: every step of the service is a step of the   *)
(* promise or none.                                                         *)
THEOREM ServiceKeepsPromise == Spec => KeepsPromise
<1>1. Typed /\ OneActivePerContact /\ AtMostOnce /\ VerifiedInv /\ [Next]_vars
        => [Promise!ReplyNext]_(Promise!replyVars)
  BY PromiseStep
<1> QED
  BY <1>1, PromiseInit, SpecTyped, ServiceOneActive, SpecAtMostOnce, SpecVerified, PTL
     DEF Spec, KeepsPromise, Promise!ReplySpec


===============================================================================

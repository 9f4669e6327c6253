------------------------- MODULE RealtimeReplyStore -------------------------
(***************************************************************************)
(* The durable ledger of realtime replies: RealtimeReplyRepository and its  *)
(* pure document functions in storage/repositories.ts.                      *)
(*                                                                         *)
(* The document is a list of reply records, in the order they were claimed, *)
(* and at most one buffered batch of incoming messages per contact.  Every  *)
(* operation is one transaction under "state/realtime-replies.lock" that    *)
(* rewrites the whole encrypted document or leaves it alone, so every       *)
(* operation is one action here.                                           *)
(*                                                                         *)
(* Abstractions.  A binding stands for the tuple (contact revision, binding *)
(* hash, source, source epoch, session) that a message arrives under; a     *)
(* message stands for its id, and as ids embed the sequence number a batch  *)
(* is the set of its messages, ordered by sequence.  The trigger id, a hash *)
(* of the contact, the binding and the message ids, is that tuple itself.   *)
(* Timestamps, the reply text and the readback baseline are left out: the   *)
(* modules that need the last two add them.                                *)
(***************************************************************************)
EXTENDS Integers, Sequences, FiniteSets

CONSTANTS
  Contacts,    \* contacts with an enrolled private chat
  Bindings,    \* bindings a message can arrive under
  Messages,    \* ids of incoming messages
  Reasons,     \* reasons a reply is closed with: realtimeReplyReasonSchema
  MaxBatch,    \* messages a batch can hold: .max(100) in the schema
  NoBatch      \* the contact has no buffered batch

VARIABLES
  records,     \* the claimed replies, oldest first
  batches      \* per contact, the buffered batch or NoBatch

storeVars == <<records, batches>>

-----------------------------------------------------------------------------
(* Statuses and the legal moves between them.                              *)

PreSubmit == {"new", "generating", "prepared"}
Fenced    == {"submit-started", "submitted-uncertain"}
Terminal  == {"verified", "cancelled", "failed"}
Active    == PreSubmit \cup Fenced
Status    == Active \cup Terminal

NoReason == "none"

Transitions ==
  {<<"new", "generating">>, <<"generating", "prepared">>,
   <<"prepared", "submit-started">>,
   <<"submit-started", "verified">>, <<"submit-started", "submitted-uncertain">>,
   <<"submitted-uncertain", "verified">>,
   <<"submitted-uncertain", "submitted-uncertain">>}
  \cup (PreSubmit \X {"cancelled", "failed"})

Closed  == {"cancelled", "failed"}

(* What the schemas of the document accept.                                 *)
MessageSets == {S \in SUBSET Messages : S # {} /\ Cardinality(S) <= MaxBatch}
Batch  == [binding : Bindings, messages : MessageSets]
Key    == [contact : Contacts, binding : Bindings, messages : MessageSets]
Record == {r \in [key : Key, status : Status, reason : Reasons \cup {NoReason}] :
             r.status \in Closed => r.reason # NoReason}

ASSUME NoBatchAssumption == NoBatch \notin Batch
ASSUME ReasonsAssumption == NoReason \notin Reasons

-----------------------------------------------------------------------------
(* Queries.                                                                *)

(* findRealtimeRecord and the CAS both take the FIRST record with the key.  *)
IsFirst(i, k) ==
  /\ i \in DOMAIN records
  /\ records[i].key = k
  /\ \A j \in DOMAIN records : records[j].key = k => i <= j

StatusIs(k, s) == \E i \in DOMAIN records : IsFirst(i, k) /\ records[i].status = s

HasActive(c) ==
  \E i \in DOMAIN records : records[i].key.contact = c /\ records[i].status \in Active

(* Mutant: buffered batches are not work.                                   *)
HasActiveWork == \E c \in Contacts : HasActive(c)

HasPendingWork ==
  \/ \E c \in Contacts : batches[c] # NoBatch
  \/ \E c \in Contacts : HasActive(c)

Recoverable == {i \in DOMAIN records : records[i].status \in Active}

BatchKey(c) ==
  [contact |-> c, binding |-> batches[c].binding, messages |-> batches[c].messages]

-----------------------------------------------------------------------------
(* Operations.                                                             *)

(* An incoming message joins the contact's batch.  A batch that was built   *)
(* under another binding is replaced, not extended; the schema refuses a    *)
(* batch above MaxBatch, and then nothing is written.                      *)
BufferedAfter(c, b, m) ==
  IF batches[c] # NoBatch /\ batches[c].binding = b
    THEN batches[c].messages \cup {m} ELSE {m}

AppendBufferedMessage(c, b, m) ==
  /\ Cardinality(BufferedAfter(c, b, m)) <= MaxBatch
  /\ batches' = [batches EXCEPT
                   ![c] = [binding |-> b, messages |-> BufferedAfter(c, b, m)]]
  /\ UNCHANGED records

ClearBufferedBatch(c) ==
  /\ batches' = [batches EXCEPT ![c] = NoBatch]
  /\ UNCHANGED records

NewRecord(k) == [key |-> k, status |-> "new", reason |-> NoReason]

(* The batch becomes a record in one transaction, unless the contact still  *)
(* has an active reply.  Nothing looks for an older record with the key.    *)
ClaimBufferedBatch(c) ==
  /\ batches[c] # NoBatch
  /\ ~HasActive(c)
  /\ records' = Append(records, NewRecord(BatchKey(c)))
  /\ batches' = [batches EXCEPT ![c] = NoBatch]

(* Claiming a trigger directly: refused when the key was ever claimed.      *)
Claim(k) ==
  /\ \A i \in DOMAIN records : records[i].key # k
  /\ ~HasActive(k.contact)
  /\ records' = Append(records, NewRecord(k))
  /\ UNCHANGED batches

(* compareAndSet, when it succeeds.  It returns false and writes nothing    *)
(* exactly when StatusIs(k, from) fails.                                   *)
CompareAndSet(k, from, to, why) ==
  /\ <<from, to>> \in Transitions
  /\ \E i \in DOMAIN records :
       /\ IsFirst(i, k)
       /\ records[i].status = from
       /\ records' = [records EXCEPT ![i].status = to,
                                     ![i].reason = IF to \in Closed
                                                     THEN why ELSE NoReason]
  /\ UNCHANGED batches

(* Every reply of the contact that is still before its fence is cancelled,  *)
(* except those of the spared trigger, if the caller names one.             *)
(* Mutant: the sweep also takes a reply that passed its fence.               *)
CancelledPastFence(r, c, why, spared) ==
  IF r.key.contact = c /\ r.key \notin spared /\ r.status \in Active
    THEN [r EXCEPT !.status = "cancelled", !.reason = why] ELSE r

Cancelled(r, c, why, spared) ==
  IF r.key.contact = c /\ r.key \notin spared /\ r.status \in PreSubmit
    THEN [r EXCEPT !.status = "cancelled", !.reason = why] ELSE r

CancelPreSubmit(c, why, spared) ==
  /\ records' = [i \in DOMAIN records |-> Cancelled(records[i], c, why, spared)]
  /\ UNCHANGED batches

-----------------------------------------------------------------------------
(* Any sequence of calls the interface allows, from any number of           *)
(* processes.                                                              *)

StoreInit ==
  /\ records = << >>
  /\ batches = [c \in Contacts |-> NoBatch]

StoreNext ==
  \/ \E c \in Contacts, b \in Bindings, m \in Messages : AppendBufferedMessage(c, b, m)
  \/ \E c \in Contacts : ClearBufferedBatch(c)
  \/ \E c \in Contacts : ClaimBufferedBatch(c)
  \/ \E k \in Key : Claim(k)
  \/ \E i \in DOMAIN records, t \in Transitions, why \in Reasons :
       CompareAndSet(records[i].key, t[1], t[2], why)
  \/ \E c \in Contacts, why \in Reasons,
        spared \in {{}} \cup {{records[i].key} : i \in DOMAIN records} :
       CancelPreSubmit(c, why, spared)

StoreSpec == StoreInit /\ [][StoreNext]_storeVars

-----------------------------------------------------------------------------
(* Properties of the ledger on its own.                                    *)

StoreTypeOK ==
  /\ records \in Seq(Record)
  /\ batches \in [Contacts -> Batch \cup {NoBatch}]

(* At most one reply per contact is in flight, whatever processes call the  *)
(* repository in whatever order (claimRealtimeRecord and                    *)
(* claimRealtimeBufferedBatch both look for an active record first).        *)
OneActivePerContact ==
  \A i, j \in DOMAIN records :
    /\ records[i].status \in Active
    /\ records[j].status \in Active
    /\ records[i].key.contact = records[j].key.contact
    => i = j

(* The whole history of a record, across every operation: it is never       *)
(* removed or rebound, a fenced reply never becomes submittable again, and  *)
(* a closed one is never reopened, by a CAS or by a cancellation sweep.     *)
Onward(old, new) ==
  /\ new.key = old.key
  /\ new.status = "new" => old.status = "new"
  /\ new.status = "generating" => old.status \in {"new", "generating"}
  /\ new.status = "prepared" => old.status \in {"generating", "prepared"}
  /\ new.status = "submit-started" => old.status \in {"prepared", "submit-started"}
  /\ old.status \in Fenced => new.status \in Fenced \cup {"verified"}
  /\ old.status \in Terminal => new = old

RecordsGoOnward ==
  \A i \in DOMAIN records : i \in DOMAIN records' /\ Onward(records[i], records'[i])

NeverReopened == [][RecordsGoOnward]_records

=============================================================================
